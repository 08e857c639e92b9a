-------------------------- MODULE RawCaptureProofs --------------------------
(***************************************************************************)
(* The raw edge capture, for every capacity, set of input levels, counter   *)
(* range and number of commands: what the firmware publishes is one window, *)
(* and what the tool reports is the window it asked for, although requests  *)
(* it gave up on are served later and it copies the block without a lock.   *)
(***************************************************************************)
EXTENDS RawCapture, TLAPS

RequestTypes == {"CONFIG", "CLEAR", "START", "STATUS", "STOP", "FORCE_SAFE"}
Requests == [type : RequestTypes, limit : 1..Capacity, sess : Nat]
Replies == [type : RequestTypes \cup {"none"}, sess : Nat, ok : BOOLEAN, running : BOOLEAN]
Fields == {"running", "limit", "event_count", "initial", "final", "start", "stop", "reason"}

RawTypes ==
    /\ R31 \in Levels /\ now \in 0..(Wrap - 1) /\ sample \in Levels \cup {0}
    /\ mem \in [Addr -> Nat] /\ stores \in Seq(Addr \X Nat)
    /\ pc \in {"main", "drain", "reply", "window", "publish"}
    /\ start_pending \in BOOLEAN /\ capture_running \in BOOLEAN
    /\ event_limit \in 1..Capacity /\ event_count \in 0..Capacity
    /\ last_inputs \in Levels \cup {0} /\ last_timestamp \in Nat
    /\ rx \in Seq(Requests) /\ reply \in Replies /\ answer \in Replies
    /\ sess \in 0..MaxSessions /\ kind \in Commands /\ todo \in Seq(RequestTypes)
    /\ waiting \in BOOLEAN /\ limit \in 1..Capacity /\ snap \in Seq(Nat)
    /\ Len(snap) <= Len(Layout) /\ outcome \in {"none", "error", "done"}
    /\ base \in Levels /\ seen \in Seq(Nat \X Nat) /\ owner \in Nat /\ calm \in BOOLEAN
    /\ waiting => todo # <<>>

(* The word at address a will be v when the stores s are done on memory m;    *)
(* when the stores under way are done.                                        *)
EndsIn(m, s, a, v) ==
    \/ m[a] = v /\ \A j \in 1..Len(s) : s[j][1] # a
    \/ \E i \in 1..Len(s) : /\ s[i][1] = a /\ s[i][2] = v
                            /\ \A j \in 1..Len(s) : j > i => s[j][1] # a
Ends(a, v) == EndsIn(mem, stores, a, v)

(* The addresses of the block.                                                *)
LEMMA RawFacts ==
    /\ Capacity \in Nat /\ Capacity >= 1 /\ Wrap \in Nat /\ Wrap >= 1 /\ MaxSessions \in Nat
    /\ Levels \subseteq Nat /\ 0 \in Levels
BY RawAssumption

LEMMA LayoutFacts ==
    /\ Len(Layout) = 8 + 2 * Capacity /\ DOMAIN Layout = 1..(8 + 2 * Capacity)
    /\ \A i \in 1..8 : Layout[i] = <<Header[i], 0>>
    /\ \A k \in 0..(Capacity - 1) : /\ 9 + 2 * k \in 9..(8 + 2 * Capacity)
                                    /\ 10 + 2 * k \in 9..(8 + 2 * Capacity)
                                    /\ Layout[9 + 2 * k] = <<"ts", k>>
                                    /\ Layout[10 + 2 * k] = <<"raw", k>>
<1>1. 8 + 2 * Capacity \in Nat
  BY RawFacts
<1>2. DOMAIN Layout = 1..(8 + 2 * Capacity)
  BY DEF Layout
<1>3. Len(Layout) = 8 + 2 * Capacity
  BY <1>1 DEF Layout
<1>a. \A i \in 1..(8 + 2 * Capacity) :
        Layout[i] = IF i <= 8 THEN <<Header[i], 0>>
                    ELSE <<IF i % 2 = 1 THEN "ts" ELSE "raw", (i - 9) \div 2>>
  BY Zenon DEF Layout
<1>4. ASSUME NEW i \in 1..8 PROVE Layout[i] = <<Header[i], 0>>
  <2>1. i \in 1..(8 + 2 * Capacity) /\ i <= 8
    BY RawFacts
  <2> QED BY <1>a, <2>1
<1>5. ASSUME NEW k \in 0..(Capacity - 1)
      PROVE /\ 9 + 2 * k \in 9..(8 + 2 * Capacity)
            /\ 10 + 2 * k \in 9..(8 + 2 * Capacity)
            /\ Layout[9 + 2 * k] = <<"ts", k>>
            /\ Layout[10 + 2 * k] = <<"raw", k>>
  <2>1. PICK i \in Int, j \in Int : i = 9 + 2 * k /\ j = 10 + 2 * k
    BY RawFacts
  <2>2. i \in 9..(8 + 2 * Capacity) /\ j \in 9..(8 + 2 * Capacity)
    BY <2>1, RawFacts
  <2>3. i % 2 = 1 /\ (i - 9) \div 2 = k /\ j % 2 = 0 /\ (j - 9) \div 2 = k
    BY <2>1
  <2>4. i \in 1..(8 + 2 * Capacity) /\ ~(i <= 8) /\ j \in 1..(8 + 2 * Capacity) /\ ~(j <= 8)
    BY <2>1, RawFacts
  <2>5. Layout[i] = <<"ts", k>>
    BY <1>a, <2>3, <2>4
  <2>6. Layout[j] = <<"raw", k>>
    <3>1. Layout[j] = <<IF j % 2 = 1 THEN "ts" ELSE "raw", (j - 9) \div 2>>
      BY <1>a, <2>4
    <3> QED BY <2>3, <3>1
  <2> QED BY <2>1, <2>2, <2>5, <2>6
<1> QED BY <1>2, <1>3, <1>4, <1>5

LEMMA Addresses ==
    /\ \A f \in Fields : W(f) \in Addr
    /\ \A k \in 0..(Capacity - 1) : <<"ts", k>> \in Addr /\ <<"raw", k>> \in Addr
<1>a. \A i \in 1..(8 + 2 * Capacity) : Layout[i] \in Addr
  BY LayoutFacts DEF Addr
<1>b. /\ \A i \in 1..8 : i \in 1..(8 + 2 * Capacity)
      /\ \A i \in 9..(8 + 2 * Capacity) : i \in 1..(8 + 2 * Capacity)
  BY RawFacts
<1>1. ASSUME NEW i \in 1..8 PROVE <<Header[i], 0>> \in Addr
  <2>1. Layout[i] \in Addr /\ Layout[i] = <<Header[i], 0>>
    BY <1>a, <1>b, LayoutFacts
  <2> QED BY <2>1
<1>2. \A f \in Fields : \E i \in 1..8 : Header[i] = f
  BY DEF Fields, Header
<1>3. \A f \in Fields : W(f) \in Addr
  BY <1>1, <1>2 DEF W
<1>4. ASSUME NEW k \in 0..(Capacity - 1) PROVE <<"ts", k>> \in Addr /\ <<"raw", k>> \in Addr
  <2>1. Layout[9 + 2 * k] \in Addr /\ Layout[10 + 2 * k] \in Addr
    BY <1>a, <1>b, LayoutFacts
  <2> QED BY <2>1, LayoutFacts
<1> QED BY <1>3, <1>4

(* What the stores under way come to: a step of the firmware writes one of     *)
(* them and changes nothing of it; a fresh list of stores decides the words     *)
(* it names.                                                                   *)
LEMMA OneEnd ==
    ASSUME NEW m, NEW s, NEW a, NEW v, NEW w, EndsIn(m, s, a, v), EndsIn(m, s, a, w),
           s \in Seq(Addr \X Nat)
    PROVE  v = w
<1>1. CASE \A j \in 1..Len(s) : s[j][1] # a
  BY <1>1 DEF EndsIn
<1>2. CASE \E j \in 1..Len(s) : s[j][1] = a
  <2>1. PICK i \in 1..Len(s) : /\ s[i][1] = a /\ s[i][2] = v
                               /\ \A j \in 1..Len(s) : j > i => s[j][1] # a
    BY <1>2 DEF EndsIn
  <2>2. PICK k \in 1..Len(s) : /\ s[k][1] = a /\ s[k][2] = w
                               /\ \A j \in 1..Len(s) : j > k => s[j][1] # a
    BY <1>2 DEF EndsIn
  <2>3. i = k
    BY <2>1, <2>2
  <2> QED BY <2>1, <2>2, <2>3
<1> QED BY <1>1, <1>2

LEMMA Decided ==
    ASSUME RawTypes, NEW a, NEW v, NEW w, Ends(a, v), Ends(a, w)
    PROVE  v = w
BY OneEnd DEF Ends, RawTypes

LEMMA DecidedNext ==
    ASSUME RawTypes', NEW a, NEW v, NEW w, Ends(a, v)', Ends(a, w)'
    PROVE  v = w
<1>1. stores' \in Seq(Addr \X Nat)
  BY DEF RawTypes
<1>2. EndsIn(mem', stores', a, v) /\ EndsIn(mem', stores', a, w)
  BY DEF Ends
<1> QED BY <1>1, <1>2, OneEnd

LEMMA AtRest ==
    ASSUME stores = <<>>, NEW a, NEW v
    PROVE  Ends(a, v) <=> mem[a] = v
BY DEF Ends, EndsIn

LEMMA StoreEnds ==
    ASSUME RawTypes, Store, NEW a \in Addr, NEW v
    PROVE  Ends(a, v)' <=> Ends(a, v)
<1>1. /\ stores \in Seq(Addr \X Nat) /\ stores # <<>> /\ mem \in [Addr -> Nat]
      /\ mem' = [mem EXCEPT ![Head(stores)[1]] = Head(stores)[2]] /\ stores' = Tail(stores)
  BY DEF RawTypes, Store
<1>2. PICK n \in Nat : n = Len(stores) /\ n >= 1
  BY <1>1
<1>3. /\ Len(stores') = n - 1 /\ \A j \in 1..(n - 1) : stores'[j] = stores[j + 1]
      /\ Head(stores) = stores[1]
  BY <1>1, <1>2
<1>4. PICK b \in Addr, w \in Nat : stores[1] = <<b, w>>
  BY <1>1, <1>2
<1>5. mem'[a] = IF a = b THEN w ELSE mem[a]
  BY <1>1, <1>3, <1>4
<1>6. /\ \A j \in 1..(n - 1) : j + 1 \in 1..n /\ j + 1 # 1
      /\ \A j \in 1..n : j # 1 => j - 1 \in 1..(n - 1) /\ (j - 1) + 1 = j
      /\ 1 \in 1..n
  BY <1>2
<1>7. (\A j \in 1..(n - 1) : stores'[j][1] # a) <=> \A j \in 1..n : j # 1 => stores[j][1] # a
  <2>1. ASSUME \A j \in 1..(n - 1) : stores'[j][1] # a, NEW j \in 1..n, j # 1 PROVE stores[j][1] # a
    <3>1. j - 1 \in 1..(n - 1) /\ stores'[j - 1] = stores[j]
      BY <1>3, <1>6, <2>1
    <3> QED BY <2>1, <3>1
  <2>2. ASSUME \A j \in 1..n : j # 1 => stores[j][1] # a, NEW j \in 1..(n - 1) PROVE stores'[j][1] # a
    BY <1>3, <1>6, <2>2
  <2> QED BY <2>1, <2>2
<1>8. CASE \A j \in 1..n : j # 1 => stores[j][1] # a
  <2>1. Ends(a, v)' <=> mem'[a] = v
    BY <1>3, <1>7, <1>8 DEF Ends, EndsIn
  <2>2. CASE a = b
    <3>1. Ends(a, v) <=> w = v
      BY <1>2, <1>4, <1>6, <1>8, <2>2 DEF Ends, EndsIn
    <3> QED BY <1>5, <2>1, <2>2, <3>1
  <2>3. CASE a # b
    <3>1. Ends(a, v) <=> mem[a] = v
      BY <1>2, <1>4, <1>6, <1>8, <2>3 DEF Ends, EndsIn
    <3> QED BY <1>5, <2>1, <2>3, <3>1
  <2> QED BY <2>2, <2>3
<1>9. CASE \E k \in 1..n : k # 1 /\ stores[k][1] = a
  <2>1. PICK k \in 1..n : k # 1 /\ stores[k][1] = a
    BY <1>9
  <2>2. ASSUME Ends(a, v) PROVE Ends(a, v)'
    <3>1. PICK i \in 1..n : /\ stores[i][1] = a /\ stores[i][2] = v
                            /\ \A j \in 1..n : j > i => stores[j][1] # a
      BY <1>2, <2>1, <2>2 DEF Ends, EndsIn
    <3>2. i # 1
      BY <1>2, <2>1, <3>1
    <3>3. i - 1 \in 1..(n - 1) /\ stores'[i - 1] = stores[i]
      BY <1>3, <1>6, <3>2
    <3>4. ASSUME NEW j \in 1..(n - 1), j > i - 1 PROVE stores'[j][1] # a
      BY <1>2, <1>3, <1>6, <3>1, <3>4
    <3> QED BY <1>3, <3>1, <3>3, <3>4 DEF Ends, EndsIn
  <2>3. ASSUME Ends(a, v)' PROVE Ends(a, v)
    <3>1. PICK i \in 1..(n - 1) : /\ stores'[i][1] = a /\ stores'[i][2] = v
                                  /\ \A j \in 1..(n - 1) : j > i => stores'[j][1] # a
      BY <1>3, <1>7, <2>1, <2>3 DEF Ends, EndsIn
    <3>2. i + 1 \in 1..n /\ stores[i + 1] = stores'[i]
      BY <1>3, <1>6
    <3>3. ASSUME NEW j \in 1..n, j > i + 1 PROVE stores[j][1] # a
      <4>1. j # 1 /\ j - 1 \in 1..(n - 1) /\ j - 1 > i /\ stores'[j - 1] = stores[j]
        BY <1>2, <1>3, <1>6, <3>3
      <4> QED BY <3>1, <4>1
    <3> QED BY <1>2, <3>1, <3>2, <3>3 DEF Ends, EndsIn
  <2> QED BY <2>2, <2>3
<1> QED BY <1>8, <1>9

LEMMA NewEnds ==
    ASSUME stores = <<>>, UNCHANGED mem, NEW n \in Nat, Len(stores') = n
    PROVE  /\ \A a, v : (\A j \in 1..n : stores'[j][1] # a) => (Ends(a, v)' <=> Ends(a, v))
           /\ \A a, v : (\E i \in 1..n : /\ stores'[i][1] = a /\ stores'[i][2] = v
                                         /\ \A j \in 1..n : j > i => stores'[j][1] # a)
                         => Ends(a, v)'
<1>1. ASSUME NEW a, NEW v, \A j \in 1..n : stores'[j][1] # a PROVE Ends(a, v)' <=> Ends(a, v)
  <2>1. Ends(a, v) <=> mem[a] = v
    BY AtRest
  <2>2. Ends(a, v)' <=> mem'[a] = v
    BY <1>1 DEF Ends, EndsIn
  <2> QED BY <2>1, <2>2
<1>2. ASSUME NEW a, NEW v, NEW i \in 1..n, stores'[i][1] = a, stores'[i][2] = v,
             \A j \in 1..n : j > i => stores'[j][1] # a
      PROVE  Ends(a, v)'
  BY <1>2 DEF Ends, EndsIn
<1> QED BY <1>1, <1>2
------------------------------------------------------------------------------
(* The window that is open, or the last one: what was on the pins is in the    *)
(* block, or will be when the stores under way are done.                       *)
InWindow == pc \in {"window", "publish"}
Recorded ==
    /\ Ends(W("initial"), base)
    /\ \A i \in 1..Len(seen) : /\ Ends(<<"ts", i - 1>>, seen[i][1])
                               /\ Ends(<<"raw", i - 1>>, seen[i][2])
Changes == \A i \in 1..Len(seen) : seen[i][2] # IF i = 1 THEN base ELSE seen[i - 1][2]

(* While the window is open the registers agree with what was seen so far.     *)
Latest == IF seen = <<>> THEN base ELSE seen[Len(seen)][2]
Capturing ==
    InWindow =>
       /\ event_count = Len(seen) /\ last_inputs = Latest
       /\ seen # <<>> => last_timestamp = seen[Len(seen)][1]
       /\ event_count < event_limit \/ pc = "publish"
       /\ pc = "publish" => event_count = event_limit
       /\ Ends(W("reason"), NONE) /\ Ends(W("event_count"), 0)
       /\ Recorded /\ Changes

(* A published window stays whole until the next START or CLEAR; no other      *)
(* block shows records.                                                        *)
Whole ==
    /\ ~start_pending /\ seen # <<>> /\ event_count = Len(seen)
    /\ Ends(W("event_count"), Len(seen)) /\ Ends(W("running"), 0)
    /\ Ends(W("stop"), seen[Len(seen)][1])
    /\ Recorded /\ Changes
Published == Ends(W("reason"), EVENT_LIMIT) => Whole
Empty ==
    \/ Ends(W("reason"), EVENT_LIMIT)
    \/ Ends(W("event_count"), 0) /\ (InWindow \/ event_count = 0)

(* Where the firmware may be with a start pending, a window open or stores     *)
(* under way.                                                                  *)
Flow ==
    /\ capture_running <=> InWindow
    /\ start_pending => ~InWindow /\ Ends(W("reason"), NONE)
    /\ pc = "drain" => stores = <<>>

(* running is 1 from the end of the arming to the last store of publish_stop.  *)
Gate ==
    /\ InWindow => /\ Ends(W("running"), 1)
                   /\ \A i \in 1..Len(stores) : stores[i][1] = W("running") => stores[i][2] = 1
    /\ pc = "publish" => mem[W("running")] = 1
    /\ pc = "main" /\ stores # <<>> =>
          /\ mem[W("running")] = 1
          /\ \A i \in 1..Len(stores) : stores[i][1] = W("running") => i = Len(stores)

FirmwareInv == RawTypes /\ Capturing /\ Published /\ Empty /\ Flow /\ Gate
------------------------------------------------------------------------------
(* The request the tool waits for is the youngest queued, or in service, or    *)
(* answered; all others were queued by earlier commands.                       *)
Asked ==
    /\ \A i \in 1..Len(rx) : rx[i].sess <= sess
    /\ reply.sess <= sess /\ (pc # "reply" => reply = NoAnswer)
    /\ outcome = "none" =>
          /\ sess >= 1 /\ (waiting => todo # <<>>)
          /\ \A i \in 1..Len(rx) :
                rx[i].sess = sess => /\ i = Len(rx) /\ waiting
                                     /\ rx[i].type = Head(todo) /\ rx[i].limit = limit
                                     /\ reply.sess # sess /\ answer = NoAnswer
          /\ reply.sess = sess => waiting /\ reply.type = Head(todo) /\ answer = NoAnswer
          /\ answer # NoAnswer => waiting /\ answer.type = Head(todo)

(* How far a capture has come: its configuration is in force, its START opened *)
(* the last window, that window is over, and the block at rest is copied.      *)
Remaining == {<<"CONFIG", "CLEAR", "START", "STATUS">>, <<"CLEAR", "START", "STATUS">>,
              <<"START", "STATUS">>, <<"STATUS">>, <<>>}
InService == reply.sess = sess /\ reply.ok
Answered == answer # NoAnswer /\ answer.ok
Granted(n) == Len(todo) < n \/ (Len(todo) = n /\ (InService \/ Answered))
Ours == Ends(W("reason"), EVENT_LIMIT) /\ Len(seen) = limit
Resting == stores = <<>> /\ rx = <<>> /\ pc \in {"main", "drain"}
Copied == \A i \in 1..Len(snap) : snap[i] = mem[Layout[i]]
CaptureInv ==
    kind = "capture" /\ outcome \in {"none", "done"} =>
       /\ todo \in Remaining
       /\ Granted(4) => event_limit = limit /\ \A i \in 1..Len(rx) : rx[i].sess = sess
       /\ Granted(2) => owner = sess /\ (start_pending \/ InWindow \/ Ours)
       /\ todo = <<"STATUS">> /\ InService /\ ~reply.running => Ours
       /\ todo = <<>> \/ (todo = <<"STATUS">> /\ Answered /\ ~answer.running) => Ours /\ Resting
       /\ Copied /\ (todo # <<>> => snap = <<>>)
       /\ outcome = "done" => todo = <<>> /\ Len(snap) = Len(Layout)

(* A dump begun in calm sees running = 0 only when nothing happens any more.   *)
DumpInv ==
    kind = "dump" /\ calm /\ outcome \in {"none", "done"} =>
       /\ todo = <<>> /\ ~waiting /\ rx = <<>> /\ ~start_pending /\ pc \notin {"drain", "reply"}
       /\ pc = "window" => mem[W("running")] = 1
       /\ snap # <<>> /\ snap[1] = 0 => pc = "main" /\ stores = <<>> /\ Copied
       /\ outcome = "done" => Len(snap) = Len(Layout) /\ snap[1] = 0
------------------------------------------------------------------------------
(* A fresh list of stores decides the words it names once.                     *)
LEMMA ListEnds ==
    ASSUME stores = <<>>, UNCHANGED mem, NEW s, stores' = s, NEW n \in Nat, Len(s) = n
    PROVE  /\ \A a, v : (\A j \in 1..n : s[j][1] # a) => (Ends(a, v)' <=> Ends(a, v))
           /\ \A i \in 1..n : (\A j \in 1..n : j # i => s[j][1] # s[i][1]) => Ends(s[i][1], s[i][2])'
<1>1. ASSUME NEW i \in 1..n, \A j \in 1..n : j # i => s[j][1] # s[i][1] PROVE Ends(s[i][1], s[i][2])'
  <2>1. PICK a, v : a = s[i][1] /\ v = s[i][2]
    OBVIOUS
  <2>2. \A j \in 1..n : j > i => s[j][1] # a
    BY <1>1, <2>1
  <2>3. Ends(a, v)'
    BY <2>1, <2>2, NewEnds
  <2> QED BY <2>1, <2>3
<1>2. \A a, v : (\A j \in 1..n : s[j][1] # a) => (Ends(a, v)' <=> Ends(a, v))
  BY NewEnds
<1> QED BY <1>1, <1>2

LEMMA SameEnds ==
    ASSUME UNCHANGED <<mem, stores>>
    PROVE  \A a, v : Ends(a, v)' <=> Ends(a, v)
BY DEF Ends, EndsIn

(* The stores of handle_request. In the request loop no window is open.        *)
LEMMA Pair == ASSUME NEW a \in Addr, NEW v \in Nat PROVE <<a, v>> \in Addr \X Nat
OBVIOUS

LEMMA HeaderWords ==
    /\ W("running") \in Addr /\ W("limit") \in Addr /\ W("event_count") \in Addr
    /\ W("initial") \in Addr /\ W("final") \in Addr /\ W("start") \in Addr
    /\ W("stop") \in Addr /\ W("reason") \in Addr
BY Addresses DEF Fields

LEMMA Numbers ==
    ASSUME RawTypes
    PROVE  /\ NONE \in Nat /\ EVENT_LIMIT \in Nat /\ HOST_REQUEST \in Nat /\ FORCE_SAFE \in Nat
           /\ now \in Nat /\ R31 \in Nat /\ sample \in Nat /\ event_count \in Nat
           /\ event_limit \in Nat /\ last_inputs \in Nat /\ last_timestamp \in Nat
BY RawFacts DEF RawTypes, NONE, EVENT_LIMIT, HOST_REQUEST, FORCE_SAFE

LEMMA Tuples ==
    ASSUME NEW T
    PROVE  /\ <<>> \in Seq(T)
           /\ \A a \in T : <<a>> \in Seq(T)
           /\ \A a, b \in T : <<a, b>> \in Seq(T)
           /\ \A a, b, c \in T : <<a, b, c>> \in Seq(T)
           /\ \A a, b, c, d \in T : <<a, b, c, d>> \in Seq(T)
           /\ \A a, b, c, d, e \in T : <<a, b, c, d, e>> \in Seq(T)
           /\ \A a, b, c, d, e, f, g \in T : <<a, b, c, d, e, f, g>> \in Seq(T)
OBVIOUS

LEMMA InitType ==
    /\ raw_shared_init \in Seq(Addr \X Nat) /\ Len(raw_shared_init) = 8
    /\ \A i \in 1..8 : /\ raw_shared_init[i] = <<Layout[i], IF i = 2 THEN Capacity ELSE 0>>
                       /\ Layout[i] = W(Header[i]) /\ Layout[i] \in Addr
<1>a. \A i \in 1..(8 + 2 * Capacity) : Layout[i] \in Addr
  BY LayoutFacts DEF Addr
<1>b. \A i \in 1..8 : i \in 1..(8 + 2 * Capacity)
  BY RawFacts
<1>1. \A i \in 1..8 : Layout[i] \in Addr /\ Layout[i] = W(Header[i])
  BY <1>a, <1>b, LayoutFacts DEF W
<1>2. ASSUME NEW i \in 1..8 PROVE <<Layout[i], IF i = 2 THEN Capacity ELSE 0>> \in Addr \X Nat
  <2>1. Layout[i] \in Addr /\ (IF i = 2 THEN Capacity ELSE 0) \in Nat
    BY <1>1, RawFacts
  <2> QED BY <2>1
<1>3. PICK T : T = Addr \X Nat
  OBVIOUS
<1>4. raw_shared_init = [i \in 1..8 |-> <<Layout[i], IF i = 2 THEN Capacity ELSE 0>>]
  BY DEF raw_shared_init
<1>5. \A i \in 1..8 : raw_shared_init[i] = <<Layout[i], IF i = 2 THEN Capacity ELSE 0>>
  BY <1>4
<1>6. \A i \in 1..8 : raw_shared_init[i] \in T
  BY <1>2, <1>3, <1>5
<1>7. PICK r : r = raw_shared_init /\ r = [i \in 1..8 |-> r[i]] /\ \A i \in 1..8 : r[i] \in T
  BY <1>4, <1>6
<1>8. r \in Seq(T) /\ Len(r) = 8
  BY <1>7
<1> QED BY <1>1, <1>3, <1>5, <1>7, <1>8

(* The stores of publish_stop, of the arming, of the requests and of an edge.  *)
LEMMA StoreTypes ==
    ASSUME RawTypes
    PROVE  /\ \A r, t, i, c \in Nat : publish_stop(r, t, i, c) \in Seq(Addr \X Nat)
           /\ \A v \in Nat : <<<<W("limit"), v>>>> \in Seq(Addr \X Nat)
           /\ <<<<W("event_count"), 0>>, <<W("stop"), 0>>, <<W("reason"), NONE>>,
                <<W("running"), 0>>>> \in Seq(Addr \X Nat)
           /\ <<<<W("stop"), now>>, <<W("reason"), HOST_REQUEST>>,
                <<W("running"), 0>>>> \in Seq(Addr \X Nat)
           /\ <<<<W("event_count"), event_count>>, <<W("final"), sample>>>> \in Seq(Addr \X Nat)
           /\ \A v \in Nat : Append(raw_shared_init, <<W("limit"), v>>) \in Seq(Addr \X Nat)
           /\ \A v \in Nat : <<<<W("event_count"), 0>>, <<W("initial"), v>>, <<W("final"), v>>,
                               <<W("start"), now>>, <<W("stop"), 0>>, <<W("reason"), NONE>>,
                               <<W("running"), 1>>>> \in Seq(Addr \X Nat)
           /\ \A k \in 0..(Capacity - 1), v \in Nat :
                 <<<<<<"ts", k>>, now>>, <<<<"raw", k>>, v>>>> \in Seq(Addr \X Nat)
<1>1. PICK T : T = Addr \X Nat
  OBVIOUS
<1>2. ASSUME NEW v \in Nat
      PROVE  /\ <<W("running"), v>> \in T /\ <<W("limit"), v>> \in T
             /\ <<W("event_count"), v>> \in T /\ <<W("initial"), v>> \in T
             /\ <<W("final"), v>> \in T /\ <<W("start"), v>> \in T
             /\ <<W("stop"), v>> \in T /\ <<W("reason"), v>> \in T
  BY <1>1, HeaderWords, Pair
<1>3. ASSUME NEW k \in 0..(Capacity - 1), NEW v \in Nat
      PROVE  <<<<"ts", k>>, v>> \in T /\ <<<<"raw", k>>, v>> \in T
  BY <1>1, Addresses, Pair
<1>4. \A r, t, i, c \in Nat : publish_stop(r, t, i, c) \in Seq(T)
  <2>1. TAKE r, t, i, c \in Nat
  <2>2. /\ <<W("final"), i>> \in T /\ <<W("event_count"), c>> \in T /\ <<W("stop"), t>> \in T
        /\ <<W("reason"), r>> \in T /\ <<W("running"), 0>> \in T
    BY <1>2
  <2> QED BY <2>2, Tuples DEF publish_stop
<1>5. \A v \in Nat : <<<<W("limit"), v>>>> \in Seq(T)
  BY <1>2, Tuples
<1>6. <<<<W("event_count"), 0>>, <<W("stop"), 0>>, <<W("reason"), NONE>>, <<W("running"), 0>>>> \in Seq(T)
  <2>1. /\ <<W("event_count"), 0>> \in T /\ <<W("stop"), 0>> \in T
        /\ <<W("reason"), NONE>> \in T /\ <<W("running"), 0>> \in T
    BY <1>2, Numbers
  <2> QED BY <2>1, Tuples
<1>7. <<<<W("stop"), now>>, <<W("reason"), HOST_REQUEST>>, <<W("running"), 0>>>> \in Seq(T)
  <2>1. /\ <<W("stop"), now>> \in T /\ <<W("reason"), HOST_REQUEST>> \in T
        /\ <<W("running"), 0>> \in T
    BY <1>2, Numbers
  <2> QED BY <2>1, Tuples
<1>8. <<<<W("event_count"), event_count>>, <<W("final"), sample>>>> \in Seq(T)
  <2>1. <<W("event_count"), event_count>> \in T /\ <<W("final"), sample>> \in T
    BY <1>2, Numbers
  <2> QED BY <2>1, Tuples
<1>9. \A v \in Nat : Append(raw_shared_init, <<W("limit"), v>>) \in Seq(T)
  <2>1. TAKE v \in Nat
  <2>2. <<W("limit"), v>> \in T /\ raw_shared_init \in Seq(T)
    BY <1>1, <1>2, InitType
  <2> QED BY <2>2
<1>10. \A v \in Nat : <<<<W("event_count"), 0>>, <<W("initial"), v>>, <<W("final"), v>>,
                        <<W("start"), now>>, <<W("stop"), 0>>, <<W("reason"), NONE>>,
                        <<W("running"), 1>>>> \in Seq(T)
  <2>1. TAKE v \in Nat
  <2>2. /\ <<W("event_count"), 0>> \in T /\ <<W("initial"), v>> \in T /\ <<W("final"), v>> \in T
        /\ <<W("start"), now>> \in T /\ <<W("stop"), 0>> \in T /\ <<W("reason"), NONE>> \in T
        /\ <<W("running"), 1>> \in T
    BY <1>2, Numbers
  <2> QED BY <2>2, Tuples
<1>11. \A k \in 0..(Capacity - 1), v \in Nat : <<<<<<"ts", k>>, now>>, <<<<"raw", k>>, v>>>> \in Seq(T)
  <2>1. TAKE k \in 0..(Capacity - 1), v \in Nat
  <2>2. <<<<"ts", k>>, now>> \in T /\ <<<<"raw", k>>, v>> \in T
    BY <1>3, Numbers
  <2> QED BY <2>2, Tuples
<1> QED BY <1>1, <1>4, <1>5, <1>6, <1>7, <1>8, <1>9, <1>10, <1>11

LEMMA StoresOf ==
    ASSUME RawTypes, ~capture_running, NEW m \in Requests
    PROVE  /\ Refused(m) => Stores(m) = <<>>
           /\ ~Refused(m) =>
                /\ m.type = "FORCE_SAFE" => Stores(m) = <<>>
                /\ m.type = "CONFIG" => Stores(m) = <<<<W("limit"), m.limit>>>>
                /\ m.type = "CLEAR" => Stores(m) = Append(raw_shared_init, <<W("limit"), event_limit>>)
                /\ m.type = "START" => Stores(m) = <<<<W("event_count"), 0>>, <<W("stop"), 0>>,
                                                     <<W("reason"), NONE>>, <<W("running"), 0>>>>
                /\ m.type = "STOP" /\ start_pending =>
                      Stores(m) = <<<<W("stop"), now>>, <<W("reason"), HOST_REQUEST>>, <<W("running"), 0>>>>
                /\ m.type = "STOP" /\ ~start_pending => Stores(m) = <<>>
                /\ m.type = "STATUS" =>
                      Stores(m) = <<<<W("event_count"), event_count>>, <<W("final"), sample>>>>
           /\ Stores(m) \in Seq(Addr \X Nat)
<1>1. m.type \in RequestTypes /\ m.limit \in Nat
  BY RawFacts DEF Requests
<1>2. Refused(m) => Stores(m) = <<>>
  BY DEF Stores
<1>3. ASSUME ~Refused(m)
      PROVE /\ m.type = "FORCE_SAFE" => Stores(m) = <<>>
            /\ m.type = "CONFIG" => Stores(m) = <<<<W("limit"), m.limit>>>>
            /\ m.type = "CLEAR" => Stores(m) = Append(raw_shared_init, <<W("limit"), event_limit>>)
            /\ m.type = "START" => Stores(m) = <<<<W("event_count"), 0>>, <<W("stop"), 0>>,
                                                 <<W("reason"), NONE>>, <<W("running"), 0>>>>
            /\ m.type = "STATUS" =>
                  Stores(m) = <<<<W("event_count"), event_count>>, <<W("final"), sample>>>>
  BY <1>3 DEF Stores, StopStores
<1>4. ASSUME m.type = "STOP"
      PROVE /\ start_pending =>
                  Stores(m) = <<<<W("stop"), now>>, <<W("reason"), HOST_REQUEST>>, <<W("running"), 0>>>>
            /\ ~start_pending => Stores(m) = <<>>
  <2>1. ~Refused(m)
    BY <1>4 DEF Refused
  <2>2. Stores(m) = (IF start_pending
                     THEN <<<<W("stop"), now>>, <<W("reason"), HOST_REQUEST>>, <<W("running"), 0>>>>
                     ELSE <<>>) \o <<>>
    BY <1>4, <2>1 DEF Stores, StopStores
  <2>3. PICK s : s = <<<<W("stop"), now>>, <<W("reason"), HOST_REQUEST>>, <<W("running"), 0>>>>
    OBVIOUS
  <2>4. s \in Seq(Addr \X Nat)
    BY <2>3, StoreTypes
  <2>5. s \o <<>> = s /\ <<>> \o <<>> = <<>>
    BY <2>4
  <2> QED BY <2>2, <2>3, <2>5
<1>5. Stores(m) \in Seq(Addr \X Nat)
  <2>1. CASE Refused(m) \/ m.type = "FORCE_SAFE" \/ (m.type = "STOP" /\ ~start_pending)
    BY <1>2, <1>3, <1>4, <2>1, Tuples
  <2>2. CASE ~Refused(m) /\ m.type = "CONFIG"
    BY <1>1, <1>3, <2>2, StoreTypes
  <2>3. CASE ~Refused(m) /\ m.type = "CLEAR"
    BY <1>3, <2>3, Numbers, StoreTypes
  <2>4. CASE ~Refused(m) /\ m.type = "START"
    BY <1>3, <2>4, StoreTypes
  <2>5. CASE m.type = "STOP" /\ start_pending
    BY <1>4, <2>5, StoreTypes
  <2>6. CASE ~Refused(m) /\ m.type = "STATUS"
    BY <1>3, <2>6, StoreTypes
  <2> QED BY <1>1, <2>1, <2>2, <2>3, <2>4, <2>5, <2>6 DEF RequestTypes
<1> QED BY <1>2, <1>3, <1>4, <1>5

------------------------------------------------------------------------------
(* The word at a is decided as before.                                         *)
Same(a) == \A v : Ends(a, v)' <=> Ends(a, v)

LEMMA WindowKept ==
    ASSUME UNCHANGED <<base, seen>>, Recorded, Changes, seen \in Seq(Nat \X Nat),
           Len(seen) <= Capacity, Same(W("initial")),
           \A k \in 0..(Capacity - 1) : Same(<<"ts", k>>) /\ Same(<<"raw", k>>)
    PROVE  Recorded' /\ Changes'
<1>1. Changes'
  BY DEF Changes
<1>2. Ends(W("initial"), base)'
  <2>1. PICK b : b = base /\ b = base'
    OBVIOUS
  <2>2. Ends(W("initial"), b)'
    BY <2>1 DEF Recorded, Same
  <2> QED BY <2>1, <2>2 DEF Ends
<1>3. ASSUME NEW i \in 1..Len(seen)
      PROVE  Ends(<<"ts", i - 1>>, seen[i][1])' /\ Ends(<<"raw", i - 1>>, seen[i][2])'
  <2>1. PICK t, r : t = seen[i][1] /\ r = seen[i][2]
    OBVIOUS
  <2>2. PICK k \in 0..(Capacity - 1) : k = i - 1
    BY RawFacts
  <2>3. Ends(<<"ts", k>>, t)' /\ Ends(<<"raw", k>>, r)'
    BY <2>1, <2>2 DEF Recorded, Same
  <2> QED BY <2>1, <2>2, <2>3 DEF Ends
<1> QED BY <1>1, <1>2, <1>3 DEF Recorded

(* A step that decides no word anew and moves no register keeps the window.     *)
LEMMA QuietStep ==
    ASSUME FirmwareInv, \A a \in Addr : Same(a), InWindow' <=> InWindow,
           pc' = "publish" <=> pc = "publish",
           UNCHANGED <<base, seen, event_count, event_limit, last_inputs, last_timestamp,
                       start_pending>>
    PROVE  Capturing' /\ Published' /\ Empty'
<1>1. /\ RawTypes /\ seen \in Seq(Nat \X Nat) /\ event_count \in 0..Capacity
      /\ Capturing /\ Published /\ Empty
  BY DEF FirmwareInv, RawTypes
<1>2. /\ Same(W("reason")) /\ Same(W("event_count")) /\ Same(W("running")) /\ Same(W("stop"))
      /\ Same(W("initial")) /\ \A k \in 0..(Capacity - 1) : Same(<<"ts", k>>) /\ Same(<<"raw", k>>)
  BY Addresses, HeaderWords
<1>3. ASSUME Recorded, Changes, Len(seen) <= Capacity PROVE Recorded' /\ Changes'
  BY <1>1, <1>2, <1>3, WindowKept
<1>4. Capturing'
  <2>1. Latest' = Latest
    BY DEF Latest
  <2>2. InWindow => Len(seen) <= Capacity
    BY <1>1, RawFacts DEF Capturing
  <2>3. /\ Ends(W("reason"), NONE) => Ends(W("reason"), NONE)'
        /\ Ends(W("event_count"), 0) => Ends(W("event_count"), 0)'
    BY <1>2 DEF Same
  <2> QED BY <1>1, <1>3, <2>1, <2>2, <2>3 DEF Capturing
<1>5. Published'
  <2>1. SUFFICES ASSUME Ends(W("reason"), EVENT_LIMIT)' PROVE Whole'
    BY DEF Published
  <2>2. Whole
    BY <1>1, <1>2, <2>1 DEF Published, Same
  <2>3. Recorded' /\ Changes'
    BY <1>1, <1>3, <2>2, RawFacts DEF Whole
  <2>4. PICK n, t : n = Len(seen) /\ t = seen[Len(seen)][1]
    OBVIOUS
  <2>5. Ends(W("event_count"), n)' /\ Ends(W("running"), 0)' /\ Ends(W("stop"), t)'
    BY <1>2, <2>2, <2>4 DEF Whole, Same
  <2>6. Ends(W("event_count"), Len(seen))' /\ Ends(W("stop"), seen[Len(seen)][1])'
    BY <2>4, <2>5 DEF Ends
  <2> QED BY <2>2, <2>3, <2>5, <2>6 DEF Whole
<1>6. Empty'
  BY <1>1, <1>2 DEF Empty, Same
<1> QED BY <1>4, <1>5, <1>6

LEMMA StoreKeeps ==
    ASSUME FirmwareInv, Store
    PROVE  FirmwareInv'
<1>1. /\ RawTypes /\ Flow /\ Gate /\ stores # <<>>
      /\ mem' = [mem EXCEPT ![Head(stores)[1]] = Head(stores)[2]] /\ stores' = Tail(stores)
      /\ UNCHANGED <<R31, now, pc, sample, locals, rx, reply, toolvars, answer, history>>
  BY DEF FirmwareInv, Store
<1>2. PICK T : T = Addr \X Nat
  OBVIOUS
<1>3. stores \in Seq(T) /\ Head(stores) \in T /\ Tail(stores) \in Seq(T)
  <2>1. stores \in Seq(T) /\ stores # <<>>
    BY <1>1, <1>2 DEF RawTypes
  <2> QED BY <2>1
<1>4. PICK b \in Addr, w \in Nat : Head(stores) = <<b, w>>
  BY <1>2, <1>3
<1>5. mem' = [mem EXCEPT ![b] = w] /\ mem \in [Addr -> Nat]
  <2>1. Head(stores)[1] = b /\ Head(stores)[2] = w
    BY <1>4
  <2> QED BY <1>1, <2>1 DEF RawTypes
<1>6. RawTypes'
  <2>1. mem' \in [Addr -> Nat] /\ stores' \in Seq(Addr \X Nat)
    BY <1>1, <1>2, <1>3, <1>5
  <2> QED BY <1>1, <2>1 DEF RawTypes, locals, toolvars, history
<1>7. \A a \in Addr : Same(a)
  BY <1>1, StoreEnds DEF Same
<1>8. InWindow' <=> InWindow
  BY <1>1 DEF InWindow
<1>9. Capturing' /\ Published' /\ Empty'
  BY <1>1, <1>7, <1>8, QuietStep DEF locals, history
<1>10. Flow'
  BY <1>1, <1>7, <1>8, HeaderWords DEF Flow, locals, Same
<1>11. PICK n \in Nat : /\ n = Len(stores) /\ n >= 1 /\ Len(stores') = n - 1
                        /\ \A i \in 1..(n - 1) : i + 1 \in 1..n /\ stores'[i] = stores[i + 1]
                        /\ stores[1] = <<b, w>>
                        /\ stores' # <<>> => n > 1
  BY <1>1, <1>3, <1>4
<1>12. mem'[W("running")] = IF b = W("running") THEN w ELSE mem[W("running")]
  BY <1>5, HeaderWords
<1>13. Gate'
  <2>1. ASSUME InWindow
        PROVE  /\ Ends(W("running"), 1)'
               /\ \A i \in 1..Len(stores') : stores'[i][1] = W("running") => stores'[i][2] = 1
    BY <1>1, <1>7, <1>11, <2>1, HeaderWords DEF Gate, Same
  <2>2. ASSUME pc = "publish" PROVE mem'[W("running")] = 1
    BY <1>1, <1>11, <1>12, <2>2 DEF Gate, InWindow
  <2>3. ASSUME pc = "main", stores' # <<>>
        PROVE  /\ mem'[W("running")] = 1
               /\ \A i \in 1..Len(stores') : stores'[i][1] = W("running") => i = Len(stores')
    <3>1. /\ mem[W("running")] = 1
          /\ \A i \in 1..n : stores[i][1] = W("running") => i = n
      BY <1>1, <1>11, <2>3 DEF Gate
    <3>2. b # W("running")
      BY <1>11, <2>3, <3>1
    <3>3. ASSUME NEW i \in 1..(n - 1), stores'[i][1] = W("running") PROVE i = n - 1
      BY <1>11, <3>1, <3>3
    <3> QED BY <1>11, <1>12, <3>1, <3>2, <3>3
  <2> QED BY <1>1, <1>8, <2>1, <2>2, <2>3 DEF Gate
<1> QED BY <1>6, <1>9, <1>10, <1>13 DEF FirmwareInv

(* Steps that touch neither the block nor the registers.                        *)
LEMMA OtherStepsKeep ==
    ASSUME FirmwareInv, UNCHANGED <<mem, stores, locals, base, seen>>,
           InWindow' <=> InWindow, pc' = "publish" <=> pc = "publish",
           pc' = pc \/ stores = <<>>
    PROVE  Capturing' /\ Published' /\ Empty' /\ Flow' /\ Gate'
<1>1. \A a \in Addr : Same(a)
  BY SameEnds DEF Same
<1>2. Capturing' /\ Published' /\ Empty'
  BY <1>1, QuietStep DEF locals
<1>3. Flow'
  BY <1>1, HeaderWords DEF FirmwareInv, Flow, locals, Same
<1>4. Gate'
  BY <1>1, HeaderWords DEF FirmwareInv, Gate, Same
<1> QED BY <1>2, <1>3, <1>4

LEMMA PollHostKeeps ==
    ASSUME FirmwareInv, PollHost
    PROVE  FirmwareInv'
<1>1. RawTypes'
  BY RawFacts DEF FirmwareInv, RawTypes, PollHost, Ready, locals, toolvars, history
<1>2. /\ UNCHANGED <<mem, stores, locals, base, seen>> /\ pc = "main" /\ pc' = "drain"
      /\ stores = <<>>
  BY DEF PollHost, Ready, history
<1>3. Capturing' /\ Published' /\ Empty' /\ Flow' /\ Gate'
  BY <1>2, OtherStepsKeep DEF InWindow
<1> QED BY <1>1, <1>3 DEF FirmwareInv

LEMMA RespondKeeps ==
    ASSUME FirmwareInv, Respond
    PROVE  FirmwareInv'
<1>1. RawTypes'
  <2>1. NoAnswer \in Replies
    BY DEF NoAnswer, Replies
  <2> QED BY <2>1 DEF FirmwareInv, RawTypes, Respond, Ready, locals, toolvars, history
<1>2. /\ UNCHANGED <<mem, stores, locals, base, seen>> /\ pc = "reply" /\ pc' = "drain"
      /\ stores = <<>>
  BY DEF Respond, Ready, history
<1>3. Capturing' /\ Published' /\ Empty' /\ Flow' /\ Gate'
  BY <1>2, OtherStepsKeep DEF InWindow
<1> QED BY <1>1, <1>3 DEF FirmwareInv

LEMMA DrainEndKeeps ==
    ASSUME FirmwareInv, DrainEnd
    PROVE  FirmwareInv'
<1>1. RawTypes'
  BY DEF FirmwareInv, RawTypes, DrainEnd, Ready, locals, toolvars, history
<1>2. /\ UNCHANGED <<mem, stores, locals, base, seen>> /\ pc = "drain" /\ pc' = "main"
      /\ stores = <<>>
  BY DEF DrainEnd, Ready, history
<1>3. Capturing' /\ Published' /\ Empty' /\ Flow' /\ Gate'
  BY <1>2, OtherStepsKeep DEF InWindow
<1> QED BY <1>1, <1>3 DEF FirmwareInv

LEMMA InputMovesKeeps ==
    ASSUME FirmwareInv, InputMoves
    PROVE  FirmwareInv'
<1>1. RawTypes'
  <2>1. R31' \in Levels /\ now' \in 0..(Wrap - 1)
    BY RawFacts DEF FirmwareInv, RawTypes, InputMoves
  <2> QED BY <2>1 DEF FirmwareInv, RawTypes, InputMoves, locals, toolvars, history
<1>2. UNCHANGED <<mem, stores, locals, base, seen, pc>>
  BY DEF InputMoves, history
<1>3. Capturing' /\ Published' /\ Empty' /\ Flow' /\ Gate'
  BY <1>2, OtherStepsKeep DEF InWindow
<1> QED BY <1>1, <1>3 DEF FirmwareInv

(* The tool reads the block and never writes it.                                *)
LEMMA Scripts == \A k \in Commands : Script(k) \in Seq(RequestTypes)
<1>1. TAKE k \in Commands
<1>2. PICK T : T = RequestTypes
  OBVIOUS
<1>3. /\ "CONFIG" \in T /\ "CLEAR" \in T /\ "START" \in T /\ "STATUS" \in T /\ "STOP" \in T
      /\ "FORCE_SAFE" \in T
  BY <1>2 DEF RequestTypes
<1>4. /\ <<"CONFIG", "CLEAR", "START", "STATUS">> \in Seq(T) /\ <<"CONFIG">> \in Seq(T)
      /\ <<"CLEAR">> \in Seq(T) /\ <<"START">> \in Seq(T) /\ <<"STOP">> \in Seq(T)
      /\ <<"STATUS">> \in Seq(T) /\ <<"FORCE_SAFE">> \in Seq(T) /\ <<>> \in Seq(T)
  BY <1>3, Tuples
<1> QED BY <1>2, <1>4 DEF Script, Commands

LEMMA ToolTypes ==
    ASSUME RawTypes, Tool
    PROVE  RawTypes'
<1>1. NoAnswer \in Replies /\ <<>> \in Seq(RequestTypes) /\ <<>> \in Seq(Nat)
  BY DEF NoAnswer, Replies
<1>2. ASSUME NEW k \in Commands, NEW n \in Limits(k), Open(k, n) PROVE RawTypes'
  <2>1. n \in 1..Capacity
    BY RawFacts DEF Limits
  <2>2. sess' \in 0..MaxSessions
    BY <1>2, RawFacts DEF Open, RawTypes
  <2>3. calm' \in BOOLEAN
    BY <1>2 DEF Open
  <2>4. Len(snap') <= Len(Layout)
    BY <1>2, LayoutFacts, RawFacts DEF Open
  <2> QED BY <1>1, <1>2, <2>1, <2>2, <2>3, <2>4, Scripts DEF Open, RawTypes, fwvars, locals, history
<1>3. CASE Request
  <2>1. [type |-> Head(todo), limit |-> limit, sess |-> sess] \in Requests
    BY <1>3 DEF Request, RawTypes, Requests
  <2>2. rx' \in Seq(Requests)
    BY <1>3, <2>1 DEF Request, RawTypes
  <2> QED BY <1>1, <1>3, <2>2 DEF Request, RawTypes, locals, history
<1>4. ASSUME Fail, UNCHANGED <<fwvars, sess, kind, limit, calm>>, answer' \in Replies PROVE RawTypes'
  <2>1. Len(snap') <= Len(Layout)
    BY <1>4, LayoutFacts, RawFacts DEF Fail
  <2> QED BY <1>1, <1>4, <2>1 DEF Fail, RawTypes, fwvars, locals, history
<1>5. CASE Timeout
  BY <1>1, <1>4, <1>5 DEF Timeout
<1>6. CASE ReadAnswer
  <2>1. CASE Accepts(answer)
    <3>1. Tail(todo) \in Seq(RequestTypes)
      BY <1>6 DEF ReadAnswer, RawTypes
    <3> QED BY <1>1, <1>6, <2>1, <3>1 DEF ReadAnswer, RawTypes, fwvars, locals, history
  <2>2. CASE ~Accepts(answer)
    BY <1>1, <1>4, <1>6, <2>2 DEF ReadAnswer
  <2> QED BY <2>1, <2>2
<1>7. CASE CopyWord
  <2>1. Len(snap) + 1 \in 1..(8 + 2 * Capacity)
    BY <1>7, LayoutFacts, RawFacts DEF CopyWord, RawTypes
  <2>2. Layout[Len(snap) + 1] \in Addr
    BY <2>1, LayoutFacts DEF Addr
  <2>3. mem[Layout[Len(snap) + 1]] \in Nat
    BY <2>2 DEF RawTypes
  <2>4. snap' \in Seq(Nat) /\ Len(snap') <= Len(Layout)
    BY <1>7, <2>3, LayoutFacts, RawFacts DEF CopyWord, RawTypes
  <2> QED BY <1>7, <2>4 DEF CopyWord, RawTypes, fwvars, locals, history
<1>8. CASE Validate
  BY <1>4, <1>8 DEF Validate, RawTypes, fwvars, locals, history
<1> QED BY <1>2, <1>3, <1>5, <1>6, <1>7, <1>8 DEF Tool

LEMMA ToolKeeps ==
    ASSUME FirmwareInv, Tool
    PROVE  FirmwareInv'
<1>1. RawTypes'
  BY ToolTypes DEF FirmwareInv
<1>2. UNCHANGED <<mem, stores, locals, base, seen, pc>>
  BY DEF Tool, Open, Request, Timeout, ReadAnswer, CopyWord, Validate, fwvars, history
<1>3. Capturing' /\ Published' /\ Empty' /\ Flow' /\ Gate'
  BY <1>2, OtherStepsKeep DEF InWindow
<1> QED BY <1>1, <1>3 DEF FirmwareInv

(* The words a list names are decided by it, all others as before.              *)
Words == {W("running"), W("limit"), W("event_count"), W("initial"), W("final"), W("start"),
          W("stop"), W("reason")}

LEMMA Apart ==
    /\ W("running") # W("limit") /\ W("running") # W("event_count") /\ W("running") # W("initial")
    /\ W("running") # W("final") /\ W("running") # W("start") /\ W("running") # W("stop")
    /\ W("running") # W("reason") /\ W("limit") # W("event_count") /\ W("limit") # W("initial")
    /\ W("limit") # W("final") /\ W("limit") # W("start") /\ W("limit") # W("stop")
    /\ W("limit") # W("reason") /\ W("event_count") # W("initial")
    /\ W("event_count") # W("final") /\ W("event_count") # W("start")
    /\ W("event_count") # W("stop") /\ W("event_count") # W("reason") /\ W("initial") # W("final")
    /\ W("initial") # W("start") /\ W("initial") # W("stop") /\ W("initial") # W("reason")
    /\ W("final") # W("start") /\ W("final") # W("stop") /\ W("final") # W("reason")
    /\ W("start") # W("stop") /\ W("start") # W("reason") /\ W("stop") # W("reason")
    /\ \A k : <<"ts", k>> \notin Words /\ <<"raw", k>> \notin Words
    /\ \A k, l : <<"ts", k>> # <<"raw", l>>
    /\ \A k, l : k # l => <<"ts", k>> # <<"ts", l>> /\ <<"raw", k>> # <<"raw", l>>
BY DEF W, Words

LEMMA Publishes ==
    ASSUME stores = <<>>, UNCHANGED mem, NEW r, NEW t, NEW i, NEW c,
           stores' = publish_stop(r, t, i, c)
    PROVE  /\ Ends(W("final"), i)' /\ Ends(W("event_count"), c)' /\ Ends(W("stop"), t)'
           /\ Ends(W("reason"), r)' /\ Ends(W("running"), 0)'
           /\ \A a : a \notin {W("final"), W("event_count"), W("stop"), W("reason"), W("running")}
                     => Same(a)
           /\ \A j \in 1..Len(stores') : stores'[j][1] = W("running") => j = Len(stores')
<1>1. PICK s : s = publish_stop(r, t, i, c)
  OBVIOUS
<1>2. /\ Len(s) = 5 /\ s[1] = <<W("final"), i>> /\ s[2] = <<W("event_count"), c>>
      /\ s[3] = <<W("stop"), t>> /\ s[4] = <<W("reason"), r>> /\ s[5] = <<W("running"), 0>>
  BY <1>1 DEF publish_stop
<1>3. /\ s[1][1] = W("final") /\ s[1][2] = i /\ s[2][1] = W("event_count") /\ s[2][2] = c
      /\ s[3][1] = W("stop") /\ s[3][2] = t /\ s[4][1] = W("reason") /\ s[4][2] = r
      /\ s[5][1] = W("running") /\ s[5][2] = 0
  BY <1>2
<1>4. \A k \in 1..5 : \A j \in 1..5 : j # k => s[j][1] # s[k][1]
  BY <1>3, Apart
<1>5. /\ \A a, v : (\A j \in 1..5 : s[j][1] # a) => (Ends(a, v)' <=> Ends(a, v))
      /\ \A k \in 1..5 : Ends(s[k][1], s[k][2])'
  <2>1. stores' = s /\ Len(s) = 5
    BY <1>1, <1>2
  <2>2. \A a, v : (\A j \in 1..5 : s[j][1] # a) => (Ends(a, v)' <=> Ends(a, v))
    BY <2>1, ListEnds
  <2>3. \A k \in 1..5 : Ends(s[k][1], s[k][2])'
    BY <1>4, <2>1, ListEnds, ZenonT(30)
  <2> QED BY <2>2, <2>3
<1>6. \A a : a \notin {W("final"), W("event_count"), W("stop"), W("reason"), W("running")}
             => \A j \in 1..5 : s[j][1] # a
  BY <1>3
<1>7. \A j \in 1..Len(s) : s[j][1] = W("running") => j = Len(s)
  BY <1>2, <1>3, Apart
<1>8. /\ Ends(W("final"), i)' /\ Ends(W("event_count"), c)' /\ Ends(W("stop"), t)'
      /\ Ends(W("reason"), r)' /\ Ends(W("running"), 0)'
  BY <1>3, <1>5
<1> QED BY <1>1, <1>5, <1>6, <1>7, <1>8 DEF Same

LEMMA WindowEndKeeps ==
    ASSUME FirmwareInv, WindowEnd
    PROVE  FirmwareInv'
<1>1. /\ RawTypes /\ Capturing /\ Flow /\ Gate /\ pc = "publish" /\ stores = <<>> /\ InWindow
      /\ stores' = publish_stop(EVENT_LIMIT, last_timestamp, last_inputs, event_count)
      /\ capture_running' = FALSE /\ pc' = "main" /\ ~InWindow'
      /\ UNCHANGED <<R31, now, mem, sample, start_pending, event_count, event_limit, last_inputs,
                     last_timestamp, rx, reply, toolvars, answer, history>>
  BY DEF FirmwareInv, WindowEnd, Ready, InWindow
<1>2. RawTypes'
  <2>1. stores' \in Seq(Addr \X Nat)
    BY <1>1, Numbers, StoreTypes
  <2> QED BY <1>1, <2>1 DEF RawTypes, toolvars, history
<1>3. PICK n, t : /\ n \in Nat /\ n = event_count /\ n = Len(seen) /\ n >= 1 /\ n <= Capacity
                  /\ seen # <<>> /\ t = last_timestamp /\ t = seen[Len(seen)][1]
  <2>1. event_count = Len(seen) /\ event_count = event_limit /\ (seen # <<>> => last_timestamp = seen[Len(seen)][1])
    BY <1>1 DEF Capturing
  <2>2. event_limit >= 1 /\ event_count \in Nat /\ event_count <= Capacity
    BY <1>1, RawFacts DEF RawTypes
  <2>3. seen # <<>>
    <3>1. Len(seen) # Len(<<>>)
      BY <2>1, <2>2
    <3> QED BY <3>1
  <2> QED BY <2>1, <2>2, <2>3
<1>4. /\ Ends(W("event_count"), n)' /\ Ends(W("stop"), t)'
      /\ Ends(W("reason"), EVENT_LIMIT)' /\ Ends(W("running"), 0)'
      /\ \A a : a \notin {W("final"), W("event_count"), W("stop"), W("reason"), W("running")} => Same(a)
      /\ \A j \in 1..Len(stores') : stores'[j][1] = W("running") => j = Len(stores')
  BY <1>1, <1>3, Publishes
<1>5. Same(W("initial")) /\ \A k \in 0..(Capacity - 1) : Same(<<"ts", k>>) /\ Same(<<"raw", k>>)
  BY <1>4, Apart DEF Words
<1>6. Recorded' /\ Changes'
  BY <1>1, <1>3, <1>5, WindowKept DEF Capturing, RawTypes, history
<1>7. Whole'
  <2>1. ~start_pending'
    BY <1>1 DEF Flow
  <2>2. Ends(W("event_count"), Len(seen))' /\ Ends(W("stop"), seen[Len(seen)][1])'
    BY <1>1, <1>3, <1>4 DEF Ends, history
  <2> QED BY <1>1, <1>3, <1>4, <1>6, <2>1, <2>2 DEF Whole, history
<1>8. Capturing' /\ Published' /\ Empty'
  BY <1>1, <1>4, <1>7 DEF Capturing, Published, Empty
<1>9. Flow'
  <2>1. ~start_pending'
    BY <1>1 DEF Flow
  <2> QED BY <1>1, <2>1 DEF Flow
<1>10. Gate'
  BY <1>1, <1>4 DEF Gate
<1> QED BY <1>2, <1>8, <1>9, <1>10 DEF FirmwareInv

LEMMA EdgeKeeps ==
    ASSUME FirmwareInv, Edge
    PROVE  FirmwareInv'
<1>1. /\ RawTypes /\ Capturing /\ Published /\ Flow /\ Gate /\ pc = "window" /\ stores = <<>>
      /\ InWindow /\ R31 # last_inputs
      /\ stores' = <<<<<<"ts", event_count>>, now>>, <<<<"raw", event_count>>, R31>>>>
      /\ last_inputs' = R31 /\ last_timestamp' = now /\ event_count' = event_count + 1
      /\ pc' = IF limit_reached(event_count + 1) THEN "publish" ELSE "window"
      /\ seen' = Append(seen, <<now, R31>>)
      /\ UNCHANGED <<R31, now, mem, sample, start_pending, capture_running, event_limit,
                     rx, reply, toolvars, answer, base, owner>>
  BY DEF FirmwareInv, Edge, Ready, InWindow
<1>2. /\ event_count = Len(seen) /\ event_count < event_limit /\ last_inputs = Latest
      /\ Ends(W("reason"), NONE) /\ Ends(W("event_count"), 0) /\ Recorded /\ Changes
  BY <1>1 DEF Capturing
<1>3. PICK n \in Nat : /\ n = event_count /\ n = Len(seen) /\ n \in 0..(Capacity - 1)
                       /\ n + 1 <= event_limit /\ n + 1 <= Capacity
  BY <1>1, <1>2, RawFacts DEF RawTypes
<1>4. /\ pc' = IF n + 1 = event_limit THEN "publish" ELSE "window"
      /\ InWindow' /\ (pc' = "window" => n + 1 < event_limit)
  <2>1. limit_reached(n + 1) <=> n + 1 = event_limit
    BY <1>1, <1>3 DEF limit_reached, RawTypes
  <2> QED BY <1>1, <1>3, <2>1 DEF InWindow, RawTypes
<1>5. PICK x, y : x = now /\ y = R31 /\ x \in Nat /\ y \in Nat
  BY <1>1, Numbers
<1>6. PICK s : s = stores' /\ s = <<<<<<"ts", n>>, x>>, <<<<"raw", n>>, y>>>>
  BY <1>1, <1>3, <1>5
<1>7. /\ Len(s) = 2 /\ s[1][1] = <<"ts", n>> /\ s[1][2] = x /\ s[2][1] = <<"raw", n>> /\ s[2][2] = y
  <2>1. s[1] = <<<<"ts", n>>, x>> /\ s[2] = <<<<"raw", n>>, y>> /\ Len(s) = 2
    BY <1>6
  <2> QED BY <2>1
<1>8. /\ \A a, v : (\A j \in 1..2 : s[j][1] # a) => (Ends(a, v)' <=> Ends(a, v))
      /\ \A i \in 1..2 : Ends(s[i][1], s[i][2])'
  <2>1. \A i \in 1..2 : \A j \in 1..2 : j # i => s[j][1] # s[i][1]
    BY <1>7, Apart
  <2> QED BY <1>1, <1>6, <1>7, <2>1, ListEnds
<1>9. /\ Ends(<<"ts", n>>, x)' /\ Ends(<<"raw", n>>, y)'
      /\ \A a : a # <<"ts", n>> /\ a # <<"raw", n>> => Same(a)
  <2>1. ASSUME NEW a, a # <<"ts", n>>, a # <<"raw", n>> PROVE Same(a)
    <3>1. \A j \in 1..2 : s[j][1] # a
      BY <1>7, <2>1
    <3> QED BY <1>8, <3>1 DEF Same
  <2> QED BY <1>7, <1>8, <2>1
<1>10. /\ \A f \in Words : Same(f)
       /\ \A k \in 0..(n - 1) : Same(<<"ts", k>>) /\ Same(<<"raw", k>>)
  <2>1. ASSUME NEW f \in Words PROVE Same(f)
    BY <1>9, Apart
  <2>2. ASSUME NEW k \in 0..(n - 1) PROVE Same(<<"ts", k>>) /\ Same(<<"raw", k>>)
    <3>1. k # n
      BY <1>3
    <3> QED BY <1>9, <3>1, Apart
  <2> QED BY <2>1, <2>2
<1>11. RawTypes'
  <2>1. stores' \in Seq(Addr \X Nat)
    <3>1. R31 \in Nat /\ event_count \in 0..(Capacity - 1)
      BY <1>1, <1>3, Numbers
    <3>2. <<<<<<"ts", event_count>>, now>>, <<<<"raw", event_count>>, R31>>>> \in Seq(Addr \X Nat)
      BY <1>1, <3>1, StoreTypes
    <3> QED BY <1>1, <3>2
  <2>2. seen' \in Seq(Nat \X Nat)
    <3>1. PICK S, e : S = Nat \X Nat /\ e = <<now, R31>>
      OBVIOUS
    <3>2. e \in S
      BY <1>5, <3>1
    <3>3. seen \in Seq(S) /\ seen' = Append(seen, e)
      BY <1>1, <3>1 DEF RawTypes
    <3>4. seen' \in Seq(S)
      BY <3>2, <3>3
    <3> QED BY <3>1, <3>4
  <2>3. event_count' \in 0..Capacity /\ last_timestamp' \in Nat
    BY <1>1, <1>3, <1>5, RawFacts
  <2>4. pc' \in {"main", "drain", "reply", "window", "publish"} /\ last_inputs' \in Levels
    BY <1>1, <1>4 DEF RawTypes
  <2> QED BY <1>1, <2>1, <2>2, <2>3, <2>4 DEF RawTypes, toolvars
<1>12. /\ Len(seen') = n + 1 /\ seen' # <<>> /\ seen'[n + 1] = <<x, y>>
       /\ \A i \in 1..n : seen'[i] = seen[i]
       /\ seen'[n + 1][1] = x /\ seen'[n + 1][2] = y
  <2>a. <<x, y>> \in Nat \X Nat
    BY <1>5
  <2>1. PICK e : e = <<x, y>> /\ e \in Nat \X Nat
    BY <2>a
  <2>2. seen \in Seq(Nat \X Nat) /\ seen' = Append(seen, e)
    BY <1>1, <1>5, <2>1 DEF RawTypes
  <2>3. Len(seen') = n + 1 /\ seen'[n + 1] = e /\ \A i \in 1..n : seen'[i] = seen[i]
    BY <1>3, <2>1, <2>2
  <2> QED BY <1>3, <2>1, <2>3
<1>13. Recorded'
  <2>1. Ends(W("initial"), base)'
    <3>1. PICK b : b = base /\ b = base'
      BY <1>1
    <3>2. Ends(W("initial"), b)'
      BY <1>2, <1>10, <3>1 DEF Recorded, Same, Words
    <3> QED BY <3>1, <3>2 DEF Ends
  <2>2. ASSUME NEW i \in 1..(n + 1), NEW t, NEW r, t = seen'[i][1], r = seen'[i][2]
        PROVE  Ends(<<"ts", i - 1>>, t)' /\ Ends(<<"raw", i - 1>>, r)'
    <3>1. CASE i = n + 1
      BY <1>9, <1>12, <2>2, <3>1
    <3>2. CASE i # n + 1
      <4>1. i \in 1..n /\ i - 1 \in 0..(n - 1)
        BY <3>2
      <4>2. Ends(<<"ts", i - 1>>, t) /\ Ends(<<"raw", i - 1>>, r)
        BY <1>2, <1>3, <1>12, <2>2, <4>1 DEF Recorded
      <4> QED BY <1>10, <4>1, <4>2 DEF Same
    <3> QED BY <3>1, <3>2
  <2>3. \A i \in 1..Len(seen') : /\ EndsIn(mem', stores', <<"ts", i - 1>>, seen'[i][1])
                                 /\ EndsIn(mem', stores', <<"raw", i - 1>>, seen'[i][2])
    BY <1>12, <2>2 DEF Ends
  <2> QED BY <2>1, <2>3 DEF Recorded, Ends
<1>14. Changes'
  <2>1. y # IF n = 0 THEN base ELSE seen[n][2]
    BY <1>1, <1>2, <1>3, <1>5 DEF Latest, RawTypes
  <2>2. ASSUME NEW i \in 1..(n + 1) PROVE seen'[i][2] # IF i = 1 THEN base' ELSE seen'[i - 1][2]
    <3>1. CASE i = n + 1
      BY <1>1, <1>12, <2>1, <3>1
    <3>2. CASE i # n + 1
      <4>1. i \in 1..n /\ (i # 1 => i - 1 \in 1..n)
        BY <3>2
      <4>2. seen[i][2] # IF i = 1 THEN base ELSE seen[i - 1][2]
        BY <1>2, <1>3, <4>1 DEF Changes
      <4> QED BY <1>1, <1>12, <4>1, <4>2
    <3> QED BY <3>1, <3>2
  <2> QED BY <1>12, <2>2 DEF Changes
<1>15. Capturing'
  <2>1. event_count' = Len(seen') /\ last_inputs' = Latest' /\ last_timestamp' = seen'[Len(seen')][1]
    BY <1>1, <1>3, <1>5, <1>12 DEF Latest
  <2>2. (event_count < event_limit)' \/ pc' = "publish"
    BY <1>1, <1>3, <1>4
  <2>3. pc' = "publish" => event_count' = event_limit'
    BY <1>1, <1>3, <1>4
  <2>4. Ends(W("reason"), NONE)' /\ Ends(W("event_count"), 0)'
    BY <1>2, <1>10 DEF Same, Words
  <2> QED BY <1>13, <1>14, <2>1, <2>2, <2>3, <2>4 DEF Capturing
<1>16. Published' /\ Empty'
  <2>1. Ends(W("reason"), NONE)' /\ Ends(W("event_count"), 0)'
    BY <1>2, <1>10 DEF Same, Words
  <2>2. ~Ends(W("reason"), EVENT_LIMIT)'
    BY <1>11, <2>1, DecidedNext DEF NONE, EVENT_LIMIT
  <2> QED BY <1>4, <2>1, <2>2 DEF Published, Empty
<1>17. Flow'
  BY <1>1, <1>4 DEF Flow, InWindow
<1>18. Gate'
  <2>1. Ends(W("running"), 1) /\ mem[W("running")] = 1
    BY <1>1, AtRest DEF Gate
  <2>2. Ends(W("running"), 1)'
    BY <1>10, <2>1 DEF Same, Words
  <2>3. \A i \in 1..Len(stores') : stores'[i][1] # W("running")
    BY <1>6, <1>7, Apart DEF Words
  <2> QED BY <1>1, <1>4, <2>1, <2>2, <2>3 DEF Gate
<1> QED BY <1>11, <1>15, <1>16, <1>17, <1>18 DEF FirmwareInv

LEMMA ArmKeeps ==
    ASSUME FirmwareInv, Arm
    PROVE  FirmwareInv'
<1>1. /\ RawTypes /\ Flow /\ pc = "main" /\ stores = <<>> /\ start_pending
      /\ stores' = <<<<W("event_count"), 0>>, <<W("initial"), R31>>, <<W("final"), R31>>,
                     <<W("start"), now>>, <<W("stop"), 0>>, <<W("reason"), NONE>>,
                     <<W("running"), 1>>>>
      /\ event_count' = 0 /\ last_inputs' = R31 /\ last_timestamp' = now
      /\ capture_running' = TRUE /\ start_pending' = FALSE /\ pc' = "window" /\ InWindow'
      /\ base' = R31 /\ seen' = <<>>
      /\ UNCHANGED <<R31, now, mem, sample, event_limit, rx, reply, toolvars, answer, owner>>
  BY DEF FirmwareInv, Arm, Ready, InWindow, Baseline
<1>2. PICK x, y : x = now /\ y = R31 /\ x \in Nat /\ y \in Nat
  BY <1>1, Numbers
<1>3. PICK s : s = stores' /\ s = <<<<W("event_count"), 0>>, <<W("initial"), y>>,
                                    <<W("final"), y>>, <<W("start"), x>>, <<W("stop"), 0>>,
                                    <<W("reason"), NONE>>, <<W("running"), 1>>>>
  BY <1>1, <1>2
<1>4. /\ Len(s) = 7 /\ s[1] = <<W("event_count"), 0>> /\ s[2] = <<W("initial"), y>>
      /\ s[3] = <<W("final"), y>> /\ s[4] = <<W("start"), x>> /\ s[5] = <<W("stop"), 0>>
      /\ s[6] = <<W("reason"), NONE>> /\ s[7] = <<W("running"), 1>>
  BY <1>3
<1>5. /\ s[1][1] = W("event_count") /\ s[1][2] = 0 /\ s[2][1] = W("initial") /\ s[2][2] = y
      /\ s[3][1] = W("final") /\ s[4][1] = W("start") /\ s[5][1] = W("stop")
      /\ s[6][1] = W("reason") /\ s[6][2] = NONE /\ s[7][1] = W("running") /\ s[7][2] = 1
  BY <1>4
<1>6. \A k \in 1..7 : \A j \in 1..7 : j # k => s[j][1] # s[k][1]
  BY <1>5, Apart
<1>7. \A k \in 1..7 : Ends(s[k][1], s[k][2])'
  BY <1>1, <1>3, <1>4, <1>6, ListEnds
<1>8. /\ Ends(W("event_count"), 0)' /\ Ends(W("initial"), y)' /\ Ends(W("reason"), NONE)'
      /\ Ends(W("running"), 1)'
  BY <1>5, <1>7
<1>9. RawTypes'
  <2>1. stores' \in Seq(Addr \X Nat)
    BY <1>1, Numbers, StoreTypes
  <2>2. seen' \in Seq(Nat \X Nat) /\ last_timestamp' \in Nat /\ event_count' \in 0..Capacity
    BY <1>1, <1>2, RawFacts
  <2> QED BY <1>1, <2>1, <2>2 DEF RawTypes, toolvars
<1>10. Capturing'
  <2>1. Recorded' /\ Changes' /\ Latest' = R31
    <3>1. Ends(W("initial"), base)'
      BY <1>1, <1>2, <1>8 DEF Ends
    <3> QED BY <1>1, <3>1 DEF Recorded, Changes, Latest
  <2>2. (event_count < event_limit)' /\ event_count' = Len(seen')
    BY <1>1, RawFacts DEF RawTypes
  <2> QED BY <1>1, <1>8, <2>1, <2>2 DEF Capturing
<1>11. Published' /\ Empty'
  <2>1. ~Ends(W("reason"), EVENT_LIMIT)'
    BY <1>8, <1>9, DecidedNext DEF NONE, EVENT_LIMIT
  <2> QED BY <1>1, <1>8, <2>1 DEF Published, Empty
<1>12. Flow'
  BY <1>1 DEF Flow
<1>13. Gate'
  <2>1. \A i \in 1..Len(stores') : stores'[i][1] = W("running") => stores'[i][2] = 1
    BY <1>3, <1>4, <1>5, Apart
  <2> QED BY <1>1, <1>8, <2>1 DEF Gate
<1> QED BY <1>9, <1>10, <1>11, <1>12, <1>13 DEF FirmwareInv

LEMMA Appended ==
    ASSUME NEW T, NEW r \in Seq(T), NEW e \in T
    PROVE  /\ Len(Append(r, e)) = Len(r) + 1 /\ Append(r, e)[Len(r) + 1] = e
           /\ \A i \in 1..Len(r) : Append(r, e)[i] = r[i]
OBVIOUS

(* What a request does to the block and the registers, in the words the         *)
(* invariants are about.                                                       *)
LEMMA RequestWords ==
    ASSUME RawTypes, ~capture_running, stores = <<>>, UNCHANGED mem, NEW m \in Requests,
           stores' = Stores(m)
    PROVE  /\ Refused(m) \/ m.type \in {"FORCE_SAFE", "CONFIG"} \/ (m.type = "STOP" /\ ~start_pending)
              => \A a : a # W("limit") => Same(a)
           /\ ~Refused(m) /\ m.type \in {"CLEAR", "START"} =>
                 Ends(W("reason"), NONE)' /\ Ends(W("event_count"), 0)'
           /\ m.type = "STOP" /\ start_pending =>
                 /\ Ends(W("reason"), HOST_REQUEST)'
                 /\ \A a : a \notin {W("stop"), W("reason"), W("running")} => Same(a)
           /\ ~Refused(m) /\ m.type = "STATUS" =>
                 /\ \A c : c = event_count => Ends(W("event_count"), c)'
                 /\ \A a : a \notin {W("event_count"), W("final")} => Same(a)
           /\ stores' \in Seq(Addr \X Nat)
<1>1. m.type \in RequestTypes /\ stores' \in Seq(Addr \X Nat)
  BY StoresOf DEF Requests
<1>2. ASSUME NEW s, stores' = s, NEW n \in Nat, Len(s) = n
      PROVE  /\ \A a, v : (\A j \in 1..n : s[j][1] # a) => (Ends(a, v)' <=> Ends(a, v))
             /\ \A i \in 1..n : (\A j \in 1..n : j # i => s[j][1] # s[i][1]) => Ends(s[i][1], s[i][2])'
  BY <1>2, ListEnds
<1>3. ASSUME stores' = <<>> PROVE \A a : Same(a)
  BY <1>3, SameEnds DEF Same
<1>4. CASE Refused(m) \/ m.type = "FORCE_SAFE" \/ (m.type = "STOP" /\ ~start_pending)
  <2>1. stores' = <<>>
    BY <1>4, StoresOf DEF Refused
  <2> QED BY <1>1, <1>3, <1>4, <2>1 DEF Refused
<1>5. CASE ~Refused(m) /\ m.type = "CONFIG"
  <2>1. PICK v, s : v = m.limit /\ s = stores' /\ s = <<<<W("limit"), v>>>>
    BY <1>5, StoresOf
  <2>2. Len(s) = 1 /\ s[1][1] = W("limit")
    BY <2>1
  <2>3. ASSUME NEW a, a # W("limit") PROVE Same(a)
    <3>1. \A j \in 1..1 : s[j][1] # a
      BY <2>2, <2>3
    <3> QED BY <1>2, <2>1, <2>2, <3>1 DEF Same
  <2> QED BY <1>1, <1>5, <2>3
<1>6. CASE ~Refused(m) /\ m.type = "CLEAR"
  <2>1. PICK v, s : v = event_limit /\ s = stores' /\ s = Append(raw_shared_init, <<W("limit"), v>>)
    BY <1>6, StoresOf
  <2>2. /\ Len(s) = 9 /\ s[9] = <<W("limit"), v>> /\ \A i \in 1..8 : s[i] = raw_shared_init[i]
    <3>0. PICK T : T = Addr \X Nat
      OBVIOUS
    <3>1. PICK r : r = raw_shared_init /\ r \in Seq(T) /\ Len(r) = 8
      BY <3>0, InitType
    <3>2. PICK e : e = <<W("limit"), v>> /\ e \in T
      BY <2>1, <3>0, HeaderWords, Numbers, Pair
    <3>3. s = Append(r, e)
      BY <2>1, <3>1, <3>2
    <3>4. r \in Seq(T) /\ e \in T
      BY <3>1, <3>2
    <3>5. Len(s) = Len(r) + 1 /\ s[Len(r) + 1] = e /\ \A i \in 1..Len(r) : s[i] = r[i]
      BY <3>3, <3>4, Appended
    <3> QED BY <3>1, <3>2, <3>5
  <2>3. \A i \in 1..8 : s[i] = <<W(Header[i]), IF i = 2 THEN Capacity ELSE 0>>
    BY <2>2, InitType
  <2>4. /\ s[1][1] = W("running") /\ s[2][1] = W("limit") /\ s[3][1] = W("event_count")
        /\ s[3][2] = 0 /\ s[4][1] = W("initial") /\ s[5][1] = W("final") /\ s[6][1] = W("start")
        /\ s[7][1] = W("stop") /\ s[8][1] = W("reason") /\ s[8][2] = 0 /\ s[9][1] = W("limit")
    <3>1. \A i \in 1..8 : s[i][1] = W(Header[i]) /\ (i # 2 => s[i][2] = 0)
      BY <2>3
    <3> QED BY <2>2, <3>1 DEF Header
  <2>5. \A k \in 1..9 : k # 2 /\ k # 9 => Ends(s[k][1], s[k][2])'
    <3>1. \A k \in 1..9 : k # 2 /\ k # 9 => \A j \in 1..9 : j # k => s[j][1] # s[k][1]
      BY <2>4, Apart
    <3>2. stores' = s /\ Len(s) = 9
      BY <2>1, <2>2
    <3>3. \A k \in 1..9 : (\A j \in 1..9 : j # k => s[j][1] # s[k][1]) => Ends(s[k][1], s[k][2])'
      <4>1. TAKE k \in 1..9
      <4>2. HAVE \A j \in 1..9 : j # k => s[j][1] # s[k][1]
      <4>3. PICK n \in Nat : n = 9 /\ Len(s) = n /\ stores' = s
        BY <3>2
      <4> QED BY <4>2, <4>3, ListEnds
    <3> QED BY <3>1, <3>3
  <2> QED BY <1>1, <1>6, <2>4, <2>5 DEF NONE
<1>7. CASE ~Refused(m) /\ m.type = "START"
  <2>1. PICK s : s = stores' /\ s = <<<<W("event_count"), 0>>, <<W("stop"), 0>>,
                                      <<W("reason"), NONE>>, <<W("running"), 0>>>>
    BY <1>7, StoresOf
  <2>2. /\ Len(s) = 4 /\ s[1] = <<W("event_count"), 0>> /\ s[2] = <<W("stop"), 0>>
        /\ s[3] = <<W("reason"), NONE>> /\ s[4] = <<W("running"), 0>>
    BY <2>1
  <2>3. /\ s[1][1] = W("event_count") /\ s[1][2] = 0 /\ s[2][1] = W("stop")
        /\ s[3][1] = W("reason") /\ s[3][2] = NONE /\ s[4][1] = W("running")
    BY <2>2
  <2>4. \A k \in 1..4 : Ends(s[k][1], s[k][2])'
    <3>1. \A k \in 1..4 : \A j \in 1..4 : j # k => s[j][1] # s[k][1]
      BY <2>3, Apart
    <3>2. stores' = s /\ Len(s) = 4
      BY <2>1, <2>2
    <3> QED BY <3>1, <3>2, ListEnds
  <2> QED BY <1>1, <1>7, <2>3, <2>4
<1>8. CASE m.type = "STOP" /\ start_pending
  <2>0. ~Refused(m)
    BY <1>8 DEF Refused
  <2>1. PICK s, x : /\ s = stores' /\ x = now
                    /\ s = <<<<W("stop"), x>>, <<W("reason"), HOST_REQUEST>>, <<W("running"), 0>>>>
    BY <1>8, <2>0, StoresOf
  <2>2. /\ Len(s) = 3 /\ s[1] = <<W("stop"), x>> /\ s[2] = <<W("reason"), HOST_REQUEST>>
        /\ s[3] = <<W("running"), 0>>
    BY <2>1
  <2>3. /\ s[1][1] = W("stop") /\ s[2][1] = W("reason") /\ s[2][2] = HOST_REQUEST
        /\ s[3][1] = W("running")
    BY <2>2
  <2>4. \A k \in 1..3 : Ends(s[k][1], s[k][2])'
    <3>1. \A k \in 1..3 : \A j \in 1..3 : j # k => s[j][1] # s[k][1]
      BY <2>3, Apart
    <3>2. stores' = s /\ Len(s) = 3
      BY <2>1, <2>2
    <3> QED BY <3>1, <3>2, ListEnds
  <2>5. ASSUME NEW a, a \notin {W("stop"), W("reason"), W("running")} PROVE Same(a)
    <3>1. \A j \in 1..3 : s[j][1] # a
      BY <2>3, <2>5
    <3> QED BY <1>2, <2>1, <2>2, <3>1 DEF Same
  <2> QED BY <1>1, <1>8, <2>0, <2>3, <2>4, <2>5
<1>9. CASE ~Refused(m) /\ m.type = "STATUS"
  <2>1. PICK s, c, f : /\ s = stores' /\ c = event_count /\ f = sample
                       /\ s = <<<<W("event_count"), c>>, <<W("final"), f>>>>
    BY <1>9, StoresOf
  <2>2. Len(s) = 2 /\ s[1] = <<W("event_count"), c>> /\ s[2] = <<W("final"), f>>
    BY <2>1
  <2>3. s[1][1] = W("event_count") /\ s[1][2] = c /\ s[2][1] = W("final")
    BY <2>2
  <2>4. \A k \in 1..2 : Ends(s[k][1], s[k][2])'
    <3>1. \A k \in 1..2 : \A j \in 1..2 : j # k => s[j][1] # s[k][1]
      BY <2>3, Apart
    <3>2. stores' = s /\ Len(s) = 2
      BY <2>1, <2>2
    <3> QED BY <3>1, <3>2, ListEnds
  <2>5. ASSUME NEW a, a \notin {W("event_count"), W("final")} PROVE Same(a)
    <3>1. \A j \in 1..2 : s[j][1] # a
      BY <2>3, <2>5
    <3> QED BY <1>2, <2>1, <2>2, <3>1 DEF Same
  <2>6. Ends(W("event_count"), c)'
    BY <2>3, <2>4
  <2> QED BY <1>1, <1>9, <2>1, <2>5, <2>6
<1> QED BY <1>1, <1>4, <1>5, <1>6, <1>7, <1>8, <1>9 DEF RequestTypes

LEMMA RequestKeeps ==
    ASSUME FirmwareInv, handle_request
    PROVE  FirmwareInv'
<1>1. PICK m : m = Head(rx)
  OBVIOUS
<1>2. /\ RawTypes /\ Published /\ Empty /\ Flow /\ pc = "drain" /\ stores = <<>> /\ rx # <<>>
      /\ stores' = Stores(m)
      /\ reply' = [type |-> m.type, sess |-> m.sess, ok |-> ~Refused(m), running |-> status_running]
      /\ start_pending' = CASE m.type \in {"STOP", "FORCE_SAFE"} -> FALSE
                            [] m.type = "START" /\ ~Refused(m) -> TRUE
                            [] OTHER -> start_pending
      /\ capture_running' = (capture_running /\ m.type \notin {"STOP", "FORCE_SAFE"})
      /\ event_limit' = IF m.type = "CONFIG" /\ ~Refused(m) THEN m.limit ELSE event_limit
      /\ event_count' = IF m.type \in {"CLEAR", "START"} /\ ~Refused(m) THEN 0 ELSE event_count
      /\ last_inputs' = IF m.type = "CLEAR" /\ ~Refused(m) THEN sample ELSE last_inputs
      /\ owner' = IF m.type = "START" /\ ~Refused(m) THEN m.sess ELSE owner
      /\ rx' = Tail(rx) /\ pc' = "reply"
      /\ UNCHANGED <<R31, now, mem, sample, last_timestamp, toolvars, answer, base, seen>>
  BY <1>1 DEF FirmwareInv, handle_request, Ready
<1>3. ~capture_running /\ ~InWindow /\ ~InWindow' /\ pc' # "main" /\ pc' # "publish"
  BY <1>2 DEF Flow, InWindow
<1>4. m \in Requests /\ m.type \in RequestTypes /\ m.limit \in 1..Capacity /\ m.sess \in Nat
  <2>1. rx \in Seq(Requests) /\ rx # <<>>
    BY <1>2 DEF RawTypes
  <2>2. m \in Requests
    BY <1>1, <2>1
  <2> QED BY <2>2 DEF Requests
<1>5. /\ Refused(m) \/ m.type \in {"FORCE_SAFE", "CONFIG"} \/ (m.type = "STOP" /\ ~start_pending)
         => \A a : a # W("limit") => Same(a)
      /\ ~Refused(m) /\ m.type \in {"CLEAR", "START"} =>
            Ends(W("reason"), NONE)' /\ Ends(W("event_count"), 0)'
      /\ m.type = "STOP" /\ start_pending =>
            /\ Ends(W("reason"), HOST_REQUEST)'
            /\ \A a : a \notin {W("stop"), W("reason"), W("running")} => Same(a)
      /\ ~Refused(m) /\ m.type = "STATUS" =>
            /\ \A c : c = event_count => Ends(W("event_count"), c)'
            /\ \A a : a \notin {W("event_count"), W("final")} => Same(a)
      /\ stores' \in Seq(Addr \X Nat)
  BY <1>2, <1>3, <1>4, RequestWords
<1>6. Refused(m) <=> (m.type \in {"CLEAR", "START", "CONFIG"} /\ start_pending)
  BY <1>3, <1>4 DEF Refused, busy
<1>7. RawTypes'
  <2>1. reply' \in Replies
    BY <1>2, <1>3, <1>4 DEF Replies, status_running, busy, RawTypes
  <2>2. rx' \in Seq(Requests)
    BY <1>2 DEF RawTypes
  <2>3. /\ start_pending' \in BOOLEAN /\ capture_running' \in BOOLEAN
        /\ event_limit' \in 1..Capacity /\ event_count' \in 0..Capacity
        /\ last_inputs' \in Levels \cup {0} /\ owner' \in Nat
    <3>1. start_pending' \in BOOLEAN
      BY <1>2, <1>4 DEF RawTypes
    <3>2. capture_running' \in BOOLEAN
      BY <1>2
    <3>3. event_limit' \in 1..Capacity /\ event_count' \in 0..Capacity
      BY <1>2, <1>4, RawFacts DEF RawTypes
    <3>4. last_inputs' \in Levels \cup {0} /\ owner' \in Nat
      BY <1>2, <1>4 DEF RawTypes
    <3> QED BY <3>1, <3>2, <3>3, <3>4
  <2> QED BY <1>2, <1>5, <2>1, <2>2, <2>3 DEF RawTypes, toolvars
<1>8. CASE ~Refused(m) /\ m.type \in {"CLEAR", "START"}
  <2>1. ~Ends(W("reason"), EVENT_LIMIT)'
    BY <1>5, <1>7, <1>8, DecidedNext DEF NONE, EVENT_LIMIT
  <2>2. event_count' = 0
    BY <1>2, <1>8
  <2>3. Published' /\ Empty'
    BY <1>5, <1>8, <2>1, <2>2 DEF Published, Empty
  <2>4. start_pending' => Ends(W("reason"), NONE)'
    BY <1>5, <1>8
  <2> QED BY <2>3, <2>4, <1>7, <1>2, <1>3 DEF FirmwareInv, Capturing, Flow, Gate
<1>9. CASE m.type = "STOP" /\ start_pending
  <2>1. ~Ends(W("reason"), EVENT_LIMIT)'
    BY <1>5, <1>7, <1>9, DecidedNext DEF HOST_REQUEST, EVENT_LIMIT
  <2>2. ~Ends(W("reason"), EVENT_LIMIT)
    BY <1>2, <1>9, Decided DEF Flow, NONE, EVENT_LIMIT
  <2>3. Ends(W("event_count"), 0) /\ event_count = 0
    BY <1>2, <1>3, <2>2 DEF Empty
  <2>4. Ends(W("event_count"), 0)' /\ event_count' = 0
    BY <1>2, <1>5, <1>9, <2>3, Apart DEF Same
  <2>5. ~start_pending'
    BY <1>2, <1>9
  <2>6. Published' /\ Empty'
    BY <2>1, <2>4 DEF Published, Empty
  <2> QED BY <2>5, <2>6, <1>7, <1>2, <1>3 DEF FirmwareInv, Capturing, Flow, Gate
<1>10. CASE /\ Refused(m) \/ m.type \in {"CONFIG", "FORCE_SAFE", "STATUS"} \/ (m.type = "STOP" /\ ~start_pending)
            /\ ~(m.type = "STOP" /\ start_pending)
  <2>1. \A a : a \notin {W("event_count"), W("final"), W("limit")} => Same(a)
    BY <1>4, <1>5, <1>10
  <2>2. event_count' = event_count /\ (start_pending' => start_pending)
    BY <1>2, <1>10, <1>6
  <2>3. /\ Same(W("reason")) /\ Same(W("running")) /\ Same(W("stop")) /\ Same(W("initial"))
        /\ \A k : Same(<<"ts", k>>) /\ Same(<<"raw", k>>)
    BY <2>1, Apart DEF Words
  <2>4. \A c : c = event_count /\ Ends(W("event_count"), c) => Ends(W("event_count"), c)'
    <3>1. CASE ~Refused(m) /\ m.type = "STATUS"
      BY <1>5, <3>1
    <3>2. CASE ~(~Refused(m) /\ m.type = "STATUS")
      BY <1>5, <1>10, <3>2, Apart DEF Same
    <3> QED BY <3>1, <3>2
  <2>5. Published'
    <3>1. SUFFICES ASSUME Ends(W("reason"), EVENT_LIMIT)' PROVE Whole'
      BY DEF Published
    <3>2. Whole
      BY <1>2, <2>3, <3>1 DEF Published, Same
    <3>3. seen \in Seq(Nat \X Nat) /\ Len(seen) <= Capacity
      BY <1>2, <3>2, RawFacts DEF RawTypes, Whole
    <3>4. Recorded' /\ Changes'
      BY <1>2, <2>3, <3>2, <3>3, WindowKept DEF Whole
    <3>5. PICK n, t : n = Len(seen) /\ n = event_count /\ t = seen[Len(seen)][1]
      BY <3>2 DEF Whole
    <3>6. Ends(W("event_count"), n)' /\ Ends(W("running"), 0)' /\ Ends(W("stop"), t)'
      BY <2>3, <2>4, <3>2, <3>5 DEF Whole, Same
    <3>7. Ends(W("event_count"), Len(seen))' /\ Ends(W("stop"), seen[Len(seen)][1])'
      BY <1>2, <3>5, <3>6 DEF Ends
    <3> QED BY <1>2, <2>2, <3>2, <3>4, <3>6, <3>7 DEF Whole
  <2>6. Empty'
    BY <1>2, <1>3, <2>2, <2>3, <2>4 DEF Empty, Same
  <2>7. start_pending' => Ends(W("reason"), NONE)'
    BY <1>2, <2>2, <2>3 DEF Flow, Same
  <2> QED BY <2>5, <2>6, <2>7, <1>7, <1>2, <1>3 DEF FirmwareInv, Capturing, Flow, Gate
<1> QED BY <1>4, <1>8, <1>9, <1>10 DEF RequestTypes

LEMMA FirmwareStep ==
    ASSUME FirmwareInv, [RawNext]_rawvars
    PROVE  FirmwareInv'
<1>1. CASE Firmware
  BY <1>1, StoreKeeps, ArmKeeps, EdgeKeeps, WindowEndKeeps, PollHostKeeps, RequestKeeps,
     RespondKeeps, DrainEndKeeps DEF Firmware
<1>2. CASE InputMoves
  BY <1>2, InputMovesKeeps
<1>3. CASE Tool
  BY <1>3, ToolKeeps
<1>4. CASE UNCHANGED rawvars
  <2>1. RawTypes'
    BY <1>4 DEF FirmwareInv, RawTypes, rawvars, locals, toolvars, history
  <2>2. UNCHANGED <<mem, stores, locals, base, seen, pc>>
    BY <1>4 DEF rawvars, history
  <2>3. Capturing' /\ Published' /\ Empty' /\ Flow' /\ Gate'
    BY <2>2, OtherStepsKeep DEF InWindow
  <2> QED BY <2>1, <2>3 DEF FirmwareInv
<1> QED BY <1>1, <1>2, <1>3, <1>4 DEF RawNext

LEMMA FirmwareStart ==
    ASSUME RawInit
    PROVE  FirmwareInv
<1>1. /\ mem = [a \in Addr |-> CASE a = W("limit") -> Capacity
                                 [] a \in {W("initial"), W("final")} -> R31
                                 [] OTHER -> 0]
      /\ stores = <<>> /\ pc = "main" /\ start_pending = FALSE /\ capture_running = FALSE
      /\ event_count = 0 /\ R31 \in Levels
  BY DEF RawInit
<1>2. mem \in [Addr -> Nat]
  BY <1>1, RawFacts
<1>3. mem[W("reason")] = 0 /\ mem[W("event_count")] = 0
  BY <1>1, HeaderWords, Apart
<1>4. RawTypes
  <2>1. NoAnswer \in Replies /\ Len(<<>>) = 0 /\ Len(Layout) >= 0
    BY LayoutFacts, RawFacts DEF NoAnswer, Replies
  <2>2. /\ now \in 0..(Wrap - 1) /\ event_limit \in 1..Capacity /\ event_count \in 0..Capacity
        /\ sess \in 0..MaxSessions /\ limit \in 1..Capacity /\ last_timestamp \in Nat
        /\ owner \in Nat
    BY RawFacts DEF RawInit
  <2>3. /\ rx \in Seq(Requests) /\ todo \in Seq(RequestTypes) /\ snap \in Seq(Nat)
        /\ seen \in Seq(Nat \X Nat) /\ stores \in Seq(Addr \X Nat)
    BY Tuples DEF RawInit
  <2>4. /\ R31 \in Levels /\ sample \in Levels \cup {0} /\ last_inputs \in Levels \cup {0}
        /\ base \in Levels /\ pc \in {"main", "drain", "reply", "window", "publish"}
        /\ start_pending \in BOOLEAN /\ capture_running \in BOOLEAN /\ kind \in Commands
        /\ waiting \in BOOLEAN /\ calm \in BOOLEAN /\ (waiting => todo # <<>>)
        /\ outcome \in {"none", "error", "done"}
    BY DEF RawInit, Commands
  <2>5. reply \in Replies /\ answer \in Replies /\ Len(snap) <= Len(Layout)
    BY <2>1 DEF RawInit
  <2> QED BY <1>2, <2>2, <2>3, <2>4, <2>5 DEF RawTypes
<1>5. Ends(W("reason"), NONE) /\ Ends(W("event_count"), 0) /\ ~Ends(W("reason"), EVENT_LIMIT)
  <2>1. \A a, v : Ends(a, v) <=> mem[a] = v
    BY <1>1, AtRest
  <2> QED BY <1>3, <2>1 DEF NONE, EVENT_LIMIT
<1>6. Published /\ Empty
  BY <1>1, <1>5 DEF Published, Empty
<1> QED BY <1>1, <1>4, <1>6 DEF FirmwareInv, Capturing, Flow, Gate, InWindow

LEMMA BlockFollows ==
    ASSUME FirmwareInv
    PROVE  BlockSound
<1>1. RawTypeOK
  BY DEF FirmwareInv, RawTypes, RawTypeOK
<1>2. ASSUME stores = <<>>, mem[W("reason")] = EVENT_LIMIT
      PROVE  Shows(InMem) /\ mem[W("running")] = 0 /\ Len(seen) > 0
  <2>1. Whole /\ RawTypes
    BY <1>2, AtRest DEF FirmwareInv, Published
  <2>2. /\ mem[W("event_count")] = Len(seen) /\ mem[W("running")] = 0
        /\ mem[W("initial")] = base
        /\ \A i \in 1..Len(seen) : /\ mem[<<"ts", i - 1>>] = seen[i][1]
                                   /\ mem[<<"raw", i - 1>>] = seen[i][2]
    BY <1>2, <2>1, AtRest DEF Whole, Recorded
  <2>3. PICK n \in Nat : n = Len(seen) /\ n > 0
    <3>1. seen \in Seq(Nat \X Nat) /\ seen # <<>>
      BY <2>1 DEF Whole, RawTypes
    <3> QED BY <3>1
  <2>4. ASSUME NEW i \in 1..n
        PROVE  mem[<<"raw", i - 1>>] # IF i = 1 THEN mem[W("initial")] ELSE mem[<<"raw", i - 2>>]
    <3>1. seen[i][2] # IF i = 1 THEN base ELSE seen[i - 1][2]
      BY <2>1, <2>3 DEF Whole, Changes
    <3>2. i # 1 => i - 1 \in 1..n /\ (i - 1) - 1 = i - 2
      BY <2>3
    <3>3. i # 1 => mem[<<"raw", i - 2>>] = seen[i - 1][2]
      BY <2>2, <2>3, <3>2
    <3> QED BY <2>2, <2>3, <3>1, <3>3
  <2>5. Shows(InMem)
    BY <2>2, <2>3, <2>4 DEF Shows, InMem, W
  <2> QED BY <2>2, <2>3, <2>5
<1>3. FrozenIsWindow
  BY <1>2 DEF FrozenIsWindow
<1> QED BY <1>1, <1>3 DEF BlockSound

(* The block of shared RAM is in range, and whatever status, stop and           *)
(* configuration requests come behind a window, its record stays whole until    *)
(* the next START or CLEAR (publish_stop, handle_request,                       *)
(* run_capture_window).                                                        *)
THEOREM RawBlockSound == RawSpec => []BlockSound
<1>1. RawInit => FirmwareInv
  BY FirmwareStart
<1>2. FirmwareInv /\ [RawNext]_rawvars => FirmwareInv'
  BY FirmwareStep
<1>3. FirmwareInv => BlockSound
  BY BlockFollows
<1> QED BY <1>1, <1>2, <1>3, PTL DEF RawSpec
------------------------------------------------------------------------------
(* What the tool asked for.                                                     *)
LEMMA AskedSame ==
    ASSUME Asked, UNCHANGED <<rx, reply, sess, outcome, waiting, todo, limit, answer>>,
           pc' = pc \/ pc # "reply"
    PROVE  Asked'
BY DEF Asked

LEMMA AskedRequest ==
    ASSUME RawTypes, Asked, handle_request
    PROVE  Asked'
<1>1. PICK m : m = Head(rx)
  OBVIOUS
<1>2. /\ rx # <<>> /\ rx' = Tail(rx) /\ pc' = "reply"
      /\ reply'.type = m.type /\ reply'.sess = m.sess
      /\ UNCHANGED <<sess, kind, todo, waiting, limit, outcome, answer>>
  BY <1>1 DEF handle_request, toolvars
<1>3. PICK n \in Nat : /\ n = Len(rx) /\ n >= 1 /\ Len(rx') = n - 1 /\ m = rx[1]
                       /\ \A i \in 1..(n - 1) : i + 1 \in 1..n /\ rx'[i] = rx[i + 1]
  BY <1>1, <1>2 DEF RawTypes
<1>4. \A i \in 1..Len(rx') : rx'[i].sess <= sess
  BY <1>3 DEF Asked
<1>5. m.sess <= sess
  BY <1>3 DEF Asked
<1>6. ASSUME outcome = "none", NEW i \in 1..Len(rx'), rx'[i].sess = sess
      PROVE  /\ i = Len(rx') /\ waiting /\ rx'[i].type = Head(todo) /\ rx'[i].limit = limit
             /\ m.sess # sess /\ answer = NoAnswer
  <2>1. /\ rx[i + 1].sess = sess /\ i + 1 \in 1..n
        /\ i + 1 = n /\ waiting /\ rx[i + 1].type = Head(todo) /\ rx[i + 1].limit = limit
        /\ answer = NoAnswer
    BY <1>3, <1>6 DEF Asked
  <2>2. m.sess # sess
    BY <1>3, <1>6, <2>1 DEF Asked
  <2> QED BY <1>3, <1>6, <2>1, <2>2
<1>7. ASSUME outcome = "none", m.sess = sess
      PROVE  waiting /\ m.type = Head(todo) /\ answer = NoAnswer
  BY <1>3, <1>7 DEF Asked
<1> QED BY <1>2, <1>4, <1>5, <1>6, <1>7 DEF Asked

LEMMA AskedRespond ==
    ASSUME RawTypes, Asked, Respond
    PROVE  Asked'
<1>1. /\ reply' = NoAnswer /\ answer' = (IF waiting /\ reply.sess = sess THEN reply ELSE answer)
      /\ pc' = "drain" /\ UNCHANGED <<rx, sess, todo, waiting, limit, outcome>>
      /\ NoAnswer.sess = 0
  BY DEF Respond, toolvars, NoAnswer
<1>2. sess \in Nat
  BY RawFacts DEF RawTypes
<1>3. outcome = "none" => reply'.sess # sess
  BY <1>1, <1>2 DEF Asked
<1>4. reply'.sess <= sess
  BY <1>1, <1>2
<1>5. ASSUME outcome = "none", answer' # NoAnswer PROVE waiting /\ answer'.type = Head(todo)
  BY <1>1, <1>5 DEF Asked
<1>6. ASSUME outcome = "none", NEW i \in 1..Len(rx), rx[i].sess = sess PROVE answer' = NoAnswer
  BY <1>1, <1>6 DEF Asked
<1> QED BY <1>1, <1>3, <1>4, <1>5, <1>6 DEF Asked

LEMMA AskedTool ==
    ASSUME RawTypes, Asked, Tool
    PROVE  Asked'
<1>1. /\ sess \in Nat /\ rx \in Seq(Requests) /\ reply \in Replies /\ NoAnswer.sess = 0
      /\ reply.sess \in Nat
  BY RawFacts DEF RawTypes, NoAnswer, Replies
<1>2. ASSUME NEW k \in Commands, NEW n \in Limits(k), Open(k, n) PROVE Asked'
  <2>1. /\ sess' = sess + 1 /\ answer' = NoAnswer /\ waiting' = FALSE
        /\ UNCHANGED <<rx, reply, pc>>
    BY <1>2 DEF Open, fwvars
  <2>2. \A i \in 1..Len(rx) : rx[i].sess <= sess' /\ rx[i].sess # sess'
    <3>0. \A i \in 1..Len(rx) : rx[i] \in Requests
      BY <1>1
    <3>1. \A i \in 1..Len(rx) : rx[i].sess \in Nat
      BY <3>0 DEF Requests
    <3> QED BY <1>1, <2>1, <3>1 DEF Asked
  <2>3. reply.sess <= sess' /\ reply.sess # sess'
    BY <1>1, <2>1 DEF Asked
  <2> QED BY <1>1, <2>1, <2>2, <2>3 DEF Asked
<1>3. CASE Request
  <2>1. PICK q : q = [type |-> Head(todo), limit |-> limit, sess |-> sess]
    OBVIOUS
  <2>2. /\ outcome = "none" /\ todo # <<>> /\ ~waiting /\ rx' = Append(rx, q) /\ waiting' = TRUE
        /\ answer' = NoAnswer /\ UNCHANGED <<pc, reply, sess, todo, limit, outcome>>
    BY <1>3, <2>1 DEF Request
  <2>3. /\ Len(rx') = Len(rx) + 1 /\ rx'[Len(rx) + 1] = q
        /\ \A i \in 1..Len(rx) : rx'[i] = rx[i]
    <3>1. q \in Requests
      BY <2>1, <2>2 DEF RawTypes, Requests
    <3> QED BY <1>1, <2>2, <3>1
  <2>4. q.type = Head(todo) /\ q.limit = limit /\ q.sess = sess
    BY <2>1
  <2>5. reply.sess # sess /\ \A i \in 1..Len(rx) : rx[i].sess # sess
    BY <2>2 DEF Asked
  <2>6. \A i \in 1..Len(rx') : i = Len(rx') \/ i \in 1..Len(rx)
    BY <1>1, <2>3
  <2>7. \A i \in 1..Len(rx') : rx'[i].sess <= sess
    BY <1>1, <2>3, <2>4, <2>6 DEF Asked
  <2>8. \A i \in 1..Len(rx') :
           rx'[i].sess = sess => i = Len(rx') /\ rx'[i].type = Head(todo) /\ rx'[i].limit = limit
    BY <2>3, <2>4, <2>5, <2>6
  <2> QED BY <2>2, <2>5, <2>7, <2>8 DEF Asked
<1>4. ASSUME outcome' # "none", UNCHANGED <<rx, reply, pc, sess>> PROVE Asked'
  BY <1>4 DEF Asked
<1>5. CASE Timeout
  BY <1>4, <1>5 DEF Timeout, Fail, fwvars
<1>6. CASE ReadAnswer
  <2>1. /\ outcome = "none" /\ waiting /\ answer # NoAnswer /\ answer' = NoAnswer
        /\ UNCHANGED <<rx, reply, pc, sess, limit>>
    BY <1>6 DEF ReadAnswer, fwvars
  <2>2. reply.sess # sess /\ \A i \in 1..Len(rx) : rx[i].sess # sess
    BY <2>1 DEF Asked
  <2>3. outcome' = "none" => waiting' = FALSE
    BY <1>6 DEF ReadAnswer, Fail
  <2> QED BY <2>1, <2>2, <2>3 DEF Asked
<1>7. CASE CopyWord
  BY <1>7, AskedSame DEF CopyWord, fwvars
<1>8. CASE Validate
  BY <1>4, <1>8 DEF Validate, Fail, fwvars
<1> QED BY <1>2, <1>3, <1>5, <1>6, <1>7, <1>8 DEF Tool

LEMMA AskedStep ==
    ASSUME RawTypes, Asked, [RawNext]_rawvars
    PROVE  Asked'
<1>1. CASE Store \/ Arm \/ Edge \/ WindowEnd \/ PollHost \/ DrainEnd \/ InputMoves
  BY <1>1, AskedSame DEF Store, Arm, Edge, WindowEnd, PollHost, DrainEnd, InputMoves, Ready, toolvars
<1>2. CASE UNCHANGED rawvars
  BY <1>2, AskedSame DEF rawvars, toolvars
<1> QED BY <1>1, <1>2, AskedRequest, AskedRespond, AskedTool DEF RawNext, Firmware
------------------------------------------------------------------------------
(* How far a capture has come.                                                  *)
LEMMA RemainingFacts ==
    ASSUME NEW t \in Remaining
    PROVE  /\ Len(t) \in 0..4 /\ (Len(t) = 0 <=> t = <<>>) /\ (Len(t) = 1 <=> t = <<"STATUS">>)
           /\ Len(t) = 4 => Head(t) = "CONFIG"
           /\ Len(t) = 3 => Head(t) = "CLEAR"
           /\ Len(t) = 2 => Head(t) = "START"
           /\ Len(t) = 1 => Head(t) = "STATUS"
           /\ t # <<>> => Tail(t) \in Remaining /\ Len(Tail(t)) = Len(t) - 1
<1>1. PICK a, b, c, d : /\ a = <<"CONFIG", "CLEAR", "START", "STATUS">>
                        /\ b = <<"CLEAR", "START", "STATUS">> /\ c = <<"START", "STATUS">>
                        /\ d = <<"STATUS">>
  OBVIOUS
<1>2. Remaining = {a, b, c, d, <<>>}
  BY <1>1 DEF Remaining
<1>3. /\ Len(a) = 4 /\ Len(b) = 3 /\ Len(c) = 2 /\ Len(d) = 1 /\ Len(<<>>) = 0
      /\ Head(a) = "CONFIG" /\ Head(b) = "CLEAR" /\ Head(c) = "START" /\ Head(d) = "STATUS"
  BY <1>1
<1>4. Tail(a) = b /\ Tail(b) = c /\ Tail(c) = d /\ Tail(d) = <<>>
  BY <1>1
<1>5. PICK e : e = <<>>
  OBVIOUS
<1>6. t = a \/ t = b \/ t = c \/ t = d \/ t = e
  BY <1>2, <1>5
<1>7. Len(e) = 0
  BY <1>5
<1>8. a # d /\ a # e /\ b # d /\ b # e /\ c # d /\ c # e /\ d # e
  BY <1>3, <1>7
<1>9. b \in Remaining /\ c \in Remaining /\ d \in Remaining /\ e \in Remaining
  BY <1>2, <1>5
<1>10. CASE t = a
  <2>1. Len(t) = 4 /\ Head(t) = "CONFIG" /\ Tail(t) = b /\ Len(b) = 3
    BY <1>3, <1>4, <1>5, <1>7, <1>10
  <2>2. t # e /\ Tail(t) \in Remaining /\ Len(Tail(t)) = Len(t) - 1
    <3>1. t # e
      BY <1>8, <1>10
    <3>2. Tail(t) \in Remaining
      BY <1>9, <2>1
    <3>3. Len(Tail(t)) = Len(t) - 1
      BY <2>1
    <3> QED BY <3>1, <3>2, <3>3
  <2>3. t = d <=> Len(t) = 1
    BY <1>8, <1>10, <2>1
  <2>4. Len(t) \in 0..4 /\ Len(t) # 0
    BY <2>1
  <2>5. t # <<>> /\ (t = <<"STATUS">> <=> Len(t) = 1)
    BY <1>1, <1>5, <2>2, <2>3
  <2> QED BY <2>1, <2>2, <2>4, <2>5
<1>11. CASE t = b
  <2>1. Len(t) = 3 /\ Head(t) = "CLEAR" /\ Tail(t) = c /\ Len(c) = 2
    BY <1>3, <1>4, <1>5, <1>7, <1>11
  <2>2. t # e /\ Tail(t) \in Remaining /\ Len(Tail(t)) = Len(t) - 1
    <3>1. t # e
      BY <1>8, <1>11
    <3>2. Tail(t) \in Remaining
      BY <1>9, <2>1
    <3>3. Len(Tail(t)) = Len(t) - 1
      BY <2>1
    <3> QED BY <3>1, <3>2, <3>3
  <2>3. t = d <=> Len(t) = 1
    BY <1>8, <1>11, <2>1
  <2>4. Len(t) \in 0..4 /\ Len(t) # 0
    BY <2>1
  <2>5. t # <<>> /\ (t = <<"STATUS">> <=> Len(t) = 1)
    BY <1>1, <1>5, <2>2, <2>3
  <2> QED BY <2>1, <2>2, <2>4, <2>5
<1>12. CASE t = c
  <2>1. Len(t) = 2 /\ Head(t) = "START" /\ Tail(t) = d /\ Len(d) = 1
    BY <1>3, <1>4, <1>5, <1>7, <1>12
  <2>2. t # e /\ Tail(t) \in Remaining /\ Len(Tail(t)) = Len(t) - 1
    <3>1. t # e
      BY <1>8, <1>12
    <3>2. Tail(t) \in Remaining
      BY <1>9, <2>1
    <3>3. Len(Tail(t)) = Len(t) - 1
      BY <2>1
    <3> QED BY <3>1, <3>2, <3>3
  <2>3. t = d <=> Len(t) = 1
    BY <1>8, <1>12, <2>1
  <2>4. Len(t) \in 0..4 /\ Len(t) # 0
    BY <2>1
  <2>5. t # <<>> /\ (t = <<"STATUS">> <=> Len(t) = 1)
    BY <1>1, <1>5, <2>2, <2>3
  <2> QED BY <2>1, <2>2, <2>4, <2>5
<1>13. CASE t = d
  <2>1. Len(t) = 1 /\ Head(t) = "STATUS" /\ Tail(t) = e /\ Len(e) = 0
    BY <1>3, <1>4, <1>5, <1>7, <1>13
  <2>2. t # e /\ Tail(t) \in Remaining /\ Len(Tail(t)) = Len(t) - 1
    <3>1. t # e
      BY <1>8, <1>13
    <3>2. Tail(t) \in Remaining
      BY <1>9, <2>1
    <3>3. Len(Tail(t)) = Len(t) - 1
      BY <2>1
    <3> QED BY <3>1, <3>2, <3>3
  <2>3. t = d <=> Len(t) = 1
    BY <1>8, <1>13, <2>1
  <2>4. Len(t) \in 0..4 /\ Len(t) # 0
    BY <2>1
  <2>5. t # <<>> /\ (t = <<"STATUS">> <=> Len(t) = 1)
    BY <1>1, <1>5, <2>2, <2>3
  <2> QED BY <2>1, <2>2, <2>4, <2>5
<1>14. CASE t = e
  <2>1. t = <<>> /\ Len(t) = 0 /\ t # <<"STATUS">>
    BY <1>1, <1>5, <1>7, <1>8, <1>14
  <2> QED BY <2>1
<1> QED BY <1>6, <1>10, <1>11, <1>12, <1>13, <1>14

LEMMA CaptureQuiet ==
    ASSUME CaptureInv,
           UNCHANGED <<kind, outcome, todo, limit, sess, owner, snap, reply, answer, rx, event_limit>>,
           event_limit = limit /\ (start_pending \/ InWindow \/ Ours) => (start_pending \/ InWindow \/ Ours)',
           Ours /\ InService => Ours',
           Ours /\ Resting => Ours' /\ Resting' /\ mem' = mem
    PROVE  CaptureInv'
<1>1. SUFFICES ASSUME kind = "capture", outcome \in {"none", "done"} PROVE CaptureInv'
  BY DEF CaptureInv
<1>2. /\ todo \in Remaining
      /\ Granted(4) => event_limit = limit /\ \A i \in 1..Len(rx) : rx[i].sess = sess
      /\ Granted(2) => owner = sess /\ (start_pending \/ InWindow \/ Ours)
      /\ todo = <<"STATUS">> /\ InService /\ ~reply.running => Ours
      /\ todo = <<>> \/ (todo = <<"STATUS">> /\ Answered /\ ~answer.running) => Ours /\ Resting
      /\ Copied /\ (todo # <<>> => snap = <<>>)
      /\ outcome = "done" => todo = <<>> /\ Len(snap) = Len(Layout)
  BY <1>1 DEF CaptureInv
<1>3. InService' = InService /\ Answered' = Answered
  BY DEF InService, Answered
<1>4. Granted(4)' = Granted(4) /\ Granted(2)' = Granted(2) /\ (Granted(2) => Granted(4))
  <2>1. Len(todo) \in 0..4
    BY <1>2, RemainingFacts
  <2> QED BY <1>3, <2>1 DEF Granted
<1>5. Copied'
  <2>1. CASE snap = <<>>
    BY <2>1 DEF Copied
  <2>2. CASE snap # <<>>
    BY <1>2, <2>2 DEF Copied
  <2> QED BY <2>1, <2>2
<1>6. /\ Granted(4)' => event_limit' = limit' /\ \A i \in 1..Len(rx') : rx'[i].sess = sess'
      /\ Granted(2)' => owner' = sess' /\ (start_pending \/ InWindow \/ Ours)'
  BY <1>2, <1>4
<1>7. /\ todo' = <<"STATUS">> /\ InService' /\ ~reply'.running => Ours'
      /\ todo' = <<>> \/ (todo' = <<"STATUS">> /\ Answered' /\ ~answer'.running) => Ours' /\ Resting'
  BY <1>2, <1>3
<1> QED BY <1>2, <1>5, <1>6, <1>7 DEF CaptureInv

LEMMA OursSame ==
    ASSUME Same(W("reason")), UNCHANGED <<seen, limit>>
    PROVE  Ours' = Ours
BY DEF Ours, Same

LEMMA CaptureFirmware ==
    ASSUME FirmwareInv, FirmwareInv', Asked, CaptureInv,
           Store \/ Arm \/ Edge \/ WindowEnd \/ PollHost \/ DrainEnd \/ InputMoves \/ UNCHANGED rawvars
    PROVE  CaptureInv'
<1>1. RawTypes /\ Flow /\ Capturing /\ RawTypes' /\ Capturing'
  BY DEF FirmwareInv
<1>2. pc # "reply" => ~InService
  BY DEF Asked, InService, NoAnswer
<1>3. CASE Store
  <2>1. /\ stores # <<>> /\ UNCHANGED <<pc, start_pending, seen, limit>>
        /\ UNCHANGED <<kind, outcome, todo, limit, sess, owner, snap, reply, answer, rx, event_limit>>
    BY <1>3 DEF Store, locals, toolvars, history
  <2>2. Same(W("reason"))
    BY <1>1, <1>3, HeaderWords, StoreEnds DEF Same
  <2> QED BY <2>1, <2>2, OursSame, CaptureQuiet DEF InWindow, Resting
<1>4. CASE Arm
  <2>1. /\ pc = "main" /\ start_pending /\ InWindow'
        /\ UNCHANGED <<kind, outcome, todo, limit, sess, owner, snap, reply, answer, rx, event_limit>>
    BY <1>4 DEF Arm, Ready, toolvars, InWindow
  <2>2. ~Ours
    BY <1>1, <2>1, Decided DEF Flow, Ours, NONE, EVENT_LIMIT
  <2> QED BY <2>1, <2>2, CaptureQuiet
<1>5. CASE Edge
  <2>1. /\ pc = "window" /\ InWindow'
        /\ UNCHANGED <<kind, outcome, todo, limit, sess, owner, snap, reply, answer, rx, event_limit>>
    BY <1>5 DEF Edge, Ready, toolvars, InWindow
  <2> QED BY <1>2, <2>1, CaptureQuiet DEF Resting
<1>6. CASE WindowEnd
  <2>1. /\ pc = "publish" /\ InWindow /\ stores = <<>> /\ UNCHANGED <<mem, seen>>
        /\ stores' = publish_stop(EVENT_LIMIT, last_timestamp, last_inputs, event_count)
        /\ UNCHANGED <<kind, outcome, todo, limit, sess, owner, snap, reply, answer, rx, event_limit>>
    BY <1>6 DEF WindowEnd, Ready, toolvars, InWindow, history
  <2>2. Ends(W("reason"), EVENT_LIMIT)'
    BY <2>1, Publishes
  <2>3. Len(seen) = event_limit
    BY <1>1, <2>1 DEF Capturing
  <2>4. event_limit = limit => Ours'
    BY <2>1, <2>2, <2>3 DEF Ours
  <2> QED BY <1>2, <2>1, <2>4, CaptureQuiet DEF Resting
<1>7. CASE PollHost
  <2>1. /\ pc = "main" /\ pc' = "drain" /\ rx # <<>> /\ UNCHANGED <<mem, stores, start_pending, seen>>
        /\ UNCHANGED <<kind, outcome, todo, limit, sess, owner, snap, reply, answer, rx, event_limit>>
    BY <1>7 DEF PollHost, Ready, toolvars, locals, history
  <2>2. Same(W("reason"))
    BY <2>1, SameEnds DEF Same
  <2> QED BY <2>1, <2>2, OursSame, CaptureQuiet DEF InWindow, Resting
<1>8. CASE DrainEnd
  <2>1. /\ pc = "drain" /\ pc' = "main" /\ rx = <<>> /\ UNCHANGED <<mem, stores, start_pending, seen>>
        /\ UNCHANGED <<kind, outcome, todo, limit, sess, owner, snap, reply, answer, rx, event_limit>>
    BY <1>8 DEF DrainEnd, Ready, toolvars, locals, history
  <2>2. Same(W("reason"))
    BY <2>1, SameEnds DEF Same
  <2> QED BY <2>1, <2>2, OursSame, CaptureQuiet DEF InWindow, Resting
<1>9. CASE InputMoves \/ UNCHANGED rawvars
  <2>1. /\ UNCHANGED <<pc, mem, stores, start_pending, seen>>
        /\ UNCHANGED <<kind, outcome, todo, limit, sess, owner, snap, reply, answer, rx, event_limit>>
    BY <1>9 DEF InputMoves, rawvars, toolvars, locals, history
  <2>2. Same(W("reason"))
    BY <2>1, SameEnds DEF Same
  <2> QED BY <2>1, <2>2, OursSame, CaptureQuiet DEF InWindow, Resting
<1> QED BY <1>3, <1>4, <1>5, <1>6, <1>7, <1>8, <1>9

LEMMA CaptureRespond ==
    ASSUME FirmwareInv, Asked, CaptureInv, Respond
    PROVE  CaptureInv'
<1>1. SUFFICES ASSUME kind = "capture", outcome \in {"none", "done"} PROVE CaptureInv'
  BY DEF CaptureInv, Respond, toolvars
<1>2. /\ pc = "reply" /\ pc' = "drain" /\ stores = <<>> /\ ~Resting /\ reply' = NoAnswer
      /\ answer' = (IF waiting /\ reply.sess = sess THEN reply ELSE answer)
      /\ UNCHANGED <<mem, stores, start_pending, seen, kind, outcome, todo, waiting, limit, sess,
                     owner, snap, rx, event_limit>>
  BY DEF Respond, Ready, Resting, toolvars, locals, history
<1>3. /\ todo \in Remaining
      /\ Granted(4) => event_limit = limit /\ \A i \in 1..Len(rx) : rx[i].sess = sess
      /\ Granted(2) => owner = sess /\ (start_pending \/ InWindow \/ Ours)
      /\ todo = <<"STATUS">> /\ InService /\ ~reply.running => Ours
      /\ ~(todo = <<>> \/ (todo = <<"STATUS">> /\ Answered /\ ~answer.running))
      /\ Copied /\ (todo # <<>> => snap = <<>>)
      /\ outcome = "done" => todo = <<>> /\ Len(snap) = Len(Layout)
  BY <1>1, <1>2 DEF CaptureInv
<1>4. outcome = "none"
  BY <1>1, <1>3
<1>5. ~InService' /\ (Answered' => InService \/ Answered)
  BY <1>2 DEF InService, Answered, NoAnswer
<1>6. /\ Granted(4)' => Granted(4)
      /\ Granted(2)' => Granted(2)
  BY <1>2, <1>5 DEF Granted
<1>7. Ours' = Ours /\ InWindow' = InWindow
  <2>1. Same(W("reason"))
    BY <1>2, SameEnds DEF Same
  <2> QED BY <1>2, <2>1, OursSame DEF InWindow
<1>8. ASSUME todo = <<"STATUS">>, Answered', ~answer'.running PROVE Ours' /\ Resting'
  <2>1. waiting /\ reply.sess = sess /\ answer' = reply
    BY <1>2, <1>3, <1>8 DEF Answered
  <2>2. Ours
    BY <1>3, <1>8, <2>1 DEF InService, Answered
  <2>3. \A i \in 1..Len(rx) : rx[i].sess # sess
    BY <1>4, <2>1 DEF Asked
  <2>4. Granted(4)
    <3>1. Len(todo) < 4
      BY <1>3, <1>8, RemainingFacts
    <3> QED BY <3>1 DEF Granted
  <2>5. rx = <<>>
    <3>1. Len(rx) \in Nat /\ ~(1 \in 1..Len(rx)) /\ rx \in Seq(Requests)
      <4>1. rx \in Seq(Requests)
        BY DEF FirmwareInv, RawTypes
      <4> QED BY <1>3, <2>3, <2>4, <4>1
    <3> QED BY <3>1
  <2> QED BY <1>2, <1>7, <2>2, <2>5 DEF Resting
<1>9. Copied'
  BY <1>2, <1>3 DEF Copied
<1>10. /\ Granted(4)' => event_limit' = limit' /\ \A i \in 1..Len(rx') : rx'[i].sess = sess'
       /\ Granted(2)' => owner' = sess' /\ (start_pending \/ InWindow \/ Ours)'
  BY <1>2, <1>3, <1>6, <1>7
<1> QED BY <1>2, <1>3, <1>5, <1>8, <1>9, <1>10 DEF CaptureInv

LEMMA CaptureRequest ==
    ASSUME FirmwareInv, Asked, CaptureInv, handle_request
    PROVE  CaptureInv'
<1>1. SUFFICES ASSUME kind = "capture", outcome \in {"none", "done"} PROVE CaptureInv'
  BY DEF CaptureInv, handle_request, toolvars
<1>2. PICK m : m = Head(rx)
  OBVIOUS
<1>3. /\ RawTypes /\ Flow /\ pc = "drain" /\ pc' = "reply" /\ stores = <<>> /\ rx # <<>>
      /\ stores' = Stores(m)
      /\ reply' = [type |-> m.type, sess |-> m.sess, ok |-> ~Refused(m), running |-> status_running]
      /\ start_pending' = CASE m.type \in {"STOP", "FORCE_SAFE"} -> FALSE
                            [] m.type = "START" /\ ~Refused(m) -> TRUE
                            [] OTHER -> start_pending
      /\ event_limit' = IF m.type = "CONFIG" /\ ~Refused(m) THEN m.limit ELSE event_limit
      /\ owner' = IF m.type = "START" /\ ~Refused(m) THEN m.sess ELSE owner
      /\ rx' = Tail(rx)
      /\ UNCHANGED <<mem, seen, sess, kind, todo, waiting, limit, snap, outcome, answer>>
  BY <1>2 DEF FirmwareInv, handle_request, Ready, toolvars
<1>4. PICK n \in Nat : /\ n = Len(rx) /\ n >= 1 /\ m \in Requests /\ m = rx[1]
                       /\ Len(rx') = n - 1 /\ rx' \in Seq(Requests)
                       /\ \A i \in 1..(n - 1) : i + 1 \in 1..n /\ rx'[i] = rx[i + 1]
  <2>1. rx \in Seq(Requests) /\ rx # <<>> /\ rx' = Tail(rx)
    BY <1>3 DEF RawTypes
  <2> QED BY <1>2, <2>1
<1>5. ~capture_running /\ ~InWindow /\ ~InWindow'
  BY <1>3 DEF Flow, InWindow
<1>6. /\ todo \in Remaining
      /\ Granted(4) => event_limit = limit /\ \A i \in 1..Len(rx) : rx[i].sess = sess
      /\ Granted(2) => owner = sess /\ (start_pending \/ Ours)
      /\ ~(todo = <<>> \/ (todo = <<"STATUS">> /\ Answered /\ ~answer.running))
      /\ Copied /\ (todo # <<>> => snap = <<>>)
      /\ outcome = "none"
  <2>1. ~Resting
    BY <1>3 DEF Resting
  <2> QED BY <1>1, <1>5, <2>1 DEF CaptureInv
<1>7. ASSUME m.sess = sess
      PROVE  m.type = Head(todo) /\ m.limit = limit /\ rx' = <<>> /\ ~Answered
  <2>1. 1 = Len(rx) /\ m.type = Head(todo) /\ m.limit = limit /\ answer = NoAnswer
    BY <1>4, <1>6, <1>7 DEF Asked
  <2>2. rx' \in Seq(Requests) /\ Len(rx') = 0
    <3>1. n = 1
      BY <1>4, <2>1
    <3> QED BY <1>4, <3>1
  <2> QED BY <2>1, <2>2 DEF Answered
<1>8. /\ InService' <=> m.sess = sess /\ ~Refused(m)
      /\ Answered' = Answered
      /\ \A c : Granted(c)' => Granted(c) \/ (Len(todo) = c /\ m.sess = sess /\ ~Refused(m))
  BY <1>3 DEF InService, Answered, Granted
<1>9. Granted(4) => m.sess = sess
  BY <1>4, <1>6
<1>10. /\ Len(todo) \in 1..4
       /\ Len(todo) = 4 => Head(todo) = "CONFIG"
       /\ Len(todo) = 3 => Head(todo) = "CLEAR"
       /\ Len(todo) = 2 => Head(todo) = "START"
       /\ Len(todo) = 1 => Head(todo) = "STATUS"
       /\ todo = <<"STATUS">> => Len(todo) = 1
  BY <1>6, RemainingFacts
<1>a. PICK l \in 1..4 : l = Len(todo)
  BY <1>10
<1>11. Granted(2) => Granted(4)
  BY <1>a DEF Granted
<1>12. ASSUME Granted(4)' PROVE event_limit' = limit' /\ \A i \in 1..Len(rx') : rx'[i].sess = sess'
  <2>1. m.sess = sess
    BY <1>8, <1>9, <1>12
  <2>2. CASE Granted(4)
    BY <1>3, <1>6, <1>7, <2>1, <2>2
  <2>3. CASE Len(todo) = 4 /\ ~Refused(m)
    BY <1>3, <1>7, <1>10, <2>1, <2>3
  <2> QED BY <1>8, <1>12, <2>2, <2>3
<1>13. ASSUME m.type = "STATUS" \/ Refused(m), Ours PROVE Ours'
  <2>1. \A a : a \notin {W("event_count"), W("final"), W("limit")} => Same(a)
    BY <1>3, <1>4, <1>5, <1>13, RequestWords
  <2>2. Same(W("reason"))
    BY <2>1, Apart
  <2> QED BY <1>3, <1>13, <2>2, OursSame
<1>14. ASSUME Granted(2)' PROVE owner' = sess' /\ (start_pending \/ InWindow \/ Ours)'
  <2>1. m.sess = sess
    BY <1>8, <1>9, <1>11, <1>14
  <2>2. l <= 2
    <3>1. Granted(2) \/ l = 2
      BY <1>8, <1>14, <1>a
    <3>2. ASSUME Granted(2) PROVE l < 2 \/ l = 2
      BY <1>a, <3>2 DEF Granted
    <3>3. l < 2 \/ l = 2
      BY <3>1, <3>2
    <3>4. l \in 1..4
      BY <1>a
    <3> QED BY <3>3, <3>4
  <2>3. m.type = "START" \/ m.type = "STATUS"
    <3>1. Len(todo) = 1 \/ Len(todo) = 2
      BY <1>a, <2>2
    <3> QED BY <1>7, <1>10, <2>1, <3>1
  <2>4. CASE m.type = "START" /\ ~Refused(m)
    BY <1>3, <2>1, <2>4
  <2>5. CASE m.type = "STATUS" \/ Refused(m)
    <3>1. Granted(2)
      BY <1>8, <1>7, <1>10, <1>14, <2>1, <2>5
    <3>2. owner' = owner /\ start_pending' = start_pending
      BY <1>3, <2>3, <2>5
    <3>3. owner = sess /\ (start_pending \/ Ours)
      BY <1>6, <3>1
    <3>4. owner' = sess'
      BY <1>3, <3>2, <3>3
    <3>5. start_pending' \/ Ours'
      BY <1>13, <2>5, <3>2, <3>3
    <3> QED BY <3>4, <3>5
  <2> QED BY <2>3, <2>4, <2>5
<1>15. ASSUME todo = <<"STATUS">>, InService', ~reply'.running PROVE Ours'
  <2>1. m.sess = sess /\ m.type = "STATUS"
    BY <1>7, <1>8, <1>10, <1>15
  <2>2. Granted(2)
    BY <1>10, <1>15 DEF Granted
  <2>3. ~start_pending
    BY <1>3, <1>15 DEF status_running, busy
  <2> QED BY <1>6, <1>13, <2>1, <2>2, <2>3
<1>16. Copied'
  BY <1>3, <1>6 DEF Copied
<1> QED BY <1>3, <1>6, <1>8, <1>12, <1>14, <1>15, <1>16 DEF CaptureInv

LEMMA CaptureTool ==
    ASSUME RawTypes, Asked, CaptureInv, Tool
    PROVE  CaptureInv'
<1>1. SUFFICES ASSUME (kind = "capture" /\ outcome \in {"none", "done"})' PROVE CaptureInv'
  BY DEF CaptureInv
<1>2. UNCHANGED <<mem, stores, pc, start_pending, event_limit, owner, seen, reply>>
  BY DEF Tool, Open, Request, Timeout, ReadAnswer, CopyWord, Validate, fwvars, locals, history
<1>3. /\ Resting' <=> (Resting /\ rx' = <<>>) \/ (stores = <<>> /\ rx' = <<>> /\ pc \in {"main", "drain"})
      /\ InWindow' = InWindow /\ (limit' = limit => Ours' = Ours)
  <2>1. Same(W("reason"))
    BY <1>2, SameEnds DEF Same
  <2> QED BY <1>2, <2>1, OursSame DEF Resting, InWindow
<1>4. ASSUME NEW k \in Commands, NEW n \in Limits(k), Open(k, n) PROVE CaptureInv'
  <2>1. /\ sess' = sess + 1 /\ answer' = NoAnswer /\ kind' = k /\ todo' = Script(k) /\ snap' = <<>>
        /\ outcome' = "none" /\ UNCHANGED rx
    BY <1>4 DEF Open, fwvars
  <2>2. todo' = <<"CONFIG", "CLEAR", "START", "STATUS">>
    BY <1>1, <2>1 DEF Script
  <2>3. todo' \in Remaining /\ Len(todo') = 4
    BY <2>2 DEF Remaining
  <2>4. todo' # <<>> /\ todo' # <<"STATUS">>
    BY <2>3, RemainingFacts
  <2>5. ~InService'
    BY <1>2, <2>1, RawFacts DEF Asked, InService, RawTypes
  <2>6. ~Answered'
    BY <2>1 DEF Answered
  <2>7. ~Granted(4)' /\ ~Granted(2)'
    BY <2>3, <2>5, <2>6 DEF Granted
  <2>8. Copied'
    BY <2>1 DEF Copied
  <2> QED BY <2>1, <2>3, <2>4, <2>5, <2>6, <2>7, <2>8 DEF CaptureInv
<1>5. ASSUME kind = "capture", outcome = "none"
      PROVE  /\ todo \in Remaining
             /\ Granted(4) => event_limit = limit /\ \A i \in 1..Len(rx) : rx[i].sess = sess
             /\ Granted(2) => owner = sess /\ (start_pending \/ InWindow \/ Ours)
             /\ todo = <<"STATUS">> /\ InService /\ ~reply.running => Ours
             /\ todo = <<>> \/ (todo = <<"STATUS">> /\ Answered /\ ~answer.running) => Ours /\ Resting
             /\ Copied /\ (todo # <<>> => snap = <<>>)
  BY <1>5 DEF CaptureInv
<1>6. CASE Request
  <2>1. PICK q : q = [type |-> Head(todo), limit |-> limit, sess |-> sess]
    OBVIOUS
  <2>2. /\ kind = "capture" /\ outcome = "none" /\ outcome' = "none" /\ todo # <<>> /\ ~waiting
        /\ rx' = Append(rx, q) /\ q.sess = sess /\ answer' = NoAnswer
        /\ UNCHANGED <<sess, kind, todo, limit, snap>>
    BY <1>1, <1>6, <2>1 DEF Request
  <2>3. answer = NoAnswer
    BY <2>2 DEF Asked
  <2>4. /\ InService' = InService /\ Answered' = Answered /\ ~Answered
        /\ Granted(4)' = Granted(4) /\ Granted(2)' = Granted(2)
    BY <1>2, <2>2, <2>3 DEF InService, Answered, Granted
  <2>5. ASSUME Granted(4) PROVE \A i \in 1..Len(rx') : rx'[i].sess = sess
    <3>1. rx \in Seq(Requests) /\ q \in Requests
      BY <2>1, <2>2 DEF RawTypes, Requests
    <3>2. \A i \in 1..Len(rx') : i = Len(rx) + 1 \/ i \in 1..Len(rx)
      BY <2>2, <3>1
    <3>3. rx'[Len(rx) + 1] = q /\ \A i \in 1..Len(rx) : rx'[i] = rx[i]
      BY <2>2, <3>1
    <3> QED BY <1>5, <2>2, <2>5, <3>2, <3>3
  <2>6. Copied'
    BY <1>2, <1>5, <2>2 DEF Copied
  <2>7. Ours' = Ours
    BY <1>3, <2>2
  <2> QED BY <1>2, <1>3, <1>5, <2>2, <2>4, <2>5, <2>6, <2>7 DEF CaptureInv
<1>7. CASE Timeout
  BY <1>1, <1>7 DEF Timeout, Fail
<1>8. CASE ReadAnswer
  <2>1. /\ kind = "capture" /\ outcome = "none" /\ waiting /\ answer # NoAnswer /\ answer' = NoAnswer
        /\ answer.ok /\ (answer.type = "STATUS" => ~answer.running)
        /\ todo' = Tail(todo) /\ outcome' = "none"
        /\ UNCHANGED <<rx, sess, kind, limit, snap>>
    <3>1. outcome = "none" /\ waiting /\ answer # NoAnswer /\ answer' = NoAnswer
          /\ UNCHANGED <<rx, sess, kind, limit>>
      BY <1>8 DEF ReadAnswer, fwvars
    <3>2. Accepts(answer)
      BY <1>1, <1>8 DEF ReadAnswer, Fail
    <3> QED BY <1>1, <1>8, <3>1, <3>2 DEF ReadAnswer, Accepts, Reads
  <2>2. todo # <<>> /\ reply.sess # sess /\ answer.type = Head(todo)
    BY <2>1 DEF Asked
  <2>3. Answered /\ ~InService /\ ~InService' /\ ~Answered'
    BY <1>2, <2>1, <2>2 DEF Answered, InService
  <2>4. /\ Len(todo) \in 1..4 /\ todo' \in Remaining /\ Len(todo') = Len(todo) - 1
        /\ Len(todo) = 1 => todo = <<"STATUS">> /\ Head(todo) = "STATUS"
        /\ todo' = <<>> => Len(todo') = 0
    <3>1. todo \in Remaining /\ todo # <<>>
      BY <1>5, <2>1, <2>2
    <3>2. /\ Len(todo) \in 0..4 /\ Len(todo) # 0
          /\ Tail(todo) \in Remaining /\ Len(Tail(todo)) = Len(todo) - 1
      BY <3>1, RemainingFacts
    <3>3. Len(todo) = 1 => todo = <<"STATUS">> /\ Head(todo) = "STATUS"
      BY <3>1, RemainingFacts
    <3> QED BY <2>1, <3>2, <3>3
  <2>5. (Granted(4)' => Granted(4)) /\ (Granted(2)' => Granted(2))
    BY <2>3, <2>4 DEF Granted
  <2>6. ASSUME todo' = <<>> PROVE Ours /\ Resting
    BY <1>5, <2>1, <2>2, <2>3, <2>4, <2>6
  <2>7. Copied' /\ snap' = <<>>
    BY <1>5, <2>1, <2>2 DEF Copied
  <2>8. Ours' = Ours /\ (Resting => Resting')
    BY <1>2, <1>3, <2>1 DEF Resting
  <2> QED BY <1>2, <1>3, <1>5, <2>1, <2>3, <2>4, <2>5, <2>6, <2>7, <2>8 DEF CaptureInv
<1>9. CASE CopyWord
  <2>1. /\ kind = "capture" /\ outcome = "none" /\ outcome' = "none" /\ todo = <<>>
        /\ snap' = Append(snap, mem[Layout[Len(snap) + 1]]) /\ Len(snap) < Len(Layout)
        /\ UNCHANGED <<rx, sess, kind, todo, waiting, limit, answer>>
    BY <1>1, <1>9 DEF CopyWord, fwvars
  <2>2. /\ InService' = InService /\ Answered' = Answered
        /\ Granted(4)' = Granted(4) /\ Granted(2)' = Granted(2)
    BY <1>2, <2>1 DEF InService, Answered, Granted
  <2>3. Copied'
    <3>1. PICK w : w = mem[Layout[Len(snap) + 1]]
      OBVIOUS
    <3>2. snap \in Seq(Nat) /\ w \in Nat
      <4>1. Len(snap) + 1 \in 1..(8 + 2 * Capacity)
        BY <2>1, LayoutFacts, RawFacts DEF RawTypes
      <4>2. Layout[Len(snap) + 1] \in Addr
        BY <4>1, LayoutFacts DEF Addr
      <4> QED BY <3>1, <4>2 DEF RawTypes
    <3>3. /\ Len(snap') = Len(snap) + 1 /\ snap'[Len(snap) + 1] = w /\ Len(snap) \in Nat
          /\ \A i \in 1..Len(snap) : snap'[i] = snap[i]
      BY <2>1, <3>1, <3>2
    <3>4. ASSUME NEW i \in 1..Len(snap') PROVE snap'[i] = mem[Layout[i]]
      <4>1. i = Len(snap) + 1 \/ i \in 1..Len(snap)
        BY <3>3
      <4> QED BY <1>5, <2>1, <3>1, <3>3, <4>1 DEF Copied
    <3> QED BY <1>2, <3>4 DEF Copied
  <2>4. Ours' = Ours /\ (Resting => Resting')
    BY <1>2, <1>3, <2>1 DEF Resting
  <2> QED BY <1>2, <1>3, <1>5, <2>1, <2>2, <2>3, <2>4 DEF CaptureInv
<1>10. CASE Validate
  <2>1. /\ kind = "capture" /\ outcome = "none" /\ outcome' = "done" /\ todo = <<>>
        /\ Len(snap) = Len(Layout)
        /\ UNCHANGED <<rx, sess, kind, todo, waiting, limit, answer, snap>>
    BY <1>1, <1>10 DEF Validate, Fail, fwvars
  <2>2. /\ InService' = InService /\ Answered' = Answered
        /\ Granted(4)' = Granted(4) /\ Granted(2)' = Granted(2)
    BY <1>2, <2>1 DEF InService, Answered, Granted
  <2>3. Copied'
    BY <1>2, <1>5, <2>1 DEF Copied
  <2>4. Ours' = Ours /\ (Resting => Resting')
    BY <1>2, <1>3, <2>1 DEF Resting
  <2> QED BY <1>2, <1>3, <1>5, <2>1, <2>2, <2>3, <2>4 DEF CaptureInv
<1> QED BY <1>4, <1>6, <1>7, <1>8, <1>9, <1>10 DEF Tool

LEMMA CaptureStep ==
    ASSUME FirmwareInv, FirmwareInv', Asked, CaptureInv, [RawNext]_rawvars
    PROVE  CaptureInv'
<1>1. RawTypes
  BY DEF FirmwareInv
<1> QED BY <1>1, CaptureFirmware, CaptureRequest, CaptureRespond, CaptureTool DEF RawNext, Firmware
------------------------------------------------------------------------------
(* The words of a copied block.                                                 *)
LEMMA FieldIs ==
    ASSUME Copied, Len(snap) = Len(Layout), NEW f, NEW k, <<f, k>> \in Addr
    PROVE  Field(f, k) = mem[<<f, k>>]
<1>1. \E i \in DOMAIN Layout : Layout[i] = <<f, k>>
  BY DEF Addr
<1>2. PICK j \in DOMAIN Layout : /\ j = CHOOSE i \in DOMAIN Layout : Layout[i] = <<f, k>>
                                 /\ Layout[j] = <<f, k>>
  BY <1>1
<1>3. j \in 1..Len(snap)
  BY LayoutFacts
<1>4. snap[j] = mem[<<f, k>>]
  BY <1>2, <1>3 DEF Copied
<1> QED BY <1>2, <1>4 DEF Field

LEMMA RunningIsFirst ==
    /\ Layout[1] = W("running")
    /\ Field("running", 0) = snap[1]
<1>1. 1 \in 1..8 /\ 1 \in DOMAIN Layout
  BY LayoutFacts, RawFacts
<1>2. Layout[1] = <<"running", 0>>
  BY <1>1, LayoutFacts DEF Header
<1>3. \A i \in DOMAIN Layout :
        Layout[i] = IF i <= 8 THEN <<Header[i], 0>>
                    ELSE <<IF i % 2 = 1 THEN "ts" ELSE "raw", (i - 9) \div 2>>
  BY Zenon DEF Layout
<1>4. ASSUME NEW i \in DOMAIN Layout, Layout[i] = <<"running", 0>> PROVE i = 1
  <2>1. i \in 1..(8 + 2 * Capacity)
    BY LayoutFacts
  <2>2. CASE i <= 8
    <3>1. i \in 1..8
      BY <2>1, <2>2, RawFacts
    <3>2. <<Header[i], 0>> = <<"running", 0>>
      BY <1>4, <3>1, LayoutFacts
    <3>3. Header[i] = "running"
      BY <3>2
    <3> QED BY <3>1, <3>3 DEF Header
  <2>3. CASE ~(i <= 8)
    <3>1. Layout[i] = <<IF i % 2 = 1 THEN "ts" ELSE "raw", (i - 9) \div 2>>
      BY <1>3, <2>3
    <3>2. (IF i % 2 = 1 THEN "ts" ELSE "raw") = "running"
      BY <1>4, <3>1
    <3> QED BY <3>2
  <2> QED BY <2>2, <2>3
<1>5. (CHOOSE i \in DOMAIN Layout : Layout[i] = <<"running", 0>>) = 1
  BY <1>1, <1>2, <1>4
<1> QED BY <1>2, <1>5 DEF Field, W

(* A block whose window is over and whose stores are done shows the window.     *)
LEMMA ShowsWindow ==
    ASSUME FirmwareInv, stores = <<>>, Ends(W("reason"), EVENT_LIMIT), Copied,
           Len(snap) = Len(Layout)
    PROVE  /\ Shows(Field) /\ Field("reason", 0) = EVENT_LIMIT
           /\ Field("event_count", 0) = Len(seen) /\ Field("stop", 0) = seen[Len(seen)][1]
<1>1. RawTypes /\ Whole
  BY DEF FirmwareInv, Published
<1>2. /\ Field("event_count", 0) = mem[W("event_count")] /\ Field("initial", 0) = mem[W("initial")]
      /\ Field("reason", 0) = mem[W("reason")] /\ Field("stop", 0) = mem[W("stop")]
  BY HeaderWords, FieldIs DEF W
<1>3. \A k \in 0..(Capacity - 1) : Field("ts", k) = mem[<<"ts", k>>] /\ Field("raw", k) = mem[<<"raw", k>>]
  BY Addresses, FieldIs
<1>4. /\ mem[W("reason")] = EVENT_LIMIT /\ mem[W("event_count")] = Len(seen)
      /\ mem[W("stop")] = seen[Len(seen)][1] /\ mem[W("initial")] = base
      /\ \A i \in 1..Len(seen) : /\ mem[<<"ts", i - 1>>] = seen[i][1]
                                 /\ mem[<<"raw", i - 1>>] = seen[i][2]
  BY <1>1, AtRest DEF Whole, Recorded
<1>5. PICK n \in Nat : n = Len(seen) /\ n <= Capacity
  <2>1. event_count \in 0..Capacity /\ event_count = Len(seen)
    BY <1>1 DEF RawTypes, Whole
  <2> QED BY <2>1, RawFacts
<1>6. ASSUME NEW i \in 1..n
      PROVE  /\ Field("ts", i - 1) = seen[i][1] /\ Field("raw", i - 1) = seen[i][2]
             /\ Field("raw", i - 1) # IF i = 1 THEN Field("initial", 0) ELSE Field("raw", i - 2)
  <2>1. PICK k \in 0..(Capacity - 1) : k = i - 1
    BY <1>5, RawFacts
  <2>2. Field("ts", i - 1) = seen[i][1] /\ Field("raw", i - 1) = seen[i][2]
    BY <1>3, <1>4, <1>5, <2>1
  <2>3. seen[i][2] # IF i = 1 THEN base ELSE seen[i - 1][2]
    BY <1>1, <1>5 DEF Whole, Changes
  <2>4. ASSUME i # 1 PROVE Field("raw", i - 2) = seen[i - 1][2]
    <3>1. PICK j \in 1..n : j = i - 1 /\ j - 1 = i - 2
      BY <1>5, <2>4
    <3>2. j - 1 \in 0..(Capacity - 1)
      BY <1>5, RawFacts
    <3>3. Field("raw", j - 1) = seen[j][2]
      BY <1>3, <1>4, <1>5, <3>2
    <3> QED BY <3>1, <3>3
  <2> QED BY <1>2, <1>4, <2>2, <2>3, <2>4
<1>7. Shows(Field)
  BY <1>2, <1>4, <1>5, <1>6 DEF Shows
<1> QED BY <1>2, <1>4, <1>7
------------------------------------------------------------------------------
(* A dump begun in calm.                                                        *)
LEMMA DumpFirmware ==
    ASSUME FirmwareInv, DumpInv, Firmware \/ InputMoves \/ UNCHANGED rawvars
    PROVE  DumpInv'
<1>1. SUFFICES ASSUME kind = "dump", calm, outcome \in {"none", "done"} PROVE DumpInv'
  BY DEF DumpInv, Firmware, Store, Arm, Edge, WindowEnd, PollHost, handle_request, Respond,
         DrainEnd, InputMoves, rawvars, toolvars
<1>2. UNCHANGED <<kind, calm, outcome, todo, waiting, snap>>
  BY DEF Firmware, Store, Arm, Edge, WindowEnd, PollHost, handle_request, Respond,
         DrainEnd, InputMoves, rawvars, toolvars
<1>3. /\ todo = <<>> /\ ~waiting /\ rx = <<>> /\ ~start_pending /\ pc \notin {"drain", "reply"}
      /\ pc = "window" => mem[W("running")] = 1
      /\ snap # <<>> /\ snap[1] = 0 => pc = "main" /\ stores = <<>> /\ Copied
      /\ outcome = "done" => Len(snap) = Len(Layout) /\ snap[1] = 0
  BY <1>1 DEF DumpInv
<1>4. ~Arm /\ ~PollHost /\ ~handle_request /\ ~Respond /\ ~DrainEnd
  BY <1>3 DEF Arm, PollHost, handle_request, Respond, DrainEnd, Ready
<1>5. CASE Store
  <2>1. /\ stores # <<>> /\ UNCHANGED <<rx, start_pending, pc>>
        /\ mem' = [mem EXCEPT ![Head(stores)[1]] = Head(stores)[2]]
    BY <1>5 DEF Store, locals
  <2>2. ASSUME pc = "window" PROVE mem'[W("running")] = 1
    <3>1. /\ mem \in [Addr -> Nat] /\ stores \in Seq(Addr \X Nat)
          /\ \A i \in 1..Len(stores) : stores[i][1] = W("running") => stores[i][2] = 1
      BY <2>2 DEF FirmwareInv, RawTypes, Gate, InWindow
    <3>2. Head(stores)[1] = W("running") => Head(stores)[2] = 1
      <4>1. 1 \in 1..Len(stores) /\ Head(stores) = stores[1]
        BY <2>1, <3>1
      <4> QED BY <3>1, <4>1
    <3> QED BY <1>3, <2>1, <2>2, <3>1, <3>2, HeaderWords
  <2> QED BY <1>2, <1>3, <2>1, <2>2 DEF DumpInv
<1>6. CASE Edge
  <2>1. /\ pc = "window" /\ pc' \in {"window", "publish"} /\ UNCHANGED <<rx, start_pending, mem>>
    BY <1>6 DEF Edge, Ready
  <2> QED BY <1>2, <1>3, <2>1 DEF DumpInv
<1>7. CASE WindowEnd
  <2>1. pc = "publish" /\ pc' = "main" /\ UNCHANGED <<rx, start_pending, mem>>
    BY <1>7 DEF WindowEnd, Ready
  <2> QED BY <1>2, <1>3, <2>1 DEF DumpInv
<1>8. CASE InputMoves \/ UNCHANGED rawvars
  <2>1. UNCHANGED <<rx, start_pending, pc, mem, stores>>
    BY <1>8 DEF InputMoves, rawvars, locals
  <2> QED BY <1>2, <1>3, <2>1 DEF DumpInv, Copied
<1> QED BY <1>4, <1>5, <1>6, <1>7, <1>8 DEF Firmware

LEMMA DumpTool ==
    ASSUME FirmwareInv, DumpInv, Tool
    PROVE  DumpInv'
<1>1. SUFFICES ASSUME (kind = "dump" /\ calm /\ outcome \in {"none", "done"})' PROVE DumpInv'
  BY DEF DumpInv
<1>2. UNCHANGED <<mem, stores, pc, start_pending>>
  BY DEF Tool, Open, Request, Timeout, ReadAnswer, CopyWord, Validate, fwvars, locals
<1>3. ASSUME NEW k \in Commands, NEW n \in Limits(k), Open(k, n) PROVE DumpInv'
  <2>1. /\ kind' = k /\ todo' = Script(k) /\ waiting' = FALSE /\ snap' = <<>> /\ outcome' = "none"
        /\ rx' = rx
        /\ calm' = /\ rx = <<>> /\ ~start_pending /\ pc \notin {"drain", "reply"}
                   /\ pc = "window" => mem[W("running")] = 1
    BY <1>3 DEF Open, fwvars
  <2>2. todo' = <<>>
    BY <1>1, <2>1 DEF Script
  <2> QED BY <1>1, <1>2, <2>1, <2>2 DEF DumpInv
<1>4. ASSUME kind = "dump", calm, outcome = "none"
      PROVE  /\ todo = <<>> /\ ~waiting /\ rx = <<>> /\ ~start_pending /\ pc \notin {"drain", "reply"}
             /\ pc = "window" => mem[W("running")] = 1
             /\ snap # <<>> /\ snap[1] = 0 => pc = "main" /\ stores = <<>> /\ Copied
  BY <1>4 DEF DumpInv
<1>5. ~Request /\ ~Timeout /\ ~ReadAnswer
  BY <1>1, <1>4 DEF Request, Timeout, ReadAnswer, Fail
<1>6. CASE CopyWord
  <2>1. /\ kind = "dump" /\ calm /\ outcome = "none" /\ outcome' = "none"
        /\ snap' = Append(snap, mem[Layout[Len(snap) + 1]]) /\ Len(snap) < Len(Layout)
        /\ UNCHANGED <<rx, todo, waiting>>
    BY <1>1, <1>6 DEF CopyWord, fwvars
  <2>2. PICK w \in Nat : w = mem[Layout[Len(snap) + 1]]
    <3>1. Len(snap) + 1 \in 1..(8 + 2 * Capacity)
      BY <2>1, LayoutFacts, RawFacts DEF FirmwareInv, RawTypes
    <3>2. Layout[Len(snap) + 1] \in Addr
      BY <3>1, LayoutFacts DEF Addr
    <3> QED BY <3>2 DEF FirmwareInv, RawTypes
  <2>3. PICK n \in Nat : /\ n = Len(snap) /\ Len(snap') = n + 1 /\ snap'[n + 1] = w
                         /\ \A i \in 1..n : snap'[i] = snap[i]
                         /\ snap = <<>> <=> n = 0
    <3>1. snap \in Seq(Nat)
      BY DEF FirmwareInv, RawTypes
    <3> QED BY <2>1, <2>2, <3>1
  <2>4. ASSUME snap'[1] = 0 PROVE pc = "main" /\ stores = <<>> /\ Copied
    <3>1. CASE n = 0
      <4>1. mem[W("running")] = 0
        BY <2>2, <2>3, <2>4, <3>1, RunningIsFirst
      <4>2. pc = "main" /\ stores = <<>>
        BY <1>4, <2>1, <4>1 DEF FirmwareInv, RawTypes, Gate
      <4> QED BY <2>3, <3>1, <4>2 DEF Copied
    <3>2. CASE n # 0
      BY <1>4, <2>1, <2>3, <2>4, <3>2
    <3> QED BY <3>1, <3>2
  <2>5. ASSUME snap'[1] = 0 PROVE Copied'
    <3>1. \A i \in 1..(n + 1) : i = n + 1 \/ i \in 1..n
      OBVIOUS
    <3> QED BY <1>2, <2>2, <2>3, <2>4, <2>5, <3>1 DEF Copied
  <2> QED BY <1>2, <1>4, <2>1, <2>4, <2>5 DEF DumpInv
<1>7. CASE Validate
  <2>1. /\ kind = "dump" /\ calm /\ outcome = "none" /\ Len(snap) = Len(Layout) /\ snap[1] = 0
        /\ UNCHANGED <<rx, todo, waiting, snap>>
    <3>1. Field("running", 0) = 0
      BY <1>1, <1>7 DEF Validate, Fail
    <3> QED BY <1>1, <1>7, <3>1, RunningIsFirst DEF Validate, Fail, fwvars
  <2>2. snap # <<>>
    <3>1. Len(snap) # Len(<<>>)
      BY <2>1, LayoutFacts, RawFacts
    <3> QED BY <3>1
  <2> QED BY <1>2, <1>4, <2>1, <2>2 DEF DumpInv, Copied
<1> QED BY <1>3, <1>5, <1>6, <1>7 DEF Tool
------------------------------------------------------------------------------
RawInv == FirmwareInv /\ Asked /\ CaptureInv /\ DumpInv

LEMMA RawStart ==
    ASSUME RawInit
    PROVE  RawInv
<1>1. FirmwareInv
  BY FirmwareStart
<1>2. /\ rx = <<>> /\ reply = NoAnswer /\ sess = 0 /\ outcome = "error" /\ NoAnswer.sess = 0
      /\ Len(<<>>) = 0
  BY DEF RawInit, NoAnswer
<1>3. Asked
  BY <1>2 DEF Asked
<1> QED BY <1>1, <1>2, <1>3 DEF RawInv, CaptureInv, DumpInv

LEMMA RawStep ==
    ASSUME RawInv, [RawNext]_rawvars
    PROVE  RawInv'
<1>1. FirmwareInv /\ Asked /\ CaptureInv /\ DumpInv /\ RawTypes
  BY DEF RawInv, FirmwareInv
<1>2. FirmwareInv'
  BY <1>1, FirmwareStep
<1>3. Asked'
  BY <1>1, AskedStep
<1>4. CaptureInv'
  BY <1>1, <1>2, CaptureStep
<1>5. DumpInv'
  BY <1>1, DumpFirmware, DumpTool DEF RawNext
<1> QED BY <1>2, <1>3, <1>4, <1>5 DEF RawInv

LEMMA RawInvariant == RawSpec => []RawInv
<1>1. RawInit => RawInv
  BY RawStart
<1>2. RawInv /\ [RawNext]_rawvars => RawInv'
  BY RawStep
<1> QED BY <1>1, <1>2, PTL DEF RawSpec

(* A capture that succeeds reports the window its own START opened, stopped by  *)
(* its own limit, whatever requests of timed-out commands were still queued     *)
(* (hil_raw_cli.py capture, read_frozen_raw_capture).                           *)
THEOREM RawCaptureFaithful == RawSpec => []CaptureFaithful
<1>1. ASSUME RawInv PROVE CaptureFaithful
  <2>1. SUFFICES ASSUME outcome = "done", kind = "capture"
                 PROVE  /\ owner = sess /\ Field("event_count", 0) = limit
                        /\ Field("reason", 0) = EVENT_LIMIT /\ Shows(Field)
    BY DEF CaptureFaithful
  <2>2. /\ todo = <<>> /\ Len(snap) = Len(Layout) /\ Copied /\ Ours /\ Resting
        /\ Granted(2) => owner = sess
    BY <1>1, <2>1 DEF RawInv, CaptureInv
  <2>3. Granted(2)
    <3>1. Len(todo) = 0
      BY <2>2
    <3> QED BY <3>1 DEF Granted
  <2>4. FirmwareInv
    BY <1>1 DEF RawInv
  <2> QED BY <2>2, <2>3, <2>4, ShowsWindow DEF Ours, Resting
<1> QED BY <1>1, RawInvariant, PTL

(* A dump that races the window without a lock and was begun with no request    *)
(* on its way reports one whole window or no records (read_frozen_raw_capture:  *)
(* running is read first; publish_stop: it is cleared last).                    *)
THEOREM RawDumpFaithful == RawSpec => []DumpFaithful
<1>1. ASSUME RawInv PROVE DumpFaithful
  <2>1. SUFFICES ASSUME outcome = "done", kind = "dump", calm, Field("event_count", 0) > 0
                 PROVE  /\ Shows(Field) /\ Field("reason", 0) = EVENT_LIMIT
                        /\ Field("stop", 0) = seen[Len(seen)][1]
    BY DEF DumpFaithful
  <2>2. FirmwareInv /\ Len(snap) = Len(Layout) /\ snap[1] = 0
    BY <1>1, <2>1 DEF RawInv, DumpInv
  <2>3. snap # <<>>
    <3>1. Len(snap) # Len(<<>>)
      BY <2>2, LayoutFacts, RawFacts
    <3> QED BY <3>1
  <2>4. stores = <<>> /\ Copied
    BY <1>1, <2>1, <2>2, <2>3 DEF RawInv, DumpInv
  <2>5. Field("event_count", 0) = mem[W("event_count")]
    BY <2>2, <2>4, HeaderWords, FieldIs DEF W
  <2>6. ~Ends(W("event_count"), 0)
    BY <2>1, <2>4, <2>5, AtRest
  <2>7. Ends(W("reason"), EVENT_LIMIT)
    BY <2>2, <2>6 DEF FirmwareInv, Empty
  <2> QED BY <2>2, <2>4, <2>7, ShowsWindow
<1> QED BY <1>1, RawInvariant, PTL
=============================================================================
