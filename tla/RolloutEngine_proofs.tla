------------------------- MODULE RolloutEngine_proofs -------------------------
(***************************************************************************)
(* Theorems about RolloutEngine, for any number of calls, tensors, prompts, *)
(* samples and tokens: the worker and the scheduler keep in step although   *)
(* messages come at any turn of the loop, so rollouts are on-policy and the *)
(* flush with the last tensor is never refused.                             *)
(***************************************************************************)
EXTENDS RolloutEngine, TLAPS

MessageSet ==
  [op : {"release", "resume", "flush"}] \cup [op : {"generate"}, req : Req]
    \cup [op : {"update"}, tensor : 1 .. Tensors, value : Nat, flush : BOOLEAN]

\* Where the worker is.
Places ==
  /\ version \in Nat /\ call \in 0 .. Calls /\ next \in Nat \ {0}
  /\ at \in {"idle", "reload", "resume", "sync", "warmUp", "sample", "flush", "release"}
  /\ asked \in {"no", "sent", "answered"}
  /\ at # "idle" => call \in 1 .. Calls
  /\ at = "sync" => next \in 1 .. Tensors
  /\ at = "warmUp" => next \in 1 .. Prompts
  /\ at = "sample" => next \in 1 .. Prompts * Samples + 1

\* What the queues and the engine's memory hold.
Contents ==
  /\ inbox \in Seq(MessageSet) /\ todo \in Seq(MessageSet)
  /\ loop \in {"recv", "input", "batch", "run", "result"}
  /\ weights \in [1 .. Tensors -> Nat \cup {Lost}]
  /\ waiting \subseteq Req /\ running \subseteq Req /\ last \subseteq Req /\ batch \subseteq Req
  /\ left \in [Req -> Nat] /\ from \in [Req -> SUBSET (Nat \cup {Lost})]

TypeOK == Places /\ Contents

\* The k-th sample, the messages not yet handled, and whether the n-th message
\* sent is the request for the n-th sample.
Nth(k) == <<call, ((k - 1) \div Samples) + 1, ((k - 1) % Samples) + 1>>
Unhandled == Len(todo) + Len(inbox)

\* The requests the scheduler still has to work on.
Busy == loop \in {"run", "result"}
Queued == waiting \cup Filtered(running \cup last) \cup (IF Busy THEN batch ELSE {})

\* An awaited message is the only one under way; samples come in their order.
Messages ==
  /\ loop # "input" => todo = <<>>
  /\ at = "idle" => asked = "no"
  /\ at = "sample" =>
       /\ asked = "no" /\ Unhandled < next
       /\ \A j \in 1 .. Len(todo) : todo[j] = [op |-> "generate", req |-> Nth(next - 1 - Unhandled + j)]
       /\ \A j \in 1 .. Len(inbox) : inbox[j] = [op |-> "generate", req |-> Nth(next - 1 - Len(inbox) + j)]
  /\ at # "sample" /\ asked # "sent" => todo = <<>> /\ inbox = <<>>
  /\ at # "sample" /\ asked = "sent" =>
       \/ todo = <<>> /\ inbox = <<Message>>
       \/ todo = <<Message>> /\ inbox = <<>>
       \/ todo = <<>> /\ inbox = <<>> /\ at = "warmUp"

\* What is queued is unfinished, in one place, and what the worker waits for.
Queues ==
  /\ \A r \in Queued : left[r] > 0
  /\ waiting \cap Filtered(running \cup last) = {}
  /\ Busy => batch # {} /\ waiting \cap batch = {}
  /\ at = "sample" => \A r \in Queued : \E k \in 1 .. next - 1 - Unhandled : r = Nth(k)
  /\ at = "warmUp" => Queued \subseteq {WarmUp(next)}
  /\ at = "warmUp" /\ ~(asked = "sent" /\ Unhandled = 0) => Queued = {}
  /\ at \notin {"warmUp", "sample"} => Queued = {}

\* What has not been asked for is not finished.
Unasked ==
  /\ \A r \in Req : r[1] > call => left[r] > 0
  /\ at \in {"reload", "resume", "sync"} => \A r \in Req : r[1] = call => left[r] > 0
  /\ at = "warmUp" =>
       \A r \in Req :
         /\ r[1] = call
         /\ r[3] # 0 \/ r[2] > next \/ (r[2] = next /\ (asked = "no" \/ Unhandled > 0))
         => left[r] > 0
  /\ at = "sample" => \A k \in next - Unhandled .. Prompts * Samples : left[Nth(k)] > 0

\* How far the weights have come, and that nothing older than them is cached.
Weights ==
  /\ at = "sync" => /\ \A t \in 1 .. next - 1 : weights[t] = version
                    /\ asked = "answered" => weights[next] = version /\ (next = Tensors => cached = {})
  /\ at \in {"warmUp", "sample"} => /\ \A t \in 1 .. Tensors : weights[t] = version
                                    /\ cached \subseteq {version}
  /\ \A r \in Req : r[1] > call => from[r] = {}
  /\ RolloutsAreOnPolicy

\* Finished requests stay in running_batch until the turn after the last answer.
Emptied ==
  at \in {"idle", "reload", "resume", "sync"} \/ (at = "release" /\ asked = "answered") =>
    running = {} \/ (loop \in {"input", "batch"} /\ todo = <<>>)

IInv == TypeOK /\ Messages /\ Queues /\ Unasked /\ Weights /\ Emptied

-------------------------------------------------------------------------------
(* Samples and their numbers *)

LEMMA Bounds ==
  /\ Calls \in Nat \ {0} /\ Tensors \in Nat \ {0} /\ Prompts \in Nat \ {0}
  /\ Samples \in Nat \ {0} /\ MaxNew \in Nat \ {0}
BY EngineAssumption

LEMMA Product == Prompts * Samples \in Nat
BY EngineAssumption

\* Facts about sequences, each once.
LEMMA AppendToEmpty == ASSUME NEW m PROVE Append(<<>>, m) = <<m>>
OBVIOUS

LEMMA HeadTail ==
  ASSUME NEW M, NEW s \in Seq(M), s # <<>>
  PROVE  /\ Head(s) = s[1] /\ Head(s) \in M /\ Tail(s) \in Seq(M)
         /\ Len(s) \in Nat \ {0} /\ Len(Tail(s)) = Len(s) - 1
         /\ \A j \in 1 .. Len(Tail(s)) : Tail(s)[j] = s[j + 1] /\ j + 1 \in 1 .. Len(s)
OBVIOUS

LEMMA Appended ==
  ASSUME NEW M, NEW s \in Seq(M), NEW m \in M
  PROVE  /\ Append(s, m) \in Seq(M) /\ Len(s) \in Nat /\ Len(Append(s, m)) = Len(s) + 1
         /\ \A j \in 1 .. Len(Append(s, m)) : Append(s, m)[j] = IF j = Len(s) + 1 THEN m ELSE s[j]
OBVIOUS

LEMMA DivMod ==
  ASSUME NEW k \in Nat \ {0}
  PROVE  /\ (k - 1) \div Samples \in Nat /\ (k - 1) % Samples \in 0 .. Samples - 1
         /\ k - 1 = Samples * ((k - 1) \div Samples) + ((k - 1) % Samples)
<1> DEFINE m == k - 1
<1>1. m \in Nat /\ Samples \in Nat /\ Samples > 0 BY EngineAssumption
<1>2. /\ m \div Samples \in Nat /\ m % Samples \in 0 .. Samples - 1
      /\ m = Samples * (m \div Samples) + (m % Samples)
  BY <1>1
<1> QED BY <1>2

LEMMA NthInjective ==
  ASSUME NEW k \in Nat \ {0}, NEW l \in Nat \ {0}, Nth(k) = Nth(l)
  PROVE  k = l
<1>1. /\ (k - 1) \div Samples \in Nat /\ (k - 1) % Samples \in Nat
      /\ (l - 1) \div Samples \in Nat /\ (l - 1) % Samples \in Nat
      /\ Samples \in Nat
  BY DivMod, EngineAssumption
<1>2. (k - 1) \div Samples = (l - 1) \div Samples /\ (k - 1) % Samples = (l - 1) % Samples
  BY <1>1 DEF Nth
<1>3. k - 1 = l - 1 BY <1>2, DivMod
<1> QED BY <1>3

LEMMA NthIsASample ==
  ASSUME Places, at # "idle", NEW k \in 1 .. Prompts * Samples
  PROVE  Nth(k) \in Req /\ Nth(k) \in Sampled /\ Nth(k)[3] # 0 /\ Nth(k)[1] = call
<1> DEFINE q == (k - 1) \div Samples
           r == (k - 1) % Samples
<1>1. /\ Prompts \in Nat \ {0} /\ Samples \in Nat \ {0} /\ Calls \in Nat \ {0}
      /\ Prompts * Samples \in Nat /\ k \in Nat \ {0} /\ k <= Prompts * Samples
  BY EngineAssumption
<1>2. q \in Nat /\ r \in 0 .. Samples - 1 /\ k - 1 = Samples * q + r BY <1>1, DivMod
<1>3. Nth(k) = <<call, q + 1, r + 1>> BY DEF Nth
<1> HIDE DEF q, r
<1>4. q >= Prompts => Samples * q >= Samples * Prompts BY <1>1, <1>2
<1>5. Samples * Prompts = Prompts * Samples /\ Samples * q \in Nat BY <1>1, <1>2
<1>6. q < Prompts BY <1>1, <1>2, <1>4, <1>5
<1>7. q + 1 \in 1 .. Prompts /\ r + 1 \in 1 .. Samples /\ r + 1 \in 0 .. Samples BY <1>1, <1>2, <1>6
<1>8. call \in 1 .. Calls BY <1>1 DEF Places
<1> QED BY <1>3, <1>7, <1>8 DEF Req, Sampled

LEMMA WarmUpIsARequest ==
  ASSUME Places, at = "warmUp"
  PROVE  /\ WarmUp(next) \in Req /\ WarmUp(next)[1] = call /\ WarmUp(next)[2] = next
         /\ WarmUp(next)[3] = 0
<1>1. call \in 1 .. Calls /\ next \in 1 .. Prompts BY DEF Places
<1>2. 0 \in 0 .. Samples
  <2>1. Samples \in Nat BY Bounds
  <2> QED BY <2>1
<1> QED BY <1>1, <1>2 DEF Req, WarmUp

LEMMA InitIInv == Init => IInv
<1> SUFFICES ASSUME Init PROVE IInv
  OBVIOUS
<1>1. \A r \in Req : left[r] \in Nat \ {0} /\ from[r] = {} BY EngineAssumption DEF Init
<1>2. TypeOK
  <2>1. Places BY EngineAssumption DEF Init, Places
  <2>2. inbox \in Seq(MessageSet) /\ todo \in Seq(MessageSet) BY DEF Init
  <2>3. left \in [Req -> Nat] /\ from \in [Req -> SUBSET (Nat \cup {Lost})]
    BY EngineAssumption DEF Init
  <2> QED BY <2>1, <2>2, <2>3 DEF Init, Contents, TypeOK
<1>3. Messages BY DEF Init, Messages
<1>4. Queues BY DEF Init, Queues, Queued, Busy, Filtered
<1>5. Unasked BY <1>1 DEF Init, Unasked
<1>6. Weights BY <1>1 DEF Init, Weights, RolloutsAreOnPolicy
<1>7. Emptied BY DEF Init, Emptied
<1> QED BY <1>2, <1>3, <1>4, <1>5, <1>6, <1>7 DEF IInv
-------------------------------------------------------------------------------
(* The worker *)

LEMMA CallIInv == ASSUME IInv, Call PROVE IInv'
<1> USE DEF Call, queue, memory
<1>1. /\ asked = "no" /\ todo = <<>> /\ inbox = <<>> /\ Queued = {}
      /\ call' = call + 1 /\ call' \in 1 .. Calls /\ at' \in {"reload", "resume"}
  BY Bounds DEF IInv, TypeOK, Places, Messages, Queues
<1>2. TypeOK' BY <1>1 DEF IInv, TypeOK, Places, Contents
<1>3. Messages' BY <1>1 DEF IInv, Messages
<1>4. Queued' = Queued BY DEF Queued, Busy, Filtered
<1>5. Queues' BY <1>1, <1>4 DEF IInv, Queues, Queued, Filtered, Busy
<1>6. \A r \in Req : r[1] \in Nat /\ (r[1] >= call' => r[1] > call) BY <1>1 DEF Req, IInv, TypeOK, Places
<1>7. Unasked' BY <1>1, <1>6 DEF IInv, Unasked, TypeOK, Places
<1>8. Weights' BY <1>1, <1>6 DEF IInv, Weights, RolloutsAreOnPolicy, TypeOK, Places
<1>9. Emptied' BY <1>1 DEF IInv, Emptied
<1> QED BY <1>2, <1>3, <1>5, <1>7, <1>8, <1>9 DEF IInv

LEMMA MessageType ==
  ASSUME TypeOK, at \in {"reload", "resume", "sync", "warmUp", "flush", "release"}
  PROVE  Message \in MessageSet
<1>1. CASE at = "sync" BY <1>1 DEF Message, UpdateMessage, MessageSet, TypeOK, Places
<1>2. CASE at = "warmUp" BY <1>2, WarmUpIsARequest DEF Message, MessageSet, TypeOK
<1>3. CASE at \in {"reload", "resume", "flush", "release"} BY <1>3 DEF Message, MessageSet
<1> QED BY <1>1, <1>2, <1>3

LEMMA SendIInv == ASSUME IInv, Send PROVE IInv'
<1> USE DEF Send, worker, queue, memory
<1>1. /\ at \in {"reload", "resume", "sync", "warmUp", "flush", "release"} /\ asked = "no"
      /\ todo = <<>> /\ inbox = <<>> /\ Queued = {} /\ asked' = "sent"
  BY DEF IInv, Messages, Queues
<1>2. inbox' = <<Message>> BY <1>1, AppendToEmpty
<1>3. Message' = Message BY DEF Message, UpdateMessage, WarmUp
<1>4. TypeOK'
  <2>1. inbox' \in Seq(MessageSet) BY <1>1, <1>2, MessageType DEF IInv
  <2>2. Places' BY <1>1 DEF IInv, TypeOK, Places
  <2> QED BY <2>1, <2>2 DEF IInv, TypeOK, Contents
<1>5. Messages' BY <1>1, <1>2, <1>3 DEF IInv, Messages
<1>6. Queued' = Queued /\ Unhandled' = 1
  <2>1. Queued' = Queued BY DEF Queued, Busy, Filtered
  <2>2. Len(todo') = 0 /\ Len(inbox') = 1 BY <1>1, <1>2
  <2> QED BY <2>1, <2>2 DEF Unhandled
<1>7. Queues' BY <1>1, <1>6 DEF IInv, Queues, Queued, Filtered, Busy
<1>8. Unasked' BY <1>1, <1>6 DEF IInv, Unasked
<1>9. Weights' BY <1>1 DEF IInv, Weights, RolloutsAreOnPolicy
<1>10. Emptied' BY <1>1 DEF IInv, Emptied
<1> QED BY <1>4, <1>5, <1>7, <1>8, <1>9, <1>10 DEF IInv
\* After an answer nothing is under way.
LEMMA Answered ==
  ASSUME IInv, Proceed
  PROVE  /\ at # "sample" /\ at # "idle" /\ todo = <<>> /\ inbox = <<>> /\ Queued = {}
         /\ Queued' = Queued /\ Unhandled' = 0 /\ asked' = "no"
         /\ loop' = loop /\ todo' = todo /\ inbox' = inbox
<1>1. at # "sample" /\ at # "idle" /\ todo = <<>> /\ inbox = <<>> /\ Queued = {}
  BY DEF Proceed, IInv, Messages, Queues
<1>2. Queued' = Queued BY DEF Proceed, queue, Queued, Busy, Filtered
<1>3. Unhandled' = 0 BY <1>1 DEF Proceed, Unhandled
<1> QED BY <1>1, <1>2, <1>3 DEF Proceed

LEMMA ProceedIInv == ASSUME IInv, Proceed PROVE IInv'
<1> USE DEF memory, queue, Goto
<1>1. /\ asked = "answered" /\ UNCHANGED <<version, call, memory, queue>>
  BY DEF Proceed
<1>2. /\ at \in {"reload", "resume", "sync", "warmUp", "flush", "release"}
      /\ at = "reload" => at' = "resume" /\ next' = 1
      /\ at = "resume" => at' = "sync" /\ next' = 1
      /\ at = "sync" /\ next < Tensors => at' = "sync" /\ next' = next + 1
      /\ at = "sync" /\ ~(next < Tensors) => at' = "warmUp" /\ next' = 1
      /\ at = "warmUp" /\ next < Prompts => at' = "warmUp" /\ next' = next + 1
      /\ at = "warmUp" /\ ~(next < Prompts) => at' = "sample" /\ next' = 1
      /\ at = "flush" => at' = "release" /\ next' = 1
      /\ at = "release" => at' = "idle" /\ next' = 1
  BY Answered DEF Proceed, IInv, TypeOK, Places
<1>3. Places'
  <2>1. 1 \in 1 .. Tensors /\ 1 \in 1 .. Prompts /\ 1 \in 1 .. Prompts * Samples + 1
    BY Bounds, Product
  <2>2. at = "sync" /\ next < Tensors => next' \in 1 .. Tensors
    BY <1>2, Bounds DEF IInv, TypeOK, Places
  <2>3. at = "warmUp" /\ next < Prompts => next' \in 1 .. Prompts
    BY <1>2, Bounds DEF IInv, TypeOK, Places
  <2>4. next' \in Nat \ {0} BY <1>2 DEF IInv, TypeOK, Places
  <2> QED BY <1>1, <1>2, <2>1, <2>2, <2>3, <2>4, Answered DEF IInv, TypeOK, Places
<1>4. Contents' BY <1>1, Answered DEF IInv, TypeOK, Contents
<1>5. Messages'
  <2>1. Len(todo') = 0 /\ Len(inbox') = 0 BY Answered
  <2>2. Unhandled' < next' BY <1>3, Answered DEF Places
  <2> QED BY <1>2, <2>1, <2>2, Answered DEF IInv, Messages
<1>6. Queues' BY <1>1, <1>2, Answered DEF IInv, Queues, Queued, Filtered, Busy
<1>7. Unasked'
  <2>1. at' = "warmUp" => \A r \in Req : r[1] = call /\ (r[3] # 0 \/ r[2] >= next') => left[r] > 0
    <3> SUFFICES ASSUME at' = "warmUp", NEW r \in Req, r[1] = call, r[3] # 0 \/ r[2] >= next'
                 PROVE  left[r] > 0
      OBVIOUS
    <3>1. r[2] \in Nat /\ next \in Nat BY DEF Req, IInv, TypeOK, Places
    <3>2. CASE at = "sync" BY <3>2 DEF IInv, Unasked
    <3>3. CASE at = "warmUp"
      <4>1. r[3] # 0 \/ r[2] > next BY <1>2, <3>1, <3>3
      <4> QED BY <3>3, <4>1 DEF IInv, Unasked
    <3> QED BY <1>2, <3>2, <3>3
  <2>2. at' = "warmUp" => \A r \in Req : r[2] > next' => r[2] >= next'
    BY <1>3 DEF Req, Places
  <2>3. at' = "warmUp" => \A r \in Req : r[2] = next' => r[2] >= next' BY <1>3 DEF Req, Places
  <2>4. at' = "sample" => \A k \in 1 .. Prompts * Samples : left[Nth(k)] > 0
    <3> SUFFICES ASSUME at' = "sample", NEW k \in 1 .. Prompts * Samples PROVE left[Nth(k)] > 0
      OBVIOUS
    <3>1. at = "warmUp" BY <1>2
    <3>2. Nth(k) \in Req /\ Nth(k)[3] # 0 /\ Nth(k)[1] = call
      BY <3>1, NthIsASample DEF IInv, TypeOK
    <3> QED BY <3>1, <3>2 DEF IInv, Unasked
  <2>5. at' = "sample" => next' - Unhandled' = 1 BY <1>2, Answered
  <2>6. \A k : Nth(k)' = Nth(k) BY <1>1 DEF Nth
  <2> QED BY <1>1, <1>2, <2>1, <2>2, <2>3, <2>4, <2>5, <2>6 DEF IInv, Unasked
<1>8. Weights'
  <2>1. at' = "sync" => \A t \in 1 .. next' - 1 : weights[t] = version
    <3> SUFFICES ASSUME at' = "sync", NEW t \in 1 .. next' - 1 PROVE weights[t] = version
      OBVIOUS
    <3>1. at = "sync" /\ next' = next + 1 /\ next \in Nat
      <4>1. at = "resume" => 1 .. next' - 1 = {} BY <1>2
      <4>2. at # "resume" BY <4>1
      <4> QED BY <1>2, <4>2 DEF IInv, TypeOK, Places
    <3>2. t \in 1 .. next - 1 \/ t = next BY <3>1
    <3> QED BY <1>1, <3>1, <3>2 DEF IInv, Weights
  <2>2. at' = "warmUp" /\ at = "sync" =>
          (\A t \in 1 .. Tensors : weights[t] = version) /\ cached \subseteq {version}
    <3> SUFFICES ASSUME at' = "warmUp", at = "sync"
                 PROVE  (\A t \in 1 .. Tensors : weights[t] = version) /\ cached \subseteq {version}
      OBVIOUS
    <3>1. next = Tensors BY <1>2, Bounds DEF IInv, TypeOK, Places
    <3>2. \A t \in 1 .. Tensors : t \in 1 .. next - 1 \/ t = next BY <3>1, Bounds
    <3> QED BY <1>1, <3>1, <3>2 DEF IInv, Weights
  <2> QED BY <1>1, <1>2, <2>1, <2>2, Answered DEF IInv, Weights, RolloutsAreOnPolicy
<1>9. Emptied' BY <1>1, <1>2, Answered DEF IInv, Emptied
<1> QED BY <1>3, <1>4, <1>5, <1>6, <1>7, <1>8, <1>9 DEF IInv, TypeOK
LEMMA SendSampleIInv == ASSUME IInv, SendSample PROVE IInv'
<1> USE DEF memory, queue
<1> DEFINE msg == [op |-> "generate", req |-> Nth(next)]
<1>1. /\ at = "sample" /\ at' = "sample" /\ next <= Prompts * Samples /\ next' = next + 1
      /\ inbox' = Append(inbox, msg) /\ asked = "no"
      /\ UNCHANGED <<version, call, reload, freeCache, asked, loop, todo, memory, queue>>
  BY DEF SendSample, Nth, IInv, Messages
<1>2. next \in Nat \ {0} /\ next \in 1 .. Prompts * Samples BY <1>1, Product DEF IInv, TypeOK, Places
<1>3. msg \in MessageSet BY <1>1, <1>2, NthIsASample DEF MessageSet, IInv, TypeOK
<1>4. /\ inbox' \in Seq(MessageSet) /\ Len(inbox) \in Nat /\ Len(inbox') = Len(inbox) + 1
      /\ \A j \in 1 .. Len(inbox') : inbox'[j] = IF j = Len(inbox) + 1 THEN msg ELSE inbox[j]
  BY <1>1, <1>3, Appended DEF IInv, TypeOK, Contents
<1>5. Len(todo) \in Nat BY DEF IInv, TypeOK, Contents
<1>6. Unhandled' = Unhandled + 1 /\ Unhandled \in Nat BY <1>1, <1>4, <1>5 DEF Unhandled
<1>7. \A k : Nth(k)' = Nth(k) BY <1>1 DEF Nth
<1>8. TypeOK'
  <2>1. next' \in 1 .. Prompts * Samples + 1 /\ next' \in Nat \ {0} BY <1>1, <1>2, Product
  <2>2. Places' BY <1>1, <2>1 DEF IInv, TypeOK, Places
  <2>3. Contents' BY <1>1, <1>4 DEF IInv, TypeOK, Contents
  <2> QED BY <2>2, <2>3 DEF TypeOK
<1>9. Messages'
  <2>1. Unhandled' < next' BY <1>1, <1>2, <1>6 DEF IInv, Messages
  <2>2. \A j \in 1 .. Len(todo') : todo'[j] = [op |-> "generate", req |-> Nth(next' - 1 - Unhandled' + j)]
    <3>1. next' - 1 - Unhandled' = next - 1 - Unhandled BY <1>1, <1>2, <1>6
    <3> QED BY <1>1, <3>1 DEF IInv, Messages
  <2>3. \A j \in 1 .. Len(inbox') : inbox'[j] = [op |-> "generate", req |-> Nth(next' - 1 - Len(inbox') + j)]
    <3> TAKE j \in 1 .. Len(inbox')
    <3>1. next' - 1 - Len(inbox') = next - 1 - Len(inbox) BY <1>1, <1>2, <1>4
    <3>2. CASE j = Len(inbox) + 1
      <4>1. next' - 1 - Len(inbox') + j = next BY <1>2, <1>4, <3>1, <3>2
      <4> QED BY <1>4, <3>2, <4>1
    <3>3. CASE j # Len(inbox) + 1
      <4>1. j \in 1 .. Len(inbox) BY <1>4, <3>3
      <4> QED BY <1>1, <1>4, <3>1, <3>3, <4>1 DEF IInv, Messages
    <3> QED BY <3>2, <3>3
  <2> QED BY <1>1, <1>7, <2>1, <2>2, <2>3 DEF IInv, Messages
<1>10. Queues'
  <2>1. Queued' = Queued BY <1>1 DEF Queued, Busy, Filtered
  <2>2. next' - 1 - Unhandled' = next - 1 - Unhandled BY <1>1, <1>2, <1>6
  <2> QED BY <1>1, <1>7, <2>1, <2>2 DEF IInv, Queues, Busy, Filtered
<1>11. Unasked'
  <2>1. next' - Unhandled' = next - Unhandled BY <1>1, <1>2, <1>6
  <2> QED BY <1>1, <1>7, <2>1 DEF IInv, Unasked
<1>12. Weights' BY <1>1 DEF IInv, Weights, RolloutsAreOnPolicy
<1>13. Emptied' BY <1>1 DEF Emptied
<1> QED BY <1>8, <1>9, <1>10, <1>11, <1>12, <1>13 DEF IInv

LEMMA GatherIInv == ASSUME IInv, Gather PROVE IInv'
<1> USE DEF memory, queue, Goto
<1>1. /\ at = "sample" /\ at' \in {"flush", "release"} /\ next' = 1 /\ asked = "no"
      /\ next > Prompts * Samples /\ \A r \in Sampled : left[r] = 0
      /\ UNCHANGED <<version, call, reload, freeCache, asked, inbox, loop, todo, memory, queue>>
  BY DEF Gather, IInv, Messages
<1>2. next = Prompts * Samples + 1 BY <1>1, Product DEF IInv, TypeOK, Places
<1>3. Len(todo) \in Nat /\ Len(inbox) \in Nat BY DEF IInv, TypeOK, Contents
<1>4. \A k \in 1 .. Prompts * Samples : left[Nth(k)] = 0
  BY <1>1, NthIsASample DEF IInv, TypeOK
<1>5. Unhandled = 0
  <2> SUFFICES ASSUME Unhandled # 0 PROVE FALSE
    OBVIOUS
  <2>1. Unhandled \in Nat \ {0} /\ Unhandled < next BY <1>1, <1>3 DEF IInv, Messages, Unhandled
  <2>2. /\ Prompts * Samples \in next - Unhandled .. Prompts * Samples
        /\ Prompts * Samples \in 1 .. Prompts * Samples
    BY <1>2, <2>1, Product
  <2>3. left[Nth(Prompts * Samples)] > 0 BY <1>1, <2>2 DEF IInv, Unasked
  <2> QED BY <1>4, <2>2, <2>3
<1>6. todo = <<>> /\ inbox = <<>>
  <2>1. Len(todo) = 0 /\ Len(inbox) = 0 BY <1>3, <1>5 DEF Unhandled
  <2> QED BY <2>1 DEF IInv, TypeOK, Contents
<1>7. Queued = {}
  <2> SUFFICES ASSUME NEW r \in Queued PROVE FALSE
    OBVIOUS
  <2>1. PICK k \in 1 .. next - 1 - Unhandled : r = Nth(k) BY <1>1 DEF IInv, Queues
  <2>2. k \in 1 .. Prompts * Samples BY <1>2, <1>5, Product
  <2> QED BY <1>4, <2>1, <2>2 DEF IInv, Queues
<1>8. Queued' = Queued BY <1>1 DEF Queued, Busy, Filtered
<1>9. TypeOK' BY <1>1 DEF IInv, TypeOK, Places, Contents
<1>10. Messages' BY <1>1, <1>6 DEF IInv, Messages
<1>11. Queues' BY <1>1, <1>7, <1>8 DEF IInv, Queues, Queued, Busy, Filtered
<1>12. Unasked' BY <1>1 DEF IInv, Unasked
<1>13. Weights' BY <1>1 DEF IInv, Weights, RolloutsAreOnPolicy
<1>14. Emptied' BY <1>1 DEF Emptied
<1> QED BY <1>9, <1>10, <1>11, <1>12, <1>13, <1>14 DEF IInv

-------------------------------------------------------------------------------
(* The scheduler *)

\* A step that moves requests between the queues and loses none that is unfinished.
LEMMA Moved ==
  ASSUME IInv, Contents', UNCHANGED <<worker, asked, inbox, todo, weights, cached, left, from>>,
         Queued' \subseteq Queued, loop' # "input" => todo = <<>>,
         waiting' \cap Filtered(running' \cup last') = {},
         (Busy => batch # {} /\ waiting \cap batch = {})', Emptied'
  PROVE  IInv'
<1> USE DEF worker
<1>1. Unhandled' = Unhandled /\ Message' = Message /\ \A k : Nth(k)' = Nth(k)
  BY DEF Unhandled, Nth, Message, UpdateMessage, WarmUp
<1>2. Places' BY DEF IInv, TypeOK, Places
<1>3. Messages' BY <1>1 DEF IInv, Messages
<1>4. Filtered(running \cup last)' = Filtered(running' \cup last') BY DEF Filtered
<1>5. Queues'
  <2>1. \A r \in Queued' : left'[r] > 0 BY DEF IInv, Queues
  <2>2. WarmUp(next)' = WarmUp(next) BY DEF WarmUp
  <2>3. at' = "sample" => \A r \in Queued' : \E k \in 1 .. next - 1 - Unhandled : r = Nth(k)
    BY DEF IInv, Queues
  <2>4. at' = "warmUp" => Queued' \subseteq {WarmUp(next)} BY DEF IInv, Queues
  <2>5. at' = "warmUp" /\ ~(asked' = "sent" /\ Unhandled' = 0) => Queued' = {}
    BY <1>1 DEF IInv, Queues
  <2>6. at' \notin {"warmUp", "sample"} => Queued' = {} BY DEF IInv, Queues
  <2> QED BY <1>1, <1>4, <2>1, <2>2, <2>3, <2>4, <2>5, <2>6 DEF Queues
<1>6. Unasked' BY <1>1 DEF IInv, Unasked
<1>7. Weights' BY DEF IInv, Weights, RolloutsAreOnPolicy
<1> QED BY <1>2, <1>3, <1>5, <1>6, <1>7 DEF IInv, TypeOK

LEMMA InputEndsIInv == ASSUME IInv, InputEnds PROVE IInv'
<1> USE DEF InputEnds, memory, queue
<1>1. Contents' BY DEF IInv, TypeOK, Contents
<1>2. Queued' = Queued BY DEF Queued, Busy, Filtered
<1>3. waiting' \cap Filtered(running' \cup last') = {} BY DEF IInv, Queues, Filtered
<1>4. Busy' = FALSE BY DEF Busy
<1>5. Emptied' BY DEF IInv, Emptied, worker
<1> QED BY <1>1, <1>2, <1>3, <1>4, <1>5, Moved

LEMMA PrefillIInv == ASSUME IInv, NEW R \in SUBSET waiting, Prefill(R) PROVE IInv'
<1> USE DEF Prefill, memory
<1>1. todo = <<>> /\ ~Busy BY DEF IInv, Messages, Busy
<1>2. Merged \subseteq running \cup last /\ Filtered(running' \cup last') = Filtered(running \cup last)
  BY DEF Merged, Filtered
<1>3. Contents' BY <1>2 DEF IInv, TypeOK, Contents
<1>4. Filtered(running \cup last)' = Filtered(running \cup last) BY <1>2 DEF Filtered
<1>5. Queued' \subseteq Queued BY <1>1, <1>4 DEF Queued
<1>6. waiting' \cap Filtered(running' \cup last') = {} BY <1>2 DEF IInv, Queues
<1>7. (Busy => batch # {} /\ waiting \cap batch = {})' OBVIOUS
<1>8. at \in {"warmUp", "sample"} BY DEF IInv, Queues, Queued
<1>9. Emptied' BY <1>8 DEF Emptied, worker
<1> QED BY <1>1, <1>3, <1>5, <1>6, <1>7, <1>9, Moved

LEMMA DecodeIInv == ASSUME IInv, NEW R \in SUBSET Merged, Decode(R) PROVE IInv'
<1> USE DEF Decode, memory
<1>1. todo = <<>> /\ ~Busy BY DEF IInv, Messages, Busy
<1>2. Filtered(Merged) = Filtered(running \cup last) BY DEF Merged, Filtered
<1>3. R \subseteq Filtered(running \cup last) BY <1>2
<1>4. Contents'
  <2>1. Merged \subseteq Req /\ Filtered(Merged) \subseteq Req
    BY DEF Merged, Filtered, IInv, TypeOK, Contents
  <2> QED BY <2>1 DEF IInv, TypeOK, Contents
<1>5. Filtered(running \cup last)' \subseteq R BY DEF Filtered
<1>6. Queued' \subseteq Queued
  <2>1. waiting' \subseteq Queued BY <1>2 DEF Queued
  <2>2. Filtered(running \cup last)' \subseteq Queued BY <1>3, <1>5 DEF Queued
  <2>3. batch' \subseteq Queued BY <1>3 DEF Queued
  <2> QED BY <2>1, <2>2, <2>3 DEF Queued
<1>7. waiting' \cap R = {} BY <1>3 DEF IInv, Queues
<1>8. waiting' \cap Filtered(running' \cup last') = {} BY <1>7 DEF Filtered
<1>9. (Busy => batch # {} /\ waiting \cap batch = {})' BY <1>7 DEF Busy
<1>10. Emptied'
  <2>1. at \notin {"warmUp", "sample"} => R = {} BY <1>3 DEF IInv, Queues, Queued
  <2> QED BY <2>1 DEF Emptied, worker
<1>11. loop' # "input" OBVIOUS
<1> QED BY <1>1, <1>4, <1>6, <1>8, <1>9, <1>10, Moved

LEMMA NoBatchIInv == ASSUME IInv, NoBatch PROVE IInv'
<1> USE DEF NoBatch, memory
<1>1. todo = <<>> /\ running = {} BY DEF IInv, Messages, Merged
<1>2. Contents' BY DEF IInv, TypeOK, Contents
<1>3. Filtered(running \cup last)' \subseteq {} BY <1>1 DEF Filtered
<1>4. Queued' \subseteq Queued BY <1>3 DEF Queued, Busy
<1>5. Busy' = FALSE BY DEF Busy
<1>6. Emptied' BY <1>1 DEF Emptied
<1> QED BY <1>1, <1>2, <1>4, <1>5, <1>6, Moved DEF Filtered

LEMMA RecvIInv == ASSUME IInv, Recv PROVE IInv'
<1> USE DEF Recv, worker, memory, queue
<1>1. todo = <<>> /\ Len(todo) = 0 BY DEF IInv, Messages
<1>2. Len(inbox) \in Nat BY DEF IInv, TypeOK, Contents
<1>3. Len(inbox') = 0 /\ Len(todo') = Len(inbox) OBVIOUS
<1>4. Unhandled' = Unhandled BY <1>1, <1>2, <1>3 DEF Unhandled
<1>5. Message' = Message /\ (\A k : Nth(k)' = Nth(k)) /\ WarmUp(next)' = WarmUp(next)
  BY DEF Nth, Message, UpdateMessage, WarmUp
<1>6. TypeOK'
  <2>1. inbox' \in Seq(MessageSet) OBVIOUS
  <2> QED BY <2>1 DEF IInv, TypeOK, Places, Contents
<1>7. Messages'
  <2>1. at = "sample" => \A j \in 1 .. Len(todo') :
                           todo'[j] = [op |-> "generate", req |-> Nth(next - 1 - Unhandled + j)]
    <3>1. Unhandled = Len(inbox) BY <1>1, <1>2 DEF Unhandled
    <3> QED BY <3>1 DEF IInv, Messages
  <2>2. \A j \in 1 .. Len(inbox') : FALSE BY <1>3
  <2> QED BY <1>1, <1>4, <1>5, <2>1, <2>2 DEF IInv, Messages
<1>8. Queued' = Queued BY DEF Queued, Busy, Filtered
<1>9. Queues' BY <1>4, <1>5, <1>8 DEF IInv, Queues, Busy, Filtered
<1>10. Unasked' BY <1>4, <1>5 DEF IInv, Unasked
<1>11. Weights' BY DEF IInv, Weights, RolloutsAreOnPolicy
<1>12. Emptied' BY DEF IInv, Emptied
<1> QED BY <1>6, <1>7, <1>9, <1>10, <1>11, <1>12 DEF IInv

LEMMA SyncedWeights ==
  ASSUME Weights, at \in {"warmUp", "sample"}
  PROVE  (\A t \in 1 .. Tensors : weights[t] = version) /\ cached \subseteq {version}
<1>1. CASE at = "warmUp" BY <1>1 DEF Weights
<1>2. CASE at = "sample" BY <1>2 DEF Weights
<1> QED BY <1>1, <1>2

\* Only requests of this call, in an engine with this call's weights, are in the queues.
LEMMA BatchIsOfTheCall ==
  ASSUME IInv, Busy
  PROVE  /\ at \in {"warmUp", "sample"} /\ batch \subseteq Queued
         /\ \A r \in batch : r[1] = call /\ from[r] \subseteq {version}
         /\ at = "sample" => \A r \in batch : r[3] # 0
         /\ at = "warmUp" => batch = {WarmUp(next)} /\ asked = "sent" /\ Unhandled = 0
<1>1. batch # {} /\ batch \subseteq Queued BY DEF IInv, Queues, Queued
<1>2. at \in {"warmUp", "sample"} BY <1>1 DEF IInv, Queues
<1>3. CASE at = "warmUp"
  <2>1. batch = {WarmUp(next)} /\ asked = "sent" /\ Unhandled = 0
    BY <1>1, <1>3 DEF IInv, Queues
  <2> QED BY <1>1, <1>3, <2>1, WarmUpIsARequest DEF IInv, TypeOK, Weights, RolloutsAreOnPolicy
<1>4. CASE at = "sample"
  <2>1. \A r \in batch : \E k \in 1 .. next - 1 - Unhandled : r = Nth(k)
    BY <1>1, <1>4 DEF IInv, Queues
  <2>2. next \in 1 .. Prompts * Samples + 1 /\ Unhandled \in Nat
    <3>1. Len(todo) \in Nat /\ Len(inbox) \in Nat BY DEF IInv, TypeOK, Contents
    <3> QED BY <1>4, <3>1 DEF IInv, TypeOK, Places, Unhandled
  <2>3. 1 .. next - 1 - Unhandled \subseteq 1 .. Prompts * Samples BY <2>2, Product
  <2>4. \A r \in batch : r \in Req /\ r[1] = call /\ r[3] # 0
    BY <1>4, <2>1, <2>3, NthIsASample DEF IInv, TypeOK
  <2> QED BY <1>1, <1>4, <2>4 DEF IInv, Weights, RolloutsAreOnPolicy
<1> QED BY <1>2, <1>3, <1>4

LEMMA RunIInv == ASSUME IInv, Run PROVE IInv'
<1> USE DEF worker, memory
<1> DEFINE sources == {weights[t] : t \in 1 .. Tensors} \cup (IF extend THEN cached ELSE {})
<1>1. /\ loop = "run" /\ loop' = "result" /\ todo = <<>> /\ Busy /\ Busy'
      /\ from' = [r \in Req |-> IF r \in batch THEN from[r] \cup sources ELSE from[r]]
      /\ UNCHANGED <<worker, asked, inbox, todo, memory, waiting, running, last, batch, left>>
  BY DEF Run, IInv, Messages, Busy
<1>2. sources \subseteq {version}
  <2>1. at \in {"warmUp", "sample"} BY <1>1, BatchIsOfTheCall
  <2>2. (\A t \in 1 .. Tensors : weights[t] = version) /\ cached \subseteq {version}
    BY <2>1, SyncedWeights DEF IInv
  <2> QED BY <2>2
<1>3. version \in Nat BY DEF IInv, TypeOK, Places
<1> HIDE DEF sources
<1>4. TypeOK'
  <2>1. from' \in [Req -> SUBSET (Nat \cup {Lost})]
    <3>1. \A r \in Req : from[r] \cup sources \subseteq Nat \cup {Lost}
      BY <1>2, <1>3 DEF IInv, TypeOK, Contents
    <3> QED BY <1>1, <3>1 DEF IInv, TypeOK, Contents
  <2> QED BY <1>1, <2>1 DEF IInv, TypeOK, Places, Contents
<1>5. /\ Message' = Message /\ (\A k : Nth(k)' = Nth(k)) /\ WarmUp(next)' = WarmUp(next)
      /\ Unhandled' = Unhandled
  BY <1>1 DEF Nth, Message, UpdateMessage, WarmUp, Unhandled
<1>6. Messages' BY <1>1, <1>5 DEF IInv, Messages
<1>7. Queued' = Queued BY <1>1 DEF Queued, Filtered
<1>8. Queues' BY <1>1, <1>5, <1>7 DEF IInv, Queues, Filtered
<1>9. Unasked' BY <1>1, <1>5 DEF IInv, Unasked
<1>10. Weights'
  <2>1. \A r \in Req : r[1] > call => from'[r] = {}
    <3> SUFFICES ASSUME NEW r \in Req, r[1] > call PROVE from'[r] = {}
      OBVIOUS
    <3>1. r[1] # call BY DEF Req, IInv, TypeOK, Places
    <3>2. r \notin batch BY <1>1, <3>1, BatchIsOfTheCall
    <3> QED BY <1>1, <3>2 DEF IInv, Weights
  <2>2. \A r \in Req : r[1] = call => from'[r] \subseteq {version}
    BY <1>1, <1>2 DEF IInv, Weights, RolloutsAreOnPolicy
  <2> QED BY <1>1, <2>1, <2>2 DEF IInv, Weights, RolloutsAreOnPolicy
<1>11. Emptied' BY <1>1, BatchIsOfTheCall DEF Emptied
<1> QED BY <1>4, <1>6, <1>8, <1>9, <1>10, <1>11 DEF IInv

LEMMA ResultIInv == ASSUME IInv, NEW R \in SUBSET batch, Result(R) PROVE IInv'
<1> USE DEF worker
<1>1. /\ loop = "result" /\ loop' = "recv" /\ todo = <<>> /\ Busy /\ ~Busy'
      /\ R \subseteq batch /\ \A r \in batch \ R : left[r] > 1
      /\ left' = [r \in Req |-> IF r \in R THEN 0 ELSE IF r \in batch THEN left[r] - 1 ELSE left[r]]
      /\ cached' = cached \cup UNION {from[r] : r \in IF extend THEN batch ELSE R}
      /\ last' \subseteq batch
      /\ asked' = IF \E r \in R : r[3] = 0 /\ left[r] > 0 THEN "answered" ELSE asked
      /\ UNCHANGED <<worker, inbox, todo, weights, paused, waiting, running, batch, extend, from>>
  BY DEF Result, IInv, Messages, Busy
<1>2. batch \subseteq Req /\ \A r \in Req : left[r] \in Nat BY DEF IInv, TypeOK, Contents
<1>3. \A r \in batch : left[r] > 0 BY <1>1, BatchIsOfTheCall DEF IInv, Queues
<1>4. /\ at \in {"warmUp", "sample"} /\ batch \subseteq Queued
      /\ \A r \in batch : r[1] = call /\ from[r] \subseteq {version}
  BY <1>1, BatchIsOfTheCall
<1>5. at = "sample" => \A r \in batch : r[3] # 0 BY <1>1, BatchIsOfTheCall
<1>6. at = "warmUp" => batch = {WarmUp(next)} /\ asked = "sent" /\ Unhandled = 0
  BY <1>1, BatchIsOfTheCall
<1>7. at = "sample" => asked' = asked BY <1>1, <1>5
<1>8. /\ (\A k : Nth(k)' = Nth(k)) /\ WarmUp(next)' = WarmUp(next)
      /\ Message' = Message /\ Unhandled' = Unhandled
  BY <1>1 DEF Nth, WarmUp, Unhandled, Message, UpdateMessage
<1>9. \A r \in Req : left'[r] > 0 => left[r] > 0 /\ r \notin R BY <1>1, <1>2
<1>10. \A r \in Req \ batch : left'[r] = left[r] BY <1>1
<1>11. TypeOK'
  <2>1. left' \in [Req -> Nat] BY <1>1, <1>2, <1>3 DEF IInv, TypeOK, Contents
  <2>2. asked' \in {"no", "sent", "answered"} BY <1>1 DEF IInv, TypeOK, Places
  <2>3. Places' BY <1>1, <2>2 DEF IInv, TypeOK, Places
  <2>4. Contents' BY <1>1, <1>2, <2>1 DEF IInv, TypeOK, Contents
  <2> QED BY <2>3, <2>4 DEF TypeOK
<1>12. Messages'
  <2>1. CASE at = "sample" BY <1>1, <1>7, <1>8, <2>1 DEF IInv, Messages
  <2>2. CASE at = "warmUp"
    <3>1. todo = <<>> /\ inbox = <<>>
      <4>1. Len(todo) \in Nat /\ Len(inbox) \in Nat BY DEF IInv, TypeOK, Contents
      <4>2. Len(todo) = 0 /\ Len(inbox) = 0 BY <1>6, <2>2, <4>1 DEF Unhandled
      <4> QED BY <4>2 DEF IInv, TypeOK, Contents
    <3> QED BY <1>1, <2>2, <3>1 DEF Messages
  <2> QED BY <1>4, <2>1, <2>2
<1>13. /\ Queued' \subseteq Queued /\ Queued' \cap R = {}
       /\ \A r \in Queued' : left'[r] > 0
  <2> SUFFICES ASSUME NEW r \in Queued' PROVE r \in Queued /\ r \notin R /\ left'[r] > 0
    OBVIOUS
  <2>1. r \in waiting \/ (r \in running \cup batch /\ left'[r] > 0) BY <1>1 DEF Queued, Filtered
  <2>2. CASE r \in waiting
    <3>1. r \in Req /\ r \notin batch BY <1>1, <2>2 DEF IInv, Queues, TypeOK, Contents
    <3>2. r \in Queued BY <2>2 DEF Queued
    <3> QED BY <1>1, <1>10, <3>1, <3>2 DEF IInv, Queues
  <2>3. CASE r \in running \cup batch /\ left'[r] > 0
    <3>1. r \in Req BY <1>2, <2>3 DEF IInv, TypeOK, Contents
    <3>2. left[r] > 0 /\ r \notin R BY <1>9, <2>3, <3>1
    <3> QED BY <1>4, <2>3, <3>2 DEF Queued, Filtered
  <2> QED BY <2>1, <2>2, <2>3
<1>14. Queues'
  <2>1. waiting' \cap Filtered(running \cup last)' = {}
    <3> SUFFICES ASSUME NEW r \in waiting, r \in running \cup batch, left'[r] > 0 PROVE FALSE
      BY <1>1 DEF Filtered
    <3>1. r \notin batch /\ r \in Req BY <1>1 DEF IInv, Queues, TypeOK, Contents
    <3>2. r \in running /\ left[r] > 0 BY <1>9, <3>1
    <3> QED BY <3>2 DEF IInv, Queues, Filtered
  <2>2. at = "warmUp" /\ ~(asked' = "sent" /\ Unhandled' = 0) => Queued' = {}
    <3> SUFFICES ASSUME at = "warmUp", asked' # "sent" PROVE Queued' = {}
      BY <1>6, <1>8
    <3>1. PICK r \in R : TRUE BY <1>1, <1>6
    <3>2. WarmUp(next) \in R BY <1>1, <1>6, <3>1
    <3> QED BY <1>13, <3>2 DEF IInv, Queues
  <2>3. at = "sample" => \A r \in Queued' : \E k \in 1 .. next - 1 - Unhandled : r = Nth(k)
    BY <1>13 DEF IInv, Queues
  <2>4. at = "warmUp" => Queued' \subseteq {WarmUp(next)} BY <1>13 DEF IInv, Queues
  <2> QED BY <1>1, <1>4, <1>8, <1>13, <2>1, <2>2, <2>3, <2>4 DEF Queues
<1>15. Unasked'
  <2>1. \A r \in Req : r[1] > call => r \notin batch
    BY <1>4 DEF IInv, TypeOK, Places
  <2>2. \A r \in Req : r[1] > call => left'[r] > 0 BY <1>10, <2>1 DEF IInv, Unasked
  <2>3. ASSUME at = "warmUp", NEW r \in Req, r[1] = call, r[3] # 0 \/ r[2] > next
        PROVE  left'[r] > 0
    <3>1. r # WarmUp(next)
      BY <2>3, WarmUpIsARequest DEF IInv, TypeOK, Places
    <3> QED BY <1>6, <1>10, <2>3, <3>1 DEF IInv, Unasked
  <2>4. ASSUME at = "sample", NEW k \in next - Unhandled .. Prompts * Samples
        PROVE  left'[Nth(k)] > 0
    <3>1. /\ next \in Nat \ {0} /\ Unhandled \in Nat /\ Unhandled < next
          /\ next <= Prompts * Samples + 1
      <4>1. Len(todo) \in Nat /\ Len(inbox) \in Nat BY DEF IInv, TypeOK, Contents
      <4>2. next \in 1 .. Prompts * Samples + 1 BY <2>4 DEF IInv, TypeOK, Places
      <4> QED BY <2>4, <4>1, <4>2, Product DEF IInv, Messages, Unhandled
    <3>2. k \in 1 .. Prompts * Samples /\ k \in Nat \ {0} BY <3>1, Product
    <3>3. Nth(k) \in Req BY <1>4, <3>2, NthIsASample DEF IInv, TypeOK
    <3>4. Nth(k) \notin batch
      <4> SUFFICES ASSUME Nth(k) \in batch PROVE FALSE
        OBVIOUS
      <4>1. PICK l \in 1 .. next - 1 - Unhandled : Nth(k) = Nth(l)
        BY <1>4, <2>4 DEF IInv, Queues
      <4>2. l \in Nat \ {0} /\ l < k BY <3>1
      <4> QED BY <3>2, <4>1, <4>2, NthInjective
    <3> QED BY <1>10, <2>4, <3>3, <3>4 DEF IInv, Unasked
  <2>5. at' = "warmUp" => ~(asked' = "no" \/ Unhandled' > 0) BY <1>1, <1>6, <1>8
  <2> QED BY <1>1, <1>4, <1>8, <2>2, <2>3, <2>4, <2>5 DEF Unasked
<1>16. Weights'
  <2>1. cached \subseteq {version} BY <1>4, SyncedWeights DEF IInv
  <2>2. UNION {from[r] : r \in IF extend THEN batch ELSE R} \subseteq {version} BY <1>1, <1>4
  <2>3. cached' \subseteq {version} BY <1>1, <2>1, <2>2
  <2> QED BY <1>1, <1>4, <2>3 DEF IInv, Weights, RolloutsAreOnPolicy
<1>17. Emptied' BY <1>1, <1>4 DEF Emptied
<1> QED BY <1>11, <1>12, <1>14, <1>15, <1>16, <1>17 DEF IInv

-------------------------------------------------------------------------------
(* The scheduler's turn at a message *)

\* Outside sample the message handled is the awaited one, and the only one.
LEMMA Awaited ==
  ASSUME IInv, Input, at # "sample"
  PROVE  /\ at # "idle" /\ asked = "sent" /\ todo = <<Message>> /\ inbox = <<>>
         /\ Handle(Message) /\ Unhandled = 1
         /\ todo' = <<>> /\ inbox' = <<>> /\ Unhandled' = 0
<1>1. asked = "sent" /\ todo = <<Message>> /\ inbox = <<>> BY DEF Input, IInv, Messages
<1>2. at # "idle" BY <1>1 DEF IInv, Messages
<1>3. Head(todo) = Message /\ Tail(todo) = <<>> /\ Len(todo) = 1 /\ Len(inbox) = 0 BY <1>1
<1>4. todo' = <<>> /\ inbox' = <<>> BY <1>1, <1>3 DEF Input
<1>5. Len(todo') = 0 /\ Len(inbox') = 0 BY <1>4
<1> QED BY <1>1, <1>2, <1>3, <1>4, <1>5 DEF Input, Unhandled

\* A message other than a request: nothing is queued, before and after.
LEMMA AnsweredAtOnce ==
  ASSUME IInv, Input, at \notin {"sample", "warmUp"}, loop' = "input", asked' = "answered",
         UNCHANGED <<waiting, running, batch, left, from>>, last' \subseteq last,
         weights' \in [1 .. Tensors -> Nat \cup {Lost}],
         at = "sync" => /\ \A t \in 1 .. next : weights'[t] = version
                        /\ next = Tensors => cached' = {}
  PROVE  IInv'
<1> USE DEF worker
<1>1. /\ UNCHANGED worker /\ at # "idle" /\ todo' = <<>> /\ inbox' = <<>> BY Awaited DEF Input
<1>2. TypeOK'
  <2>1. Places' BY <1>1 DEF IInv, TypeOK, Places
  <2>2. Contents' BY <1>1 DEF IInv, TypeOK, Contents
  <2> QED BY <2>1, <2>2 DEF TypeOK
<1>3. Messages' BY <1>1 DEF Messages
<1>4. Queued = {} BY DEF IInv, Queues
<1>5. Queued' = {} BY <1>4 DEF Queued, Busy, Filtered
<1>6. Queues' BY <1>1, <1>4, <1>5 DEF Queues, Queued, Busy
<1>7. Unasked' BY <1>1 DEF IInv, Unasked
<1>8. Weights'
  <2>1. at = "sync" => next \in 1 .. next /\ 1 .. next - 1 \subseteq 1 .. next
    BY DEF IInv, TypeOK, Places
  <2> QED BY <1>1, <2>1 DEF IInv, Weights, RolloutsAreOnPolicy
<1>9. Emptied' BY <1>1 DEF Emptied
<1> QED BY <1>2, <1>3, <1>6, <1>7, <1>8, <1>9 DEF IInv

LEMMA ReleaseIInv == ASSUME IInv, Input, at \in {"reload", "release"} PROVE IInv'
<1>1. Message.op = "release" BY DEF Message
<1>2. Handle(Message) BY Awaited
<1>3. /\ loop' = "input" /\ asked' = "answered" /\ UNCHANGED <<waiting, running, batch, left, from>>
      /\ last' \subseteq last /\ weights' = [t \in 1 .. Tensors |-> Lost]
  BY <1>1, <1>2 DEF Handle, Input
<1> QED BY <1>3, AnsweredAtOnce

LEMMA ResumeIInv == ASSUME IInv, Input, at = "resume" PROVE IInv'
<1>1. Message.op = "resume" BY DEF Message
<1>2. Handle(Message) BY Awaited
<1>3. /\ loop' = "input" /\ asked' = "answered" /\ last' \subseteq last
      /\ UNCHANGED <<waiting, running, batch, left, from, weights>>
  BY <1>1, <1>2 DEF Handle, Input, queue
<1>4. weights' \in [1 .. Tensors -> Nat \cup {Lost}] BY <1>3 DEF IInv, TypeOK, Contents
<1> QED BY <1>3, <1>4, AnsweredAtOnce

LEMMA FlushIInv == ASSUME IInv, Input, at = "flush" PROVE IInv'
<1>1. Message.op = "flush" BY DEF Message
<1>2. Handle(Message) BY Awaited
<1>3. /\ loop' = "input" /\ asked' = "answered" /\ last' \subseteq last
      /\ UNCHANGED <<waiting, running, batch, left, from, weights>>
  BY <1>1, <1>2 DEF Handle, Input, Flushed
<1>4. weights' \in [1 .. Tensors -> Nat \cup {Lost}] BY <1>3 DEF IInv, TypeOK, Contents
<1> QED BY <1>3, <1>4, AnsweredAtOnce

\* The flush with the last tensor is not refused.
LEMMA UpdateIInv == ASSUME IInv, Input, at = "sync" PROVE IInv'
<1>1. Message = UpdateMessage(next) BY DEF Message
<1>2. /\ Message.op = "update" /\ Message.tensor = next /\ Message.value = version
      /\ Message.flush = (next = Tensors)
  BY <1>1 DEF UpdateMessage
<1>3. Handle(Message) BY Awaited
<1>4. MayFlush
  <2>1. waiting = {} BY DEF IInv, Queues, Queued
  <2>2. running = {} BY DEF Input, IInv, Emptied
  <2> QED BY <2>1, <2>2 DEF MayFlush
<1>5. /\ loop' = "input" /\ asked' = "answered" /\ last' \subseteq last
      /\ weights' = [weights EXCEPT ![next] = version] /\ (next = Tensors => cached' = {})
      /\ UNCHANGED <<waiting, running, batch, left, from>>
  BY <1>2, <1>3, <1>4 DEF Handle, Input, Flushed
<1>6. next \in 1 .. Tensors /\ version \in Nat BY DEF IInv, TypeOK, Places
<1>7. weights' \in [1 .. Tensors -> Nat \cup {Lost}]
  BY <1>5, <1>6 DEF IInv, TypeOK, Contents
<1>8. \A t \in 1 .. next : weights'[t] = version
  <2> TAKE t \in 1 .. next
  <2>1. t \in 1 .. Tensors /\ (t = next \/ t \in 1 .. next - 1) BY <1>6, Bounds
  <2>2. t \in 1 .. next - 1 => weights[t] = version BY DEF IInv, Weights
  <2> QED BY <1>5, <1>6, <2>1, <2>2 DEF IInv, TypeOK, Contents
<1> QED BY <1>5, <1>7, <1>8, AnsweredAtOnce

LEMMA WarmUpArrivesIInv == ASSUME IInv, Input, at = "warmUp" PROVE IInv'
<1> USE DEF worker, memory
<1> DEFINE w == WarmUp(next)
<1>1. Message.op = "generate" /\ Message.req = w BY DEF Message
<1>2. Handle(Message) BY Awaited
<1>3. /\ loop' = "input" /\ waiting' = waiting \cup {w} /\ asked' = asked
      /\ UNCHANGED <<worker, memory, running, last, batch, left, from>>
  BY <1>1, <1>2 DEF Handle, Input
<1>4. /\ asked = "sent" /\ Unhandled = 1 /\ todo' = <<>> /\ inbox' = <<>> /\ Unhandled' = 0
  BY Awaited
<1>5. w \in Req /\ w[1] = call /\ w[2] = next /\ w' = w
  BY <1>3, WarmUpIsARequest DEF IInv, TypeOK, WarmUp
<1>6. left[w] > 0 BY <1>4, <1>5 DEF IInv, Unasked
<1>7. TypeOK'
  <2>1. Places' BY <1>3 DEF IInv, TypeOK, Places
  <2>2. Contents' BY <1>3, <1>4, <1>5 DEF IInv, TypeOK, Contents
  <2> QED BY <2>1, <2>2 DEF TypeOK
<1>8. Messages' BY <1>3, <1>4 DEF Messages
<1>9. Queues'
  <2>1. Queued = {} BY <1>4 DEF IInv, Queues
  <2>2. Filtered(running \cup last)' = {} /\ waiting = {} BY <1>3, <2>1 DEF Queued, Filtered
  <2>3. Queued' = {w} BY <1>3, <2>2 DEF Queued, Busy
  <2>4. at' = "warmUp" /\ asked' = "sent" BY <1>3, <1>4
  <2> QED BY <1>3, <1>4, <1>5, <1>6, <2>2, <2>3, <2>4 DEF Queues, Busy
<1>10. Unasked' BY <1>3, <1>4 DEF IInv, Unasked
<1>11. Weights' BY <1>3 DEF IInv, Weights, RolloutsAreOnPolicy
<1>12. Emptied' BY <1>3 DEF Emptied
<1> QED BY <1>7, <1>8, <1>9, <1>10, <1>11, <1>12 DEF IInv

LEMMA SampleArrivesIInv == ASSUME IInv, Input, at = "sample" PROVE IInv'
<1> USE DEF worker, memory
<1> DEFINE n == next - Unhandled
<1>1. /\ todo \in Seq(MessageSet) /\ todo # <<>> /\ todo' = Tail(todo) /\ inbox' = inbox
      /\ asked = "no" /\ Handle(Head(todo)) /\ Len(inbox) \in Nat
  BY DEF Input, IInv, TypeOK, Contents, Messages
<1>2. /\ Head(todo) = todo[1] /\ Tail(todo) \in Seq(MessageSet) /\ Len(todo) \in Nat \ {0}
      /\ Len(Tail(todo)) = Len(todo) - 1
      /\ \A j \in 1 .. Len(Tail(todo)) : Tail(todo)[j] = todo[j + 1] /\ j + 1 \in 1 .. Len(todo)
  BY <1>1, HeadTail
<1>3. Unhandled \in Nat \ {0} /\ Unhandled' = Unhandled - 1 BY <1>1, <1>2 DEF Unhandled
<1>4. next \in 1 .. Prompts * Samples + 1 /\ Unhandled < next
  BY DEF IInv, TypeOK, Places, Messages
<1>5. n \in 1 .. Prompts * Samples /\ n \in Nat \ {0} BY <1>3, <1>4, Product
<1>6. Head(todo) = [op |-> "generate", req |-> Nth(n)]
  <2>1. 1 \in 1 .. Len(todo) /\ next - 1 - Unhandled + 1 = n BY <1>2, <1>3, <1>4
  <2>2. todo[1] = [op |-> "generate", req |-> Nth(next - 1 - Unhandled + 1)]
    BY <2>1 DEF IInv, Messages
  <2> QED BY <1>2, <2>1, <2>2
<1>7. Head(todo).op = "generate" /\ Head(todo).req = Nth(n) BY <1>6
<1>8. /\ loop = "input" /\ loop' = "input" /\ waiting' = waiting \cup {Nth(n)} /\ asked' = asked
      /\ UNCHANGED <<worker, memory, running, last, batch, left, from>>
  BY <1>1, <1>7 DEF Handle, Input
<1>9. Nth(n) \in Req BY <1>5, NthIsASample DEF IInv, TypeOK
<1>10. left[Nth(n)] > 0
  <2>1. n \in next - Unhandled .. Prompts * Samples BY <1>5, Product
  <2> QED BY <2>1 DEF IInv, Unasked
<1>11. \A k : Nth(k)' = Nth(k) BY <1>8 DEF Nth
<1>12. TypeOK'
  <2>1. Places' BY <1>8 DEF IInv, TypeOK, Places
  <2>2. Contents' BY <1>1, <1>2, <1>8, <1>9 DEF IInv, TypeOK, Contents
  <2> QED BY <2>1, <2>2 DEF TypeOK
<1>13. Messages'
  <2>1. Unhandled' < next' BY <1>3, <1>4, <1>8
  <2>2. ASSUME NEW j \in 1 .. Len(todo')
        PROVE  todo'[j] = [op |-> "generate", req |-> Nth(next - 1 - Unhandled' + j)]
    <3>1. todo'[j] = todo[j + 1] /\ j + 1 \in 1 .. Len(todo) BY <1>1, <1>2
    <3>2. next - 1 - Unhandled + (j + 1) = next - 1 - Unhandled' + j BY <1>1, <1>2, <1>3, <1>4
    <3>3. todo[j + 1] = [op |-> "generate", req |-> Nth(next - 1 - Unhandled + (j + 1))]
      BY <3>1 DEF IInv, Messages
    <3> QED BY <3>1, <3>2, <3>3
  <2>3. \A j \in 1 .. Len(inbox') : inbox'[j] = [op |-> "generate", req |-> Nth(next - 1 - Len(inbox') + j)]
    BY <1>1 DEF IInv, Messages
  <2> QED BY <1>1, <1>8, <1>11, <2>1, <2>2, <2>3 DEF Messages
<1>14. Queues'
  <2>1. Queued' \subseteq Queued \cup {Nth(n)}
    BY <1>8 DEF Queued, Busy, Filtered
  <2>2. n = next - 1 - Unhandled' /\ n \in 1 .. next - 1 - Unhandled' BY <1>3, <1>4, <1>5
  <2>3. ASSUME NEW r \in Queued' PROVE left'[r] > 0 /\ \E k \in 1 .. next - 1 - Unhandled' : r = Nth(k)
    <3>1. CASE r = Nth(n) BY <1>8, <1>10, <2>2, <3>1
    <3>2. CASE r \in Queued
      <4>1. left[r] > 0 BY <3>2 DEF IInv, Queues
      <4>2. PICK k \in 1 .. next - 1 - Unhandled : r = Nth(k) BY <3>2 DEF IInv, Queues
      <4>3. k \in 1 .. next - 1 - Unhandled' BY <1>3, <1>4
      <4> QED BY <1>8, <4>1, <4>2, <4>3
    <3> QED BY <2>1, <3>1, <3>2
  <2>4. Nth(n) \notin Filtered(running \cup last)
    <3> SUFFICES ASSUME Nth(n) \in Filtered(running \cup last) PROVE FALSE
      OBVIOUS
    <3>1. PICK k \in 1 .. next - 1 - Unhandled : Nth(n) = Nth(k) BY DEF IInv, Queues, Queued
    <3>2. k \in Nat \ {0} /\ k < n BY <1>3, <1>4
    <3> QED BY <1>5, <3>1, <3>2, NthInjective
  <2>5. Filtered(running \cup last)' = Filtered(running \cup last) BY <1>8 DEF Filtered
  <2>6. waiting' \cap Filtered(running \cup last)' = {} BY <1>8, <2>4, <2>5 DEF IInv, Queues
  <2>7. at' = "sample" /\ next' = next /\ ~Busy' BY <1>8 DEF Busy
  <2> HIDE DEF n
  <2> QED BY <1>11, <2>3, <2>6, <2>7 DEF Queues
<1>15. Unasked'
  <2>1. next - Unhandled' .. Prompts * Samples \subseteq next - Unhandled .. Prompts * Samples
    BY <1>3, <1>4, Product
  <2> QED BY <1>8, <1>11, <2>1 DEF IInv, Unasked
<1>16. Weights' BY <1>8 DEF IInv, Weights, RolloutsAreOnPolicy
<1>17. Emptied' BY <1>8 DEF Emptied
<1> QED BY <1>12, <1>13, <1>14, <1>15, <1>16, <1>17 DEF IInv

-------------------------------------------------------------------------------
LEMMA SchedulerIInv == ASSUME IInv, Scheduler PROVE IInv'
<1>1. CASE Input
  <2>1. at # "sample" => at # "idle" BY <1>1, Awaited
  <2>2. at \in {"reload", "resume", "sync", "warmUp", "sample", "flush", "release"}
    BY <2>1 DEF IInv, TypeOK, Places
  <2> QED BY <1>1, <2>2, ReleaseIInv, ResumeIInv, UpdateIInv, WarmUpArrivesIInv,
             SampleArrivesIInv, FlushIInv
<1>2. CASE Recv BY <1>2, RecvIInv
<1>3. CASE InputEnds BY <1>3, InputEndsIInv
<1>4. CASE NoBatch BY <1>4, NoBatchIInv
<1>5. CASE Run BY <1>5, RunIInv
<1>6. CASE \E R \in SUBSET waiting : Prefill(R) BY <1>6, PrefillIInv
<1>7. CASE \E R \in SUBSET Merged : Decode(R) BY <1>7, DecodeIInv
<1>8. CASE \E R \in SUBSET batch : Result(R) BY <1>8, ResultIInv
<1> QED BY <1>1, <1>2, <1>3, <1>4, <1>5, <1>6, <1>7, <1>8 DEF Scheduler

LEMMA WorkerIInv == ASSUME IInv, Worker PROVE IInv'
BY CallIInv, SendIInv, ProceedIInv, SendSampleIInv, GatherIInv DEF Worker

LEMMA StutterIInv == ASSUME IInv, UNCHANGED vars PROVE IInv'
<1> USE DEF vars, worker, memory, queue
<1>1. /\ Message' = Message /\ (\A k : Nth(k)' = Nth(k)) /\ WarmUp(next)' = WarmUp(next)
      /\ Unhandled' = Unhandled /\ Queued' = Queued
  BY DEF Message, Nth, WarmUp, UpdateMessage, Unhandled, Queued, Busy, Filtered
<1>2. TypeOK' BY DEF IInv, TypeOK, Places, Contents
<1>3. Messages' BY <1>1 DEF IInv, Messages
<1>4. Queues' BY <1>1 DEF IInv, Queues, Busy, Filtered
<1>5. Unasked' BY <1>1 DEF IInv, Unasked
<1>6. Weights' BY DEF IInv, Weights, RolloutsAreOnPolicy
<1>7. Emptied' BY DEF IInv, Emptied
<1> QED BY <1>2, <1>3, <1>4, <1>5, <1>6, <1>7 DEF IInv

LEMMA Inductive == Spec => []IInv
<1>1. IInv /\ [Next]_vars => IInv'
  BY SchedulerIInv, WorkerIInv, StutterIInv DEF Next
<1> QED BY <1>1, InitIInv, PTL DEF Spec

\* The engine's state is what it may be; above all the scheduler does not die.
THEOREM EngineTyped == Spec => []TypeOK
<1>1. IInv => TypeOK BY DEF IInv
<1> QED BY <1>1, Inductive, PTL

\* Whatever a request is computed from comes from the weights of its call:
\* update_weights and flush_cache of one call are done before its first prefill.
THEOREM OnPolicy == Spec => []RolloutsAreOnPolicy
<1>1. IInv => RolloutsAreOnPolicy BY DEF IInv, Weights
<1> QED BY <1>1, Inductive, PTL

\* A message that flushes comes when nothing is unfinished, in waiting_queue,
\* running_batch or last_batch, which flush_cache does not look at.
LEMMA FlushLosesNothing == Spec => []NothingLiveIsFlushed
<1>1. IInv => NothingLiveIsFlushed
  <2> SUFFICES ASSUME IInv, loop = "input", todo # <<>>, Flushes(Head(todo))
               PROVE  waiting = {} /\ Filtered(running \cup last) = {}
    BY DEF NothingLiveIsFlushed
  <2>1. todo \in Seq(MessageSet) BY DEF IInv, TypeOK, Contents
  <2>2. Head(todo) = todo[1] /\ 1 \in 1 .. Len(todo) BY <2>1, HeadTail
  <2>3. Head(todo).op # "generate" BY DEF Flushes
  <2>4. at # "sample"
    <3>1. at = "sample" => todo[1] = [op |-> "generate", req |-> Nth(next - 1 - Unhandled + 1)]
      BY <2>2 DEF IInv, Messages
    <3> QED BY <2>2, <2>3, <3>1
  <2>5. at # "warmUp"
    <3>1. at = "warmUp" => todo = <<Message>> BY <2>4 DEF IInv, Messages
    <3>2. at = "warmUp" => Message.op = "generate" BY DEF Message
    <3> QED BY <2>2, <2>3, <3>1, <3>2
  <2>6. Queued = {} BY <2>4, <2>5 DEF IInv, Queues, TypeOK, Places
  <2> QED BY <2>6 DEF Queued
<1> QED BY <1>1, Inductive, PTL

\* No flush loses a live request, and the one update_weights_from_tensor asserts
\* is never refused, however soon the last tensor follows the last answer of the
\* call before.
THEOREM FlushIsNeverRefused == Spec => []FlushSucceeds
<1>1. IInv => loop # "dead" BY DEF IInv, TypeOK, Contents
<1>2. NothingLiveIsFlushed /\ loop # "dead" => FlushSucceeds BY DEF FlushSucceeds
<1> QED BY <1>1, <1>2, FlushLosesNothing, Inductive, PTL
===============================================================================
