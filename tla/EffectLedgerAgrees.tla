-------------------------- MODULE EffectLedgerAgrees --------------------------
(***************************************************************************)
(* The ledger, the checkpoint and the wait of an LLM node agree, and no    *)
(* recovery is refused, where every executor ends with its attempt and no  *)
(* policy repeats what ran into its deadline: for every value of the       *)
(* limits, every batch, any crashes, commands and decisions of people.     *)
(*                                                                         *)
(* The inductive invariant (Agreement) says of every call that its row and *)
(* the checkpoint agree (CallsAgree), of the executor that it works with   *)
(* the stored checkpoint and where it may stand (StepFits), of what was    *)
(* sent that it is the last thing the held attempt did (InProgress), and   *)
(* what waits and ends say of the calls (WaitFits, Finished).              *)
(***************************************************************************)
EXTENDS EffectLedgerProofs, FiniteSetTheorems

(***************************************************************************)
(* Agreement.                                                              *)
(***************************************************************************)
Live == run.status \notin Terminal
\* The statuses of calls that are not over.
OpenStatus == {"validated", "awaiting_approval", "prepared", "running", "retry_ready", "outcome_unknown"}

LastOf(r) == r.tries[Len(r.tries)]
\* The effect and the last try of a row say what its status says.
RowAgrees(r) ==
    /\ r.effect \in {"pending", "outcome_unknown"} <=>
         r.status \in {"prepared", "running", "retry_ready", "outcome_unknown"}
    /\ r.effect = "outcome_unknown" <=> r.status = "outcome_unknown"
    /\ r.status \in {"validated", "awaiting_approval"} => r.effect = "none"
    /\ (r.tries # <<>> /\ LastOf(r).status = "started") <=> r.status = "running"
    /\ (r.tries # <<>> /\ LastOf(r).status = "prepared") <=> r.status = "prepared"

\* What a checkpoint says of a call is what its row says.
Says(s, r) == s # "absent" => r.status = IF s = "requested" THEN "absent" ELSE s
\* ... and a call that is not over is in the checkpoint.
Agrees(s, r) ==
    /\ RowAgrees(r) /\ Says(s, r)
    /\ r.status \in OpenStatus => s # "absent"
CallsAgree == \A c \in Calls : Agrees(StatusIn(ckpt, c), ledger[c])

\* How far the parts of a checkpoint may be.
Steady ==
    /\ ckpt.by = 0 => ckpt.model = 0 /\ ckpt.count.no = 0
    /\ ckpt.count.no = 0 => ckpt.count.status = "absent"
    /\ ckpt.model = 0 => ckpt.status = "absent" /\ ckpt.batch = <<>>
    /\ ckpt.model > 0 => ckpt.count.status \notin OpenStatus
    /\ ckpt.repairing => ckpt.batch = <<>> /\ ckpt.status = "completed"
    /\ ckpt.status \notin {"validated", "awaiting_approval"}
    /\ ckpt.count.status \notin {"validated", "awaiting_approval"}

\* Executors end with their attempts.
NoneLate == \A a \in Attempts : exec[a].pc # "gone" => Held(a)

\* The checkpoint with a batch that was planned and not yet stored.
Plans(ck) ==
    /\ ckpt.batch = <<>> /\ ~ckpt.repairing /\ ck = [ckpt EXCEPT !.batch = ck.batch]
    /\ \A i \in DOMAIN ck.batch : ck.batch[i] = "requested"
\* An executor works with the stored checkpoint, and stands where it allows.
StepFits(a) ==
    LET pc == exec[a].pc IN
    pc \notin {"gone", "resume"} =>
      /\ exec[a].ck = ckpt \/ (pc = "dispatch" /\ Plans(exec[a].ck))
      /\ pc \in {"count", "counting", "counted", "trim"} => ckpt.model = 0
      /\ pc \in {"count", "trim"} => ckpt.count.status \in {"absent", "completed", "retry_ready"}
      /\ pc = "trim" => ckpt.count.status # "retry_ready"
      /\ pc \in {"counting", "counted"} => ckpt.count.no # 0
      /\ pc = "counting" => ckpt.mark = Watermark(<<0, ckpt.count.no>>)
      /\ pc = "call" => /\ ckpt.status \notin OpenStatus /\ ckpt.count.status \notin OpenStatus
                        /\ \A i \in DOMAIN ckpt.batch : ckpt.batch[i] \notin OpenStatus
      /\ pc = "plan" => ckpt.batch = <<>> /\ ~ckpt.repairing
      /\ pc = "send" => ckpt.mark = Watermark(<<ckpt.model>>)
      /\ pc \in {"dispatch", "redispatch", "tool", "retool"} => ckpt.status = "completed"
      /\ pc \in {"tool", "retool"} =>
           \E i \in DOMAIN ckpt.batch : ckpt.batch[i] = "running" /\ ckpt.mark = Watermark(Tool(ckpt, i))

\* Where the executor of a call that was sent stands.
PcsOf(c) == IF IsModel(c) THEN {"receive"} ELSE IF IsCount(c) THEN {"counted"} ELSE {"tool", "retool"}
\* What was sent was sent by the attempt that holds the node, and is the last thing it did; a
\* model call that is prepared is its too.
SentFits ==
    \A c \in Calls : StatusIn(ckpt, c) = "running" =>
      /\ Held(Current) /\ LastTry(c).by = Current /\ ckpt.mark = Watermark(c)
      /\ exec[Current].pc \in {"gone"} \cup PcsOf(c)
ModelFits ==
    ckpt.status = "prepared" =>
      /\ Held(Current) /\ LastTry(<<ckpt.model>>).by = Current
      /\ exec[Current].pc \in {"gone", "send"}
\* The checkpoint names the attempt that has prepared calls last.
PreparedFits ==
    \A c \in Calls : ledger[c].status = "prepared" /\ LastTry(c).by = Current => ckpt.by = Current
InProgress == SentFits /\ ModelFits /\ PreparedFits

\* At most one call is unknown, and then the node waits for just that.
WaitFits ==
    /\ wait.kind = "none" => wait = NoWait
    /\ \A c \in Calls : ledger[c].status = "outcome_unknown" => wait.kind = "effect" /\ wait.blockers = {c}
    /\ wait.kind = "approval" => ckpt.status = "completed"
    /\ wait.kind = "effect" => wait.blockers # {}

\* A node that is over has no call that is not, and nothing left but a settlement, which
\* comes when all the others are over.
Finished ==
    /\ "settle" \in wakeups \/ run.status = "interrupted" => ~other
    /\ node = "completed" =>
         /\ \A c \in Calls : ledger[c].status \notin OpenStatus
         /\ wait = NoWait /\ wakeups \subseteq {"settle"} /\ attempts[Current].status = "completed"

\* The limits.
ModelsBounded ==
    /\ ckpt.model \in 0 .. MaxModelCalls /\ ckpt.by \in 0 .. MaxAttempts
    /\ ckpt.count.no \in 0 .. MaxCounts /\ ckpt.calls \in Batches
TriesBounded == \A c \in Calls : \A t \in DOMAIN ledger[c].tries : ledger[c].tries[t].by \in DOMAIN attempts
RunBounded ==
    /\ run.epoch \in 0 .. MaxEpoch + 1
    /\ Live => run.epoch \in 0 .. MaxEpoch
    /\ node \in Active \cup {"waiting", "completed", "failed", "cancelled"}
    /\ other \in BOOLEAN /\ wakeups \subseteq {"ready", "claimed", "settle"}
    /\ Len(attempts) \in 1 .. MaxAttempts
    /\ wait.kind \in {"none", "approval", "memory", "effect"} /\ wait.blockers \subseteq Calls
Bounded == ModelsBounded /\ TriesBounded /\ RunBounded

\* Of a run that goes on, and of one that is over.
Going == CallsAgree /\ Steady /\ (\A a \in Attempts : StepFits(a)) /\ InProgress /\ WaitFits /\ Finished
AtRest == TerminalIsFenced /\ CheckpointMatchesLedger /\ \A a \in Attempts : exec[a].pc = "gone"
Agreement ==
    /\ LedgerInv /\ Bounded /\ NoneLate
    /\ Live => Going
    /\ ~Live => AtRest

(***************************************************************************)
(* The names of calls, and what a checkpoint says of them.                 *)
(***************************************************************************)
\* What is a natural for finitely many arguments is bounded.
LEMMA FinitelyBounded ==
  ASSUME NEW S, IsFiniteSet(S), NEW f, \A x \in S : f[x] \in Nat
  PROVE  \E n \in Nat : \A x \in S : f[x] =< n
<1>0. PICK n \in Nat : \E g \in [1 .. n -> S] : \A x \in S : \E i \in 1 .. n : g[i] = x
  BY FS_NatSurjection DEF ExistsSurjection, Surjection
<1>1. PICK g \in [1 .. n -> S] : \A x \in S : \E i \in 1 .. n : g[i] = x
  BY <1>0
<1> DEFINE Caps(k) == \E m \in Nat : \A i \in 1 .. k : f[g[i]] =< m
           Uncapped == {k \in 0 .. n : ~Caps(k)}
<1> HIDE DEF Caps
<1>9. Caps(0) /\ (\A k \in 0 .. n : k \in Uncapped <=> ~Caps(k)) /\ Uncapped \subseteq 0 .. n
  <2>1. 0 \in Nat /\ \A i \in 1 .. 0 : f[g[i]] =< 0
    OBVIOUS
  <2> QED BY <2>1 DEF Caps
<1> HIDE DEF Uncapped
<1>2. CASE Uncapped = {}
  <2>1. n \in 0 .. n
    OBVIOUS
  <2>2. PICK m \in Nat : \A i \in 1 .. n : f[g[i]] =< m
    BY <1>2, <1>9, <2>1 DEF Caps
  <2> QED BY <1>1, <2>2
<1>3. CASE Uncapped # {}
  <2>1. Uncapped \subseteq Nat
    BY <1>9
  <2>2. PICK k \in Uncapped : \A j \in Uncapped : k =< j
    BY <1>3, <2>1, Least
  <2>3. k \in 0 .. n /\ ~Caps(k)
    BY <1>9
  <2>4. k # 0
    BY <1>9, <2>3
  <2>5. k - 1 \in 0 .. n /\ k - 1 \notin Uncapped
    BY <2>2, <2>3, <2>4
  <2>6. PICK m \in Nat : \A i \in 1 .. k - 1 : f[g[i]] =< m
    BY <1>9, <2>5 DEF Caps
  <2>7. f[g[k]] \in Nat
    BY <1>1, <2>3, <2>4
  <2>8. PICK top \in Nat : m =< top /\ f[g[k]] =< top
    <3>1. CASE m =< f[g[k]]
      BY <2>7, <3>1
    <3>2. CASE ~(m =< f[g[k]])
      BY <2>6, <2>7, <3>2
    <3> QED BY <3>1, <3>2
  <2>9. \A i \in 1 .. k : f[g[i]] =< top
    <3> SUFFICES ASSUME NEW i \in 1 .. k PROVE f[g[i]] =< top
      OBVIOUS
    <3>1. f[g[i]] \in Nat
      BY <1>1, <2>3
    <3>2. CASE i = k
      BY <2>8, <3>2
    <3>3. CASE i \in 1 .. k - 1
      BY <2>6, <2>8, <3>1, <3>3
    <3> QED BY <2>3, <3>2, <3>3
  <2> QED BY <2>3, <2>9 DEF Caps
<1> QED BY <1>2, <1>3

\* No batch is longer than the longest, and there is a longest.
LEMMA BatchLengths == MaxBatch \in Nat /\ \A b \in Batches : Len(b) \in 0 .. MaxBatch
<1> DEFINE f == [b \in Batches |-> Len(b)]
           T == {Len(b) : b \in Batches}
<1>1. \A b \in Batches : Len(b) \in Nat
  BY LedgerAssumption
<1>2. PICK n \in Nat : \A b \in Batches : Len(b) =< n
  <2>1. \A b \in Batches : f[b] \in Nat /\ f[b] = Len(b)
    BY <1>1
  <2> HIDE DEF f
  <2>2. \E n \in Nat : \A b \in Batches : f[b] =< n
    BY <2>1, FinitelyBounded, LedgerAssumption
  <2> QED BY <2>1, <2>2
<1> DEFINE Below == {n - x : x \in T}
<1>3. T # {} /\ T \subseteq Nat /\ \A x \in T : x =< n
  BY <1>1, <1>2, LedgerAssumption
<1> HIDE DEF T
<1>4. Below \subseteq Nat /\ Below # {}
  <2>1. ASSUME NEW x \in T PROVE n - x \in Nat
    BY <1>3
  <2> QED BY <1>3, <2>1
<1>5. PICK z \in Below : \A y \in Below : z =< y
  <2> HIDE DEF Below
  <2> QED BY <1>4, Least
<1>6. PICK x \in T : z = n - x
  OBVIOUS
<1>7. \A y \in T : x >= y
  <2> SUFFICES ASSUME NEW y \in T PROVE x >= y
    OBVIOUS
  <2>1. n - x =< n - y
    BY <1>5, <1>6
  <2> QED BY <1>3, <2>1
<1>8. Max(T) \in T /\ \A y \in T : Max(T) >= y
  BY <1>7 DEF Max
<1>9. MaxBatch = Max(T)
  BY DEF MaxBatch, T
<1>10. \A b \in Batches : Len(b) \in T
  BY DEF T
<1>11. MaxBatch \in Nat /\ \A y \in T : y \in Nat /\ MaxBatch >= y
  BY <1>3, <1>8, <1>9
<1> QED BY <1>10, <1>11

\* The names there are, and that a name is known by its parts.
LEMMA Names ==
  /\ \A m \in Models : <<m>> \in Calls /\ IsModel(<<m>>)
  /\ \A m \in Models, i \in 1 .. MaxBatch : <<m, i>> \in Calls /\ IsTool(<<m, i>>) /\ ~IsModel(<<m, i>>)
  /\ \A k \in 1 .. MaxCounts : <<0, k>> \in Calls /\ IsCount(<<0, k>>) /\ ~IsModel(<<0, k>>)
  /\ \A c \in Calls : IsTool(c) <=> ~IsModel(c) /\ ~IsCount(c)
  /\ \A c \in Calls : IsCount(c) => ~IsModel(c) /\ c[2] \in 1 .. MaxCounts
  /\ \A c \in Calls : IsModel(c) => c[1] \in Models
  /\ \A c \in Calls : ~IsModel(c) /\ ~IsCount(c) => c[1] \in Models /\ c[2] \in 1 .. MaxBatch
<1>1. Models \subseteq Nat \ {0} /\ 0 \notin Models
  BY LedgerAssumption DEF Models
<1>2. \A m \in Models : <<m>> \in Calls /\ IsModel(<<m>>) /\ ~IsCount(<<m>>)
  BY <1>1 DEF Calls, IsModel, IsCount
<1>3. \A m \in Models, i \in 1 .. MaxBatch : <<m, i>> \in Calls /\ IsTool(<<m, i>>) /\ ~IsModel(<<m, i>>)
  BY <1>1 DEF Calls, IsTool, IsModel, IsCount
<1>4. \A k \in 1 .. MaxCounts : <<0, k>> \in Calls /\ IsCount(<<0, k>>) /\ ~IsModel(<<0, k>>)
  BY DEF Calls, IsModel, IsCount
<1>5. \A c \in Calls : \/ \E m \in Models : c = <<m>>
                       \/ \E m \in Models, i \in 1 .. MaxBatch : c = <<m, i>>
                       \/ \E k \in 1 .. MaxCounts : c = <<0, k>>
  BY DEF Calls
<1>6. \A c \in Calls : IsCount(c) => ~IsModel(c) /\ c[2] \in 1 .. MaxCounts
  BY <1>1, <1>2, <1>4, <1>5 DEF IsCount
<1>7. \A c \in Calls : IsModel(c) => c[1] \in Models
  BY <1>3, <1>4, <1>5
<1>8. \A c \in Calls : ~IsModel(c) /\ ~IsCount(c) => c[1] \in Models /\ c[2] \in 1 .. MaxBatch
  BY <1>2, <1>4, <1>5
<1> QED BY <1>2, <1>3, <1>4, <1>6, <1>7, <1>8 DEF IsTool

\* Two names with the same parts are one.
LEMMA SameName ==
  ASSUME NEW c \in Calls, NEW d \in Calls, c[1] = d[1], IsModel(c) <=> IsModel(d), ~IsModel(c) => c[2] = d[2]
  PROVE  c = d
<1>1. /\ IsModel(c) => c = <<c[1]>>
      /\ ~IsModel(c) => c = <<c[1], c[2]>>
  BY CallForms, Names DEF IsTool, IsCount
<1>2. /\ IsModel(d) => d = <<d[1]>>
      /\ ~IsModel(d) => d = <<d[1], d[2]>>
  BY CallForms, Names DEF IsTool, IsCount
<1> QED BY <1>1, <1>2

\* The call whose last try a watermark names.
LEMMA MarksDiffer ==
  ASSUME RowsShaped, TriesFit, NEW c \in Calls, NEW d \in Calls, Watermark(c) = Watermark(d)
  PROVE  c = d
<1>1. Models \subseteq Nat
  BY LedgerAssumption DEF Models
<1>2. \A e \in Calls : e \in Seq(Nat) /\ LatestTry(e) \in Nat
  <2> SUFFICES ASSUME NEW e \in Calls PROVE e \in Seq(Nat)
    BY RowFacts
  <2>1. CASE \E m \in Models : e = <<m>>
    <3>1. PICK m \in Models : e = <<m>>
      BY <2>1
    <3>2. m \in Nat
      BY <1>1
    <3> QED BY <3>1, <3>2
  <2>2. CASE \E m \in Models, i \in 1 .. MaxBatch : e = <<m, i>>
    <3>1. PICK m \in Models, i \in 1 .. MaxBatch : e = <<m, i>>
      BY <2>2
    <3>2. m \in Nat /\ i \in Nat
      BY <1>1, BatchLengths
    <3> QED BY <3>1, <3>2
  <2>3. CASE \E k \in 1 .. MaxCounts : e = <<0, k>>
    BY <2>3, LedgerAssumption
  <2> QED BY <2>1, <2>2, <2>3 DEF Calls
<1>3. \A e \in Calls : /\ Watermark(e) \in Seq(Nat) /\ Len(Watermark(e)) = Len(e) + 1
                       /\ \A i \in 1 .. Len(e) : Watermark(e)[i] = e[i]
  BY <1>2 DEF Watermark
<1>4. c \in Seq(Nat) /\ d \in Seq(Nat) /\ Len(c) = Len(d)
  <2>1. Len(c) \in Nat /\ Len(d) \in Nat /\ Len(c) + 1 = Len(d) + 1
    BY <1>2, <1>3
  <2> QED BY <1>2, <2>1
<1>5. \A i \in 1 .. Len(c) : c[i] = d[i]
  BY <1>3, <1>4
<1> QED BY <1>4, <1>5

\* The least member of some naturals.
LEMMA MinIsLeast ==
  ASSUME NEW S, S \subseteq Nat, S # {}
  PROVE  \A x \in S : Min(S) =< x
BY Least DEF Min

\* What a checkpoint says of the calls that are not its model call.
LEMMA ModelSays ==
  ASSUME NEW ck, NEW new, NEW status, ck.model \in Models, new.model = ck.model, new.status = status,
         new.count.no = ck.count.no, new.count.status = ck.count.status, new.batch = ck.batch
  PROVE  \A d \in Calls : StatusIn(new, d) = IF d = <<ck.model>> THEN status ELSE StatusIn(ck, d)
<1> SUFFICES ASSUME NEW d \in Calls
             PROVE  StatusIn(new, d) = IF d = <<ck.model>> THEN status ELSE StatusIn(ck, d)
  OBVIOUS
<1>1. IsModel(<<ck.model>>) /\ <<ck.model>> \in Calls /\ <<ck.model>>[1] = ck.model
  BY Names
<1>2. IsModel(d) /\ d[1] = ck.model => d = <<ck.model>>
  BY <1>1, SameName
<1>3. CASE d = <<ck.model>>
  BY <1>1, <1>3 DEF StatusIn
<1>4. CASE d # <<ck.model>>
  BY <1>2, <1>4 DEF StatusIn
<1> QED BY <1>3, <1>4

\* ... that are not its count
LEMMA CountSays ==
  ASSUME NEW ck, NEW new, NEW status, ck.count.no \in 1 .. MaxCounts, new.model = ck.model,
         new.status = ck.status, new.count.no = ck.count.no, new.count.status = status, new.batch = ck.batch
  PROVE  \A d \in Calls : StatusIn(new, d) = IF d = <<0, ck.count.no>> THEN status ELSE StatusIn(ck, d)
<1> SUFFICES ASSUME NEW d \in Calls
             PROVE  StatusIn(new, d) = IF d = <<0, ck.count.no>> THEN status ELSE StatusIn(ck, d)
  OBVIOUS
<1> DEFINE c == <<0, ck.count.no>>
<1>1. IsCount(c) /\ ~IsModel(c) /\ c \in Calls /\ c[1] = 0 /\ c[2] = ck.count.no
  BY Names
<1> HIDE DEF c
<1>2. ~IsModel(d) /\ IsCount(d) /\ d[2] = ck.count.no => d = c
  BY <1>1, SameName DEF IsCount
<1>3. CASE d = c
  BY <1>1, <1>3 DEF StatusIn, c
<1>4. CASE d # c
  BY <1>2, <1>4 DEF StatusIn, c
<1> QED BY <1>3, <1>4

\* ... that are not one of its batch
LEMMA ToolSays ==
  ASSUME NEW ck, NEW new, NEW status, NEW c \in Calls, ~IsModel(c), ~IsCount(c), c[1] = ck.model,
         c[2] \in DOMAIN ck.batch, new.model = ck.model, new.status = ck.status, new.count.no = ck.count.no,
         new.count.status = ck.count.status, DOMAIN new.batch = DOMAIN ck.batch, new.batch[c[2]] = status,
         \A j \in DOMAIN ck.batch : j # c[2] => new.batch[j] = ck.batch[j]
  PROVE  \A d \in Calls : StatusIn(new, d) = IF d = c THEN status ELSE StatusIn(ck, d)
<1> SUFFICES ASSUME NEW d \in Calls
             PROVE  StatusIn(new, d) = IF d = c THEN status ELSE StatusIn(ck, d)
  OBVIOUS
<1>1. ~IsModel(d) /\ ~IsCount(d) /\ d[1] = ck.model /\ d[2] = c[2] => d = c
  BY SameName
<1>2. CASE d = c
  BY <1>2 DEF StatusIn
<1>3. CASE d # c
  BY <1>1, <1>3 DEF StatusIn
<1> QED BY <1>2, <1>3

\* ... when none of its statuses changes.
LEMMA SameSays ==
  ASSUME NEW ck, NEW new, new.model = ck.model, new.status = ck.status, new.count.no = ck.count.no,
         new.count.status = ck.count.status, new.batch = ck.batch
  PROVE  \A d : StatusIn(new, d) = StatusIn(ck, d)
BY DEF StatusIn

(***************************************************************************)
(* Rows that agree with themselves.                                        *)
(***************************************************************************)
\* Every try of a row is made for one of the first n attempts.
MadeFor(r, n) == \A t \in DOMAIN r.tries : r.tries[t].by \in 1 .. n

\* What may become of the last try of a call, and what its row says then.
Moves == {<<"running", "pending", "started">>, <<"completed", "succeeded", "succeeded">>,
          <<"failed", "failed", "failed">>, <<"outcome_unknown", "outcome_unknown", "outcome_unknown">>,
          <<"retry_ready", "pending", "outcome_unknown">>,
          <<"retry_ready", "pending", "superseded_before_start">>}

\* A row that is prepared.
LEMMA PreparedAgrees ==
  ASSUME NEW class \in Classes, NEW a \in Nat
  PROVE  /\ RowAgrees(Prepared(class, a)) /\ Prepared(class, a).status = "prepared"
         /\ Len(Prepared(class, a).tries) = 1 /\ Prepared(class, a).tries[1].by = a
         /\ \A n \in Nat : a \in 1 .. n => MadeFor(Prepared(class, a), n)
<1> DEFINE s == Prepared(class, a)
<1>1. s = [status |-> "prepared", class |-> class, effect |-> "pending", tries |-> <<NewTry(a)>>]
  BY DEF Prepared
<1>2. s.status = "prepared" /\ s.effect = "pending" /\ s.tries = <<NewTry(a)>>
  BY <1>1
<1>3. s.tries # <<>> /\ Len(s.tries) = 1 /\ s.tries[1] = NewTry(a) /\ DOMAIN s.tries = {1}
  BY <1>2
<1>4. NewTry(a).status = "prepared" /\ NewTry(a).by = a
  BY DEF NewTry
<1> HIDE DEF s
<1>5. RowAgrees(s)
  BY <1>2, <1>3, <1>4 DEF RowAgrees, LastOf
<1> QED BY <1>2, <1>3, <1>4, <1>5 DEF MadeFor, s

\* A row whose last try moves.
LEMMA MovedAgrees ==
  ASSUME RowsShaped, TriesFit, NEW c \in Calls, LatestTry(c) > 0, NEW status, NEW effect, NEW t,
         <<status, effect, t>> \in Moves, t = "superseded_before_start" => LastTry(c).status = "prepared"
  PROVE  /\ RowAgrees(Moved(c, status, effect, t)) /\ Moved(c, status, effect, t).status = status
         /\ Len(Moved(c, status, effect, t).tries) = LatestTry(c)
         /\ Moved(c, status, effect, t).tries[LatestTry(c)].by = LastTry(c).by
         /\ \A n \in Nat : MadeFor(ledger[c], n) => MadeFor(Moved(c, status, effect, t), n)
<1> DEFINE s == Moved(c, status, effect, t)
<1>1. /\ ledger[c] \in CallRow /\ Fitting(ledger[c]) /\ LatestTry(c) \in Nat
  BY RowFacts
<1>2. /\ status \in CallStatus /\ effect \in EffectStatus /\ t \in TryStatus
      /\ t \notin {"prepared"} /\ status \notin {"absent", "validated", "awaiting_approval"}
      /\ t = "superseded_before_start" => ~Sent(LastTry(c))
  BY DEF Moves, CallStatus, EffectStatus, TryStatus, Sent
<1>3. /\ Lawful(TRUE, ledger[c], s) /\ Len(s.tries) = LatestTry(c)
      /\ s.tries[LatestTry(c)] = [LastTry(c) EXCEPT !.status = t]
  <2>1. PICK counted : counted
    OBVIOUS
  <2>2. t # "prepared"
    BY <1>2
  <2> HIDE DEF s
  <2>4. Lawful(counted, ledger[c], Moved(c, status, effect, t))
    BY <1>1, <1>2, <2>1, <2>2, MovedRow
  <2>5. Moved(c, status, effect, t).tries[LatestTry(c)] = [LastTry(c) EXCEPT !.status = t]
    BY <1>1, <1>2, <2>1, <2>2, MovedRow
  <2>6. Len(Moved(c, status, effect, t).tries) = LatestTry(c)
    BY <1>1, <1>2, <2>1, <2>2, <2>4, <2>5, MovedRow
  <2> QED BY <2>1, <2>4, <2>5, <2>6 DEF Lawful, s
<1>4. s.status = status /\ s.effect = effect
  BY <1>1 DEF Moved, CallRow
<1>5. LastTry(c) \in TryRow
  BY <1>1 DEF LastTry, LatestTry, CallRow
<1>6. s \in CallRow /\ s.tries \in Seq(TryRow) /\ s.tries # <<>> /\ LastOf(s).status = t
  BY <1>1, <1>3, <1>5 DEF Lawful, CallRow, LastOf, TryRow
<1>7. s.tries[LatestTry(c)].by = LastTry(c).by
  BY <1>3, <1>5 DEF TryRow
<1> HIDE DEF s
<1>8. RowAgrees(s)
  BY <1>4, <1>6 DEF RowAgrees, Moves
<1>9. DOMAIN s.tries = DOMAIN ledger[c].tries
  <2>1. ledger[c].tries \in Seq(TryRow) /\ Len(ledger[c].tries) = Len(s.tries)
    BY <1>1, <1>3 DEF CallRow, LatestTry
  <2> QED BY <1>6, <2>1
<1>10. ASSUME NEW n \in Nat, MadeFor(ledger[c], n) PROVE MadeFor(s, n)
  BY <1>3, <1>9, <1>10 DEF MadeFor, Lawful, Keeps
<1> QED BY <1>3, <1>4, <1>7, <1>8, <1>10 DEF s

\* A row that is prepared again.
LEMMA RetriedAgrees ==
  ASSUME RowsShaped, TriesFit, NEW c \in Calls, ledger[c].status = "retry_ready", RowAgrees(ledger[c]),
         NEW a \in Nat
  PROVE  /\ RowAgrees(Retried(c, a)) /\ Retried(c, a).status = "prepared"
         /\ Len(Retried(c, a).tries) = LatestTry(c) + 1 /\ Retried(c, a).tries[LatestTry(c) + 1].by = a
         /\ \A n \in Nat : MadeFor(ledger[c], n) /\ a \in 1 .. n => MadeFor(Retried(c, a), n)
<1> DEFINE s == Retried(c, a)
<1>1. /\ ledger[c] \in CallRow /\ Fitting(ledger[c]) /\ LatestTry(c) \in Nat
  BY RowFacts
<1>2. /\ Lawful(TRUE, ledger[c], s) /\ Len(s.tries) = LatestTry(c) + 1
      /\ s.tries[LatestTry(c) + 1] = NewTry(a)
  BY <1>1, RetriedRow
<1>3. s.status = "prepared" /\ s.effect = ledger[c].effect
  BY <1>1 DEF Retried, CallRow
<1>4. s \in CallRow /\ s.tries \in Seq(TryRow)
  BY <1>2 DEF Lawful, CallRow
<1>5. s.tries # <<>> /\ LastOf(s) = NewTry(a) /\ DOMAIN s.tries = 1 .. LatestTry(c) + 1
  BY <1>1, <1>2, <1>4 DEF LastOf
<1>6. NewTry(a).status = "prepared" /\ NewTry(a).by = a
  BY DEF NewTry
<1>7. ledger[c].effect = "pending"
  BY DEF RowAgrees
<1> HIDE DEF s
<1>8. RowAgrees(s)
  BY <1>3, <1>5, <1>6, <1>7 DEF RowAgrees
<1>9. DOMAIN ledger[c].tries = 1 .. LatestTry(c)
  BY <1>1 DEF CallRow, LatestTry
<1>10. ASSUME NEW n \in Nat, MadeFor(ledger[c], n), a \in 1 .. n PROVE MadeFor(s, n)
  <2> SUFFICES ASSUME NEW t \in DOMAIN s.tries PROVE s.tries[t].by \in 1 .. n
    BY DEF MadeFor
  <2>1. CASE t = LatestTry(c) + 1
    BY <1>2, <1>6, <1>10, <2>1
  <2>2. CASE t # LatestTry(c) + 1
    <3>1. t \in DOMAIN ledger[c].tries
      BY <1>1, <1>5, <1>9, <2>2
    <3> QED BY <1>2, <1>10, <3>1 DEF MadeFor, Lawful, Keeps
  <2> QED BY <2>1, <2>2
<1> QED BY <1>2, <1>3, <1>6, <1>8, <1>10 DEF s

\* A row without tries.
LEMMA UntriedAgrees ==
  ASSUME NEW r, r.tries = <<>>, r.effect = "none",
         r.status \notin {"prepared", "running", "retry_ready", "outcome_unknown"}
  PROVE  RowAgrees(r) /\ \A n : MadeFor(r, n)
BY DEF RowAgrees, MadeFor

\* One row changes, and the others, and what is said of them, stay.
LEMMA OneAgrees ==
  ASSUME RowsShaped, CallsAgree, NEW c \in Calls, NEW s, ledger' = [ledger EXCEPT ![c] = s],
         RowAgrees(s), s.status \notin {"absent", "requested"}, StatusIn(ckpt', c) = s.status,
         \A d \in Calls : d # c =>
            \/ StatusIn(ckpt', d) = StatusIn(ckpt, d)
            \/ StatusIn(ckpt', d) = "absent" /\ ledger[d].status \notin OpenStatus
            \/ StatusIn(ckpt', d) = "requested" /\ ledger[d].status = "absent"
  PROVE  CallsAgree'
<1> SUFFICES ASSUME NEW d \in Calls PROVE Agrees(StatusIn(ckpt', d), ledger'[d])
  BY DEF CallsAgree
<1>1. ledger'[d] = IF d = c THEN s ELSE ledger[d]
  BY DEF RowsShaped
<1>2. Agrees(StatusIn(ckpt, d), ledger[d])
  BY DEF CallsAgree
<1>3. CASE d = c
  BY <1>1, <1>3 DEF Agrees, Says
<1>4. CASE d # c
  BY <1>1, <1>2, <1>4 DEF Agrees, Says, OpenStatus
<1> QED BY <1>3, <1>4

\* No row changes.
LEMMA NoneAgrees ==
  ASSUME CallsAgree, UNCHANGED ledger,
         \A d \in Calls :
            \/ StatusIn(ckpt', d) = StatusIn(ckpt, d)
            \/ StatusIn(ckpt', d) = "absent" /\ ledger[d].status \notin OpenStatus
  PROVE  CallsAgree'
BY DEF CallsAgree, Agrees, Says

\* The tries stay those of attempts there are when one row changes.
LEMMA OneBounded ==
  ASSUME RowsShaped, RunShaped, TriesBounded, NEW c \in Calls, NEW s, ledger' = [ledger EXCEPT ![c] = s],
         attempts' \in Seq([status : AttemptStatus, epoch : Nat]), Len(attempts) =< Len(attempts'),
         MadeFor(s, Len(attempts'))
  PROVE  TriesBounded'
<1>1. \A d \in Calls : ledger'[d] = IF d = c THEN s ELSE ledger[d]
  BY DEF RowsShaped
<1>2. /\ DOMAIN attempts = 1 .. Len(attempts) /\ DOMAIN attempts' = 1 .. Len(attempts')
      /\ Len(attempts) \in Nat /\ Len(attempts') \in Nat
  BY DEF RunShaped
<1>3. DOMAIN attempts \subseteq DOMAIN attempts'
  BY <1>2
<1>4. ASSUME NEW d \in Calls, NEW t \in DOMAIN ledger'[d].tries PROVE ledger'[d].tries[t].by \in DOMAIN attempts'
  BY <1>1, <1>2, <1>3, <1>4 DEF TriesBounded, MadeFor
<1> QED BY <1>4 DEF TriesBounded

(***************************************************************************)
(* The executor at work.                                                   *)
(***************************************************************************)
\* What holds while an executor is there.
LEMMA Working ==
  ASSUME Agreement, NEW a \in Attempts, exec[a].pc # "gone"
  PROVE  /\ Live /\ Going /\ Held(a) /\ a = Current /\ a \in DOMAIN attempts
         /\ wait.kind = "none" /\ wait = NoWait /\ node # "completed"
         /\ \A b \in Attempts : b # a => exec[b].pc = "gone"
         /\ \A c \in Calls : ledger[c].status # "outcome_unknown"
<1>1. Live /\ Going
  BY DEF Agreement, AtRest
<1>2. RunShaped /\ OneAtWork /\ NoneLate
  BY DEF Agreement, LedgerInv, Shaped
<1>3. \A b \in Attempts : exec[b].pc # "gone" => Held(b) /\ b = Len(attempts)
  BY <1>2 DEF NoneLate, OneAtWork, Held
<1>4. Held(a) /\ a = Current /\ a \in DOMAIN attempts /\ wait.kind = "none"
  BY <1>2, <1>3, AtWork DEF Current, Held
<1>5. wait = NoWait /\ node # "completed"
  BY <1>1, <1>4 DEF Going, WaitFits, Finished, Held
<1>6. \A c \in Calls : ledger[c].status # "outcome_unknown"
  BY <1>1, <1>4 DEF Going, WaitFits
<1> QED BY <1>1, <1>3, <1>4, <1>5, <1>6

\* What the rows and checkpoints are known to be.
LEMMA Shapes ==
  ASSUME Agreement
  PROVE  /\ RowsShaped /\ TriesFit /\ CheckpointsShaped /\ RunShaped /\ OneAtWork /\ InTheirHands
         /\ IsCheckpoint(ckpt) /\ Fits(ckpt) /\ ckpt.batch \in Seq(CallStatus)
         /\ ckpt.model \in 0 .. MaxModelCalls /\ ckpt.count.no \in 0 .. MaxCounts
         /\ \A i \in DOMAIN ckpt.batch : i \in 1 .. MaxBatch
         /\ \A a \in Attempts : a \in Nat
<1>1. /\ RowsShaped /\ TriesFit /\ CheckpointsShaped /\ RunShaped /\ OneAtWork /\ InTheirHands
      /\ IsCheckpoint(ckpt) /\ Fits(ckpt) /\ Bounded
  BY DEF Agreement, LedgerInv, Shaped, CheckpointsShaped
<1>2. ckpt.batch \in Seq(CallStatus) /\ ckpt.calls \in Batches
  BY <1>1 DEF IsCheckpoint, Bounded, ModelsBounded
<1>3. ckpt.batch # <<>> => Len(ckpt.batch) =< MaxBatch
  BY <1>1, <1>2, BatchLengths DEF Fits
<1>4. \A i \in DOMAIN ckpt.batch : i \in 1 .. MaxBatch
  <2> SUFFICES ASSUME NEW i \in DOMAIN ckpt.batch PROVE i \in 1 .. MaxBatch
    OBVIOUS
  <2>1. i \in 1 .. Len(ckpt.batch) /\ Len(ckpt.batch) \in Nat /\ ckpt.batch # <<>>
    BY <1>2
  <2> QED BY <1>3, <2>1, BatchLengths
<1>5. \A a \in Attempts : a \in Nat
  BY LedgerAssumption DEF Attempts
<1> QED BY <1>1, <1>2, <1>4, <1>5 DEF Bounded, ModelsBounded

\* What the executor works with.
LEMMA WorksWith ==
  ASSUME Agreement, NEW a \in Attempts, exec[a].pc \notin {"gone", "resume", "dispatch"}
  PROVE  Local(a) = ckpt
BY Working DEF Going, StepFits, Local

\* When nothing was sent, no call is running and no model call prepared.
LEMMA NothingSent ==
  ASSUME Agreement, NEW a \in Attempts, exec[a].pc # "gone"
  PROVE  /\ exec[a].pc \notin {"counted", "receive", "tool", "retool"} =>
              \A c \in Calls : StatusIn(ckpt, c) # "running"
         /\ exec[a].pc # "send" => ckpt.status # "prepared"
         /\ \A c \in Calls : StatusIn(ckpt, c) = "running" => exec[a].pc \in PcsOf(c) /\ ckpt.mark = Watermark(c)
BY Working DEF Going, InProgress, SentFits, ModelFits, PcsOf

\* The holder of the node takes a step of its own.
LEMMA OwnStep ==
  ASSUME Agreement, LedgerInv', NEW a \in Attempts, exec[a].pc # "gone",
         UNCHANGED <<run, node, other, attempts, wakeups, wait>>,
         \A b \in Attempts : b # a => exec'[b] = exec[b],
         ModelsBounded', TriesBounded', CallsAgree', Steady', StepFits(a)', InProgress',
         \A c \in Calls : ledger'[c].status # "outcome_unknown"
  PROVE  Agreement'
<1>1. /\ Live /\ Going /\ Held(a) /\ wait = NoWait /\ node # "completed" /\ wait.kind = "none"
      /\ \A b \in Attempts : b # a => exec[b].pc = "gone"
  BY Working
<1>2. Live'
  BY <1>1 DEF Live
<1>3. Bounded'
  BY DEF Agreement, Bounded, RunBounded, Live
<1>4. NoneLate'
  BY <1>1 DEF NoneLate, Held
<1>5. \A b \in Attempts : StepFits(b)'
  BY <1>1 DEF StepFits
<1>6. WaitFits'
  BY <1>1 DEF WaitFits
<1>7. Finished'
  BY <1>1 DEF Finished, Going
<1> QED BY <1>2, <1>3, <1>4, <1>5, <1>6, <1>7 DEF Agreement, Going

\* ... with which no row changes.
LEMMA StepOnly ==
  ASSUME Agreement, LedgerInv', NEW a \in Attempts, exec[a].pc # "gone", UNCHANGED rows,
         \A b \in Attempts : b # a => exec'[b] = exec[b],
         StepFits(a)',
         exec'[a].pc = "gone" \/ exec[a].pc \notin {"counted", "receive", "tool", "retool", "send"}
  PROVE  Agreement'
<1>1. UNCHANGED <<run, node, other, attempts, wakeups, ledger, ckpt, wait>>
  BY DEF rows
<1>2. Going /\ Bounded /\ a = Current /\ Held(a)
  BY Working DEF Agreement
<1>3. ModelsBounded' /\ TriesBounded'
  BY <1>1, <1>2 DEF Bounded, ModelsBounded, TriesBounded
<1>4. CallsAgree' /\ Steady'
  BY <1>1, <1>2 DEF Going, CallsAgree, Steady
<1>5. \A c : LastTry(c)' = LastTry(c) /\ Watermark(c)' = Watermark(c)
  BY <1>1 DEF LastTry, LatestTry, Watermark
<1>6. Held(Current)' /\ Current' = a
  BY <1>1, <1>2 DEF Held, Current
<1>7. SentFits'
  BY <1>1, <1>2, <1>5, <1>6, NothingSent DEF Going, InProgress, SentFits
<1>8. ModelFits'
  BY <1>1, <1>2, <1>5, <1>6, NothingSent DEF Going, InProgress, ModelFits
<1>9. PreparedFits'
  BY <1>1, <1>2, <1>5, <1>6 DEF Going, InProgress, PreparedFits
<1>10. \A c \in Calls : ledger'[c].status # "outcome_unknown"
  BY <1>1, Working
<1> QED BY <1>1, <1>3, <1>4, <1>7, <1>8, <1>9, <1>10, OwnStep DEF InProgress

\* An attempt takes the checkpoint up.
LEMMA ResumeAgrees ==
  ASSUME Agreement, LedgerInv', NEW a \in Attempts, ResumeStep(a)
  PROVE  Agreement'
<1>1. PICK pc : Step(a, pc, ckpt) /\ exec[a].pc = "resume" /\ UNCHANGED rows
  BY DEF ResumeStep, ResumeFresh, ResumeCount, ResumeModel, ResumeCompleted, ResumeRepair, ResumeTools,
         ResumeInvalid, Resumes, At
<1>2. CheckpointsShaped /\ Fits(ckpt) /\ ckpt.model \in Nat
  BY Shapes
<1>3. /\ exec'[a].pc = pc /\ exec'[a].ck = ckpt
      /\ \A b \in Attempts : b # a => exec'[b] = exec[b]
  BY <1>1, <1>2, StepFacts
<1>4. Going
  BY <1>1, Working
<1>5. ckpt' = ckpt
  BY <1>1 DEF rows
<1>6. /\ \A c \in Calls : StatusIn(ckpt, c) # "running"
      /\ ckpt.status # "prepared"
  BY <1>1, NothingSent
<1>7. ckpt.status \notin OpenStatus \/ ckpt.status = "retry_ready"
  <2>1. CASE ckpt.model = 0
    BY <1>4, <2>1 DEF Going, Steady, OpenStatus
  <2>2. CASE ckpt.model # 0
    <3> DEFINE c == <<ckpt.model>>
    <3>1. c \in Calls /\ IsModel(c) /\ c[1] = ckpt.model
      BY <2>2, Shapes, Names DEF Models
    <3>2. StatusIn(ckpt, c) = ckpt.status
      BY <3>1 DEF StatusIn
    <3> HIDE DEF c
    <3>3. ckpt.status # "running"
      BY <1>6, <3>1, <3>2
    <3>4. ckpt.status # "outcome_unknown"
      <4>1. Agrees(ckpt.status, ledger[c])
        BY <1>4, <3>1, <3>2 DEF Going, CallsAgree
      <4> QED BY <1>1, <3>1, <4>1, Working DEF Agrees, Says
    <3> QED BY <1>4, <1>6, <3>3, <3>4 DEF Going, Steady, OpenStatus
  <2> QED BY <2>1, <2>2
<1>8. StepFits(a)'
  <2>1. CASE ResumeFresh(a)
    <3>1. pc = "count" /\ ckpt.by = 0
      BY <1>1, <1>3, <2>1, StepFacts, <1>2 DEF ResumeFresh, Fresh
    <3> QED BY <1>3, <1>4, <1>5, <3>1 DEF StepFits, Going, Steady
  <2>2. CASE ResumeCount(a)
    <3>1. /\ ckpt.batch = <<>> /\ ckpt.status # "retry_ready" /\ ckpt.count.status \in {"completed", "retry_ready"}
          /\ pc = IF ckpt.model = 0 THEN "count" ELSE "call"
      BY <1>1, <1>3, <2>2, StepFacts, <1>2 DEF ResumeCount
    <3>2. CASE ckpt.model = 0
      BY <1>3, <1>5, <3>1, <3>2 DEF StepFits
    <3>3. CASE ckpt.model # 0
      <4>1. ckpt.count.status \notin OpenStatus
        BY <1>2, <1>4, <3>3 DEF Going, Steady
      <4> QED BY <1>3, <1>5, <1>7, <3>1, <3>3, <4>1 DEF StepFits
    <3> QED BY <3>2, <3>3
  <2>3. CASE ResumeModel(a) \/ ResumeInvalid(a)
    <3>1. pc \in {"again", "fail"}
      BY <1>1, <1>3, <2>3, StepFacts, <1>2 DEF ResumeModel, ResumeInvalid
    <3> QED BY <1>3, <1>5, <3>1 DEF StepFits
  <2>4. CASE ResumeCompleted(a)
    <3>1. pc = "plan" /\ ckpt.batch = <<>> /\ ~ckpt.repairing
      BY <1>1, <1>3, <2>4, StepFacts, <1>2 DEF ResumeCompleted
    <3> QED BY <1>3, <1>5, <3>1 DEF StepFits
  <2>5. CASE ResumeRepair(a)
    <3>1. pc = "call" /\ ckpt.status = "completed" /\ ckpt.repairing
      BY <1>1, <1>3, <2>5, StepFacts, <1>2 DEF ResumeRepair
    <3>2. ckpt.batch = <<>> /\ ckpt.model # 0 /\ ckpt.count.status \notin OpenStatus
      BY <1>2, <1>4, <3>1 DEF Going, Steady
    <3> QED BY <1>3, <1>5, <1>7, <3>1, <3>2 DEF StepFits
  <2>6. CASE ResumeTools(a)
    <3>1. pc = "redispatch" /\ ckpt.status = "completed"
      BY <1>1, <1>3, <2>6, StepFacts, <1>2 DEF ResumeTools
    <3> QED BY <1>3, <1>5, <3>1 DEF StepFits
  <2> QED BY <2>1, <2>2, <2>3, <2>4, <2>5, <2>6 DEF ResumeStep
<1> QED BY <1>1, <1>3, <1>8, StepOnly


\* The executor of an attempt takes a step of its own,
OnItsOwn(a) ==
    /\ UNCHANGED <<run, node, other, attempts, wakeups, wait>>
    /\ \A b \in Attempts : b # a => exec'[b] = exec[b]
\* with which the row of the call c becomes s,
Rewrites(c, s) ==
    /\ ledger' = [ledger EXCEPT ![c] = s]
    /\ RowAgrees(s) /\ MadeFor(s, Len(attempts))
    /\ s.status \notin {"absent", "requested", "outcome_unknown"} /\ StatusIn(ckpt', c) = s.status
\* what is said of the other calls stays true,
LeavesOthers(c) ==
    \A d \in Calls : d # c =>
       \/ StatusIn(ckpt', d) = StatusIn(ckpt, d)
       \/ StatusIn(ckpt', d) = "absent" /\ ledger[d].status \notin OpenStatus
       \/ StatusIn(ckpt', d) = "requested" /\ ledger[d].status = "absent"
\* none of which is running,
OthersRest(c) == \A d \in Calls : d # c => StatusIn(ckpt, d) # "running"
\* and what is sent or prepared is its own.
Signs(a, c, s) ==
    /\ s.status = "running" =>
         LastOf(s).by = a /\ ckpt'.mark = Append(c, Len(s.tries)) /\ exec'[a].pc \in PcsOf(c)
    /\ ckpt'.status = "prepared" => c = <<ckpt'.model>> /\ LastOf(s).by = a /\ exec'[a].pc \in {"gone", "send"}
    /\ ckpt'.by = a \/ (ckpt'.by = ckpt.by /\ s.status # "prepared")

\* ... with which one row changes.
LEMMA OneCallStep ==
  ASSUME Agreement, LedgerInv', NEW a \in Attempts, exec[a].pc # "gone", OnItsOwn(a),
         NEW c \in Calls, NEW s, Rewrites(c, s), LeavesOthers(c), OthersRest(c), Signs(a, c, s),
         ModelsBounded', Steady', StepFits(a)'
  PROVE  Agreement'
<1> USE DEF OnItsOwn, Rewrites, LeavesOthers, OthersRest, Signs
<1>1. /\ RowsShaped /\ RunShaped /\ Going /\ Bounded /\ a = Current /\ Held(a)
      /\ \A d \in Calls : ledger[d].status # "outcome_unknown"
  BY Shapes, Working DEF Agreement
<1>2. CallsAgree'
  BY <1>1, OneAgrees DEF Going
<1>3. TriesBounded'
  <2>1. attempts' = attempts
    OBVIOUS
  <2>2. attempts' \in Seq([status : AttemptStatus, epoch : Nat]) /\ Len(attempts) \in Nat
    BY <1>1, <2>1 DEF RunShaped
  <2>3. Len(attempts) =< Len(attempts') /\ MadeFor(s, Len(attempts')) /\ TriesBounded
    BY <1>1, <2>1, <2>2 DEF Bounded
  <2> QED BY <1>1, <2>2, <2>3, OneBounded
<1>4. \A d \in Calls : ledger'[d] = IF d = c THEN s ELSE ledger[d]
  BY <1>1 DEF RowsShaped
<1>5. /\ LastTry(c)' = LastOf(s) /\ Watermark(c)' = Append(c, Len(s.tries))
      /\ \A d \in Calls : d # c => LastTry(d)' = LastTry(d)
  BY <1>4 DEF LastTry, LatestTry, LastOf, Watermark
<1>6. Held(Current)' /\ Current' = a
  BY <1>1 DEF Held, Current
<1>7. SentFits'
  <2> SUFFICES ASSUME NEW d \in Calls, StatusIn(ckpt', d) = "running"
               PROVE  /\ Held(Current)' /\ LastTry(d)'.by = Current' /\ ckpt'.mark = Watermark(d)'
                      /\ exec'[Current'].pc \in {"gone"} \cup PcsOf(d)
    BY DEF SentFits
  <2>1. d = c
    OBVIOUS
  <2> QED BY <1>5, <1>6, <2>1
<1>8. ModelFits'
  BY <1>5, <1>6 DEF ModelFits
<1>9. PreparedFits'
  <2> SUFFICES ASSUME NEW d \in Calls, ledger'[d].status = "prepared", LastTry(d)'.by = a PROVE ckpt'.by = a
    BY <1>6 DEF PreparedFits
  <2>1. CASE d = c
    BY <1>4, <2>1
  <2>2. CASE d # c
    BY <1>1, <1>4, <1>5, <2>2 DEF Going, InProgress, PreparedFits
  <2> QED BY <2>1, <2>2
<1>10. \A d \in Calls : ledger'[d].status # "outcome_unknown"
  BY <1>1, <1>4
<1> QED BY <1>2, <1>3, <1>7, <1>8, <1>9, <1>10, OwnStep DEF InProgress

\* The mark of the n-th try of a count or a tool call.
LEMMA MarkForms ==
  ASSUME NEW m \in Nat, NEW i \in Nat, NEW n \in Nat
  PROVE  Append(<<m, i>>, n) = <<m, i, n>>
<1> DEFINE s == Append(<<m, i>>, n)
           t == <<m, i, n>>
<1>1. <<m, i>> \in Seq(Nat) /\ Len(<<m, i>>) = 2 /\ <<m, i>>[1] = m /\ <<m, i>>[2] = i
  OBVIOUS
<1>2. s \in Seq(Nat) /\ Len(s) = 3 /\ s[1] = m /\ s[2] = i /\ s[3] = n
  BY <1>1
<1>3. t \in Seq(Nat) /\ Len(t) = 3 /\ t[1] = m /\ t[2] = i /\ t[3] = n
  OBVIOUS
<1> HIDE DEF s, t
<1>4. \A k \in 1 .. Len(s) : s[k] = t[k]
  BY <1>2, <1>3
<1>5. s = t
  BY <1>2, <1>3, <1>4
<1> QED BY <1>5 DEF s, t

\* ... of a model call
LEMMA ShortMark ==
  ASSUME NEW m \in Nat, NEW n \in Nat
  PROVE  Append(<<m>>, n) = <<m, n>>
<1> DEFINE s == Append(<<m>>, n)
           t == <<m, n>>
<1>1. <<m>> \in Seq(Nat) /\ Len(<<m>>) = 1 /\ <<m>>[1] = m
  OBVIOUS
<1>2. s \in Seq(Nat) /\ Len(s) = 2 /\ s[1] = m /\ s[2] = n
  BY <1>1
<1>3. t \in Seq(Nat) /\ Len(t) = 2 /\ t[1] = m /\ t[2] = n
  OBVIOUS
<1> HIDE DEF s, t
<1>4. \A k \in 1 .. Len(s) : s[k] = t[k]
  BY <1>2, <1>3
<1>5. s = t
  BY <1>2, <1>3, <1>4
<1> QED BY <1>5 DEF s, t

\* The tries of a call are those of the attempts there are.
LEMMA AreMadeFor ==
  ASSUME Agreement, NEW c \in Calls
  PROVE  MadeFor(ledger[c], Len(attempts)) /\ Len(attempts) \in Nat
BY Shapes DEF Agreement, Bounded, TriesBounded, MadeFor, RunShaped

\* An attempt that is there is one of them.
LEMMA IsThere ==
  ASSUME Agreement, NEW a \in DOMAIN attempts
  PROVE  a \in 1 .. Len(attempts) /\ a \in 0 .. MaxAttempts /\ a \in Nat \ {0}
<1>1. RunShaped /\ Len(attempts) \in 1 .. MaxAttempts /\ MaxAttempts \in Nat
  BY Shapes, LedgerAssumption DEF Agreement, Bounded, RunBounded
<1>2. DOMAIN attempts = 1 .. Len(attempts) /\ Len(attempts) \in Nat
  BY <1>1 DEF RunShaped
<1>3. a \in 1 .. Len(attempts)
  BY <1>2
<1> QED BY <1>1, <1>2, <1>3

\* The call that is running is the only one.
LEMMA OneRunning ==
  ASSUME Agreement, NEW a \in Attempts, exec[a].pc # "gone", NEW c \in Calls, StatusIn(ckpt, c) = "running"
  PROVE  \A d \in Calls : d # c => StatusIn(ckpt, d) # "running"
BY Shapes, NothingSent, MarksDiffer

\* What is said of a call that is in the checkpoint is said by its row, which has a try.
LEMMA SaidIsSo ==
  ASSUME Agreement, Going, NEW c \in Calls, NEW s, StatusIn(ckpt, c) = s, s \notin {"absent", "requested"}
  PROVE  /\ ledger[c].status = s /\ RowAgrees(ledger[c])
         /\ s \in {"prepared", "running"} => LatestTry(c) > 0
<1>1. Agrees(s, ledger[c])
  BY DEF Going, CallsAgree
<1>2. ledger[c].status = s /\ RowAgrees(ledger[c])
  BY <1>1 DEF Agrees, Says
<1>3. RowsShaped /\ TriesFit
  BY Shapes
<1>4. s \in {"prepared", "running"} => LatestTry(c) > 0
  BY <1>2, <1>3, RowFacts DEF RowAgrees
<1> QED BY <1>2, <1>4

\* A call that is not over is in the checkpoint as its row says.
LEMMA OpenIsSaid ==
  ASSUME Going, NEW c \in Calls, ledger[c].status \in OpenStatus
  PROVE  StatusIn(ckpt, c) = ledger[c].status /\ RowAgrees(ledger[c])
<1>1. Agrees(StatusIn(ckpt, c), ledger[c])
  BY DEF Going, CallsAgree
<1> QED BY <1>1 DEF Agrees, Says, OpenStatus

\* The row of a call whose last try is moved by its executor.
LEMMA MovesOn ==
  ASSUME Agreement, Going, NEW c \in Calls, ledger[c].status \in {"prepared", "running"},
         NEW status, NEW effect, NEW t, <<status, effect, t>> \in Moves,
         t # "superseded_before_start" \/ ledger[c].status = "prepared",
         NEW s, s = Moved(c, status, effect, t)
  PROVE  /\ RowAgrees(s) /\ MadeFor(s, Len(attempts)) /\ s.status = status
         /\ LatestTry(c) > 0 /\ Len(s.tries) = LatestTry(c) /\ LastOf(s).by = LastTry(c).by
<1>1. RowAgrees(ledger[c])
  BY OpenIsSaid DEF OpenStatus
<1>2. RowsShaped /\ TriesFit
  BY Shapes
<1>3. LatestTry(c) \in Nat /\ LatestTry(c) > 0
  BY <1>1, <1>2, RowFacts DEF RowAgrees
<1>4. t = "superseded_before_start" => LastTry(c).status = "prepared"
  BY <1>1 DEF RowAgrees, LastOf, LastTry, LatestTry
<1>5. /\ RowAgrees(s) /\ s.status = status /\ Len(s.tries) = LatestTry(c)
      /\ s.tries[LatestTry(c)].by = LastTry(c).by
      /\ \A n \in Nat : MadeFor(ledger[c], n) => MadeFor(s, n)
  BY <1>2, <1>3, <1>4, MovedAgrees
<1>6. MadeFor(s, Len(attempts))
  BY <1>5, AreMadeFor
<1> QED BY <1>3, <1>5, <1>6 DEF LastOf

\* The row of a call that an attempt prepares again.
LEMMA TriesAgain ==
  ASSUME Agreement, Going, NEW c \in Calls, ledger[c].status = "retry_ready",
         NEW a \in DOMAIN attempts, NEW s, s = Retried(c, a)
  PROVE  /\ RowAgrees(s) /\ MadeFor(s, Len(attempts)) /\ s.status = "prepared"
         /\ LatestTry(c) \in Nat /\ Len(s.tries) = LatestTry(c) + 1 /\ LastOf(s).by = a
<1>1. RowAgrees(ledger[c])
  BY OpenIsSaid DEF OpenStatus
<1>2. RowsShaped /\ TriesFit /\ LatestTry(c) \in Nat
  BY Shapes, RowFacts
<1>3. a \in Nat /\ a \in 1 .. Len(attempts) /\ Len(attempts) \in Nat /\ MadeFor(ledger[c], Len(attempts))
  BY IsThere, AreMadeFor
<1>4. /\ RowAgrees(s) /\ s.status = "prepared"
      /\ Len(s.tries) = LatestTry(c) + 1 /\ s.tries[LatestTry(c) + 1].by = a
      /\ \A n \in Nat : MadeFor(ledger[c], n) /\ a \in 1 .. n => MadeFor(s, n)
  BY <1>1, <1>2, <1>3, RetriedAgrees
<1> QED BY <1>2, <1>3, <1>4 DEF LastOf

(***************************************************************************)
(* Counting the tokens of the first request.                               *)
(***************************************************************************)
\* A count is prepared.
LEMMA PrepareCountAgrees ==
  ASSUME Agreement, LedgerInv', NEW a \in Attempts, PrepareCount(a)
  PROVE  Agreement'
<1>1. exec[a].pc = "count"
  BY DEF PrepareCount, At
<1>2. /\ IsCheckpoint(ckpt) /\ CheckpointsShaped /\ RowsShaped /\ TriesFit /\ a \in Nat
      /\ ckpt.model \in 0 .. MaxModelCalls /\ ckpt.count.no \in 0 .. MaxCounts
      /\ Going /\ a \in DOMAIN attempts /\ Local(a) = ckpt
  BY <1>1, Shapes, Working, WorksWith
<1>3. /\ ckpt.model = 0 /\ ckpt.status = "absent" /\ ckpt.batch = <<>> /\ ~ckpt.repairing
      /\ ckpt.count.status \in {"absent", "completed", "retry_ready"}
  BY <1>1, <1>2 DEF Going, Steady, StepFits
<1>4. PICK k, new : /\ k = ckpt.count.no + 1 /\ k \in 1 .. MaxCounts
                    /\ ckpt.count.status # "retry_ready"
                    /\ new = [ckpt EXCEPT !.by = a, !.mark = <<0, k, 1>>,
                                !.count = [no |-> k, status |-> "prepared", trim |-> exec[a].trim, fits |-> FALSE]]
                    /\ ledger' = [ledger EXCEPT ![<<0, k>>] = Prepared("pure", a)]
                    /\ Saves(a, "counting", new)
                    /\ UNCHANGED <<run, node, other, attempts, wakeups, wait>>
  <2>1. PICK k : k = ckpt.count.no + 1
    OBVIOUS
  <2>2. PICK new : new = [ckpt EXCEPT !.by = a, !.mark = <<0, k, 1>>,
                            !.count = [no |-> k, status |-> "prepared", trim |-> exec[a].trim, fits |-> FALSE]]
    OBVIOUS
  <2>3. /\ k =< MaxCounts /\ ckpt.count.status # "retry_ready"
        /\ ledger' = [ledger EXCEPT ![<<0, k>>] = Prepared("pure", a)]
        /\ Saves(a, "counting", new)
        /\ UNCHANGED <<run, node, other, attempts, wakeups, wait>>
    BY <1>2, <2>1, <2>2 DEF PrepareCount
  <2>4. k \in 1 .. MaxCounts
    BY <1>2, <2>1, <2>3, LedgerAssumption
  <2> QED BY <2>1, <2>2, <2>3, <2>4
<1>5. /\ new.by = a /\ new.mark = <<0, k, 1>> /\ new.model = 0 /\ new.status = "absent" /\ new.batch = <<>>
      /\ new.count.no = k /\ new.count.status = "prepared" /\ new.calls = ckpt.calls
      /\ new.repairing = ckpt.repairing
  BY <1>2, <1>3, <1>4 DEF IsCheckpoint
<1> DEFINE c == <<0, k>>
           s == Prepared("pure", a)
<1>6. c \in Calls /\ IsCount(c) /\ ~IsModel(c) /\ c[1] = 0 /\ c[2] = k
  BY <1>4, Names
<1>7. RowAgrees(s) /\ s.status = "prepared" /\ Len(s.tries) = 1 /\ MadeFor(s, Len(attempts))
  <2>1. "pure" \in Classes /\ a \in 1 .. Len(attempts) /\ Len(attempts) \in Nat
    BY <1>2, <1>6, IsThere, AreMadeFor DEF Classes
  <2> QED BY <1>2, <2>1, PreparedAgrees
<1> HIDE DEF c, s
<1>8. ckpt' = new /\ exec'[a].pc = "counting" /\ exec'[a].ck = new /\ \A b \in Attempts : b # a => exec'[b] = exec[b]
  BY <1>2, <1>4, StepFacts DEF Saves
<1>9. StatusIn(ckpt', c) = s.status
  BY <1>5, <1>6, <1>7, <1>8 DEF StatusIn
<1>10. ASSUME NEW d \in Calls, d # c
       PROVE  \/ StatusIn(ckpt', d) = StatusIn(ckpt, d)
              \/ StatusIn(ckpt', d) = "absent" /\ ledger[d].status \notin OpenStatus
  <2>1. Agrees(StatusIn(ckpt, d), ledger[d])
    BY <1>2 DEF Going, CallsAgree
  <2>2. IsCount(d) /\ ~IsModel(d) => d[2] # k
    BY <1>6, <1>10, SameName DEF IsCount
  <2>3. CASE IsCount(d) /\ ~IsModel(d)
    <3>1. StatusIn(ckpt', d) = "absent"
      BY <1>5, <1>8, <2>2, <2>3 DEF StatusIn
    <3>2. StatusIn(ckpt, d) \in {"absent", "completed"}
      BY <1>3, <1>4, <2>3 DEF StatusIn
    <3> QED BY <2>1, <3>1, <3>2 DEF Agrees, Says, OpenStatus
  <2>4. CASE ~(IsCount(d) /\ ~IsModel(d))
    BY <1>3, <1>5, <1>8, <2>4 DEF StatusIn
  <2> QED BY <2>3, <2>4
<1>11. \A d \in Calls : StatusIn(ckpt, d) # "running"
  BY <1>1, NothingSent
<1>12. ModelsBounded'
  BY <1>2, <1>3, <1>4, <1>5, <1>8, IsThere DEF Agreement, Bounded, ModelsBounded
<1>13. Steady'
  <2>1. ckpt'.by # 0 /\ ckpt'.count.no # 0 /\ ckpt'.model = 0 /\ ckpt'.status = "absent" /\ ckpt'.batch = <<>>
        /\ ckpt'.count.status = "prepared" /\ ~ckpt'.repairing
    BY <1>2, <1>3, <1>4, <1>5, <1>8, IsThere
  <2> QED BY <2>1 DEF Steady
<1>14. StepFits(a)'
  <2>1. \A d \in Calls : ledger'[d] = IF d = c THEN s ELSE ledger[d]
    BY <1>2, <1>4 DEF RowsShaped, c, s
  <2>2. LatestTry(c)' = 1
    BY <1>6, <1>7, <2>1 DEF LatestTry
  <2>3. Watermark(<<0, k>>)' = <<0, k, 1>>
    <3>1. Watermark(c)' = Append(<<0, k>>, 1)
      BY <2>2 DEF Watermark, c
    <3>2. k \in Nat /\ 0 \in Nat /\ 1 \in Nat
      BY <1>4
    <3> QED BY <3>1, <3>2, MarkForms DEF c
  <2> QED BY <1>4, <1>5, <1>8, <2>3 DEF StepFits
<1>15. Rewrites(c, s)
  <2>1. ledger' = [ledger EXCEPT ![c] = s]
    BY <1>4 DEF c, s
  <2> QED BY <1>7, <1>9, <2>1 DEF Rewrites
<1>16. OnItsOwn(a)
  BY <1>4, <1>8 DEF OnItsOwn
<1>17. LeavesOthers(c) /\ OthersRest(c)
  BY <1>10, <1>11 DEF LeavesOthers, OthersRest
<1>18. Signs(a, c, s)
  BY <1>5, <1>7, <1>8 DEF Signs
<1>19. exec[a].pc # "gone"
  BY <1>1
<1> QED BY <1>6, <1>12, <1>13, <1>14, <1>15, <1>16, <1>17, <1>18, <1>19, OneCallStep

\* The checkpoint with the count in the status of the row s, and what is sent or prepared signed.
CountBecomes(a, c, s) ==
    /\ ckpt'.model = ckpt.model /\ ckpt'.status = ckpt.status /\ ckpt'.batch = ckpt.batch
    /\ ckpt'.repairing = ckpt.repairing /\ ckpt'.calls = ckpt.calls
    /\ ckpt'.count.no = ckpt.count.no /\ ckpt'.count.status = s.status
    /\ ckpt'.by = a \/ (ckpt'.by = ckpt.by /\ s.status # "prepared")
    /\ s.status = "running" =>
         LastOf(s).by = a /\ ckpt'.mark = Append(c, Len(s.tries)) /\ exec'[a].pc = "counted"
\* The row of the call in hand, as its executor may leave it.
RowBecomes(c, s) ==
    /\ ledger' = [ledger EXCEPT ![c] = s] /\ RowAgrees(s) /\ MadeFor(s, Len(attempts))
    /\ s.status \in {"prepared", "running", "completed", "failed"}

\* The count in hand moves on.
LEMMA CountMoves ==
  ASSUME Agreement, LedgerInv', NEW a \in Attempts, exec[a].pc \in {"count", "counting", "counted"},
         OnItsOwn(a), NEW c, c = <<0, ckpt.count.no>>, ckpt.count.no # 0,
         NEW s, RowBecomes(c, s), CountBecomes(a, c, s),
         exec[a].pc = "counted" => StatusIn(ckpt, c) = "running",
         StepFits(a)'
  PROVE  Agreement'
<1> USE DEF RowBecomes, CountBecomes
<1>1. Going /\ exec[a].pc # "gone" /\ a \in DOMAIN attempts /\ Local(a) = ckpt
  BY Working, WorksWith
<1>2. ckpt.count.no \in 1 .. MaxCounts /\ ckpt.model \in 0 .. MaxModelCalls
  BY Shapes, LedgerAssumption
<1>3. ckpt.model = 0 /\ ckpt.status = "absent" /\ ckpt.batch = <<>> /\ ~ckpt.repairing
  BY <1>1 DEF Going, Steady, StepFits
<1>4. c \in Calls /\ IsCount(c) /\ ~IsModel(c) /\ c[1] = 0 /\ c[2] = ckpt.count.no
  BY <1>2, Names
<1>5. \A d \in Calls : StatusIn(ckpt', d) = IF d = c THEN s.status ELSE StatusIn(ckpt, d)
  BY <1>2, CountSays
<1>6. Rewrites(c, s)
  BY <1>4, <1>5 DEF Rewrites
<1>7. LeavesOthers(c)
  BY <1>5 DEF LeavesOthers
<1>8. OthersRest(c)
  <2>1. CASE exec[a].pc = "counted"
    BY <1>1, <1>4, <2>1, OneRunning DEF OthersRest
  <2>2. CASE exec[a].pc # "counted"
    BY <1>1, <2>2, NothingSent DEF OthersRest
  <2> QED BY <2>1, <2>2
<1>9. Signs(a, c, s)
  BY <1>3, <1>4 DEF Signs, PcsOf
<1>10. ModelsBounded'
  BY <1>1, IsThere DEF Agreement, Bounded, ModelsBounded
<1>11. Steady'
  <2>1. ckpt'.by # 0 /\ ckpt'.count.no # 0
    BY <1>1, IsThere DEF Going, Steady
  <2> QED BY <1>3, <2>1 DEF Steady
<1> QED BY <1>1, <1>4, <1>6, <1>7, <1>8, <1>9, <1>10, <1>11, OneCallStep

\* A count that may be made again is prepared again.
LEMMA RetryCountAgrees ==
  ASSUME Agreement, LedgerInv', NEW a \in Attempts, RetryCount(a)
  PROVE  Agreement'
<1>1. exec[a].pc = "count"
  BY DEF RetryCount, At
<1>2. /\ Going /\ Local(a) = ckpt /\ IsCheckpoint(ckpt) /\ CheckpointsShaped /\ a \in DOMAIN attempts
      /\ ckpt.model = 0
  BY <1>1, Working, WorksWith, Shapes DEF Going, StepFits
<1>3. PICK c, s, new : /\ c = <<0, ckpt.count.no>> /\ s = Retried(c, a) /\ ckpt.count.status = "retry_ready"
                       /\ ledger[c].status = "retry_ready"
                       /\ new = [Marked(ckpt, c, "prepared") EXCEPT !.by = a, !.mark = Append(c, LatestTry(c) + 1)]
                       /\ ledger' = [ledger EXCEPT ![c] = s] /\ Saves(a, "counting", new)
                       /\ UNCHANGED <<run, node, other, attempts, wakeups, wait>>
  BY <1>2 DEF RetryCount, CountOf
<1>4. ckpt.count.no # 0 /\ ckpt.count.no \in 1 .. MaxCounts
  BY <1>2, <1>3, Shapes, LedgerAssumption DEF Going, Steady
<1>5. c \in Calls /\ IsCount(c) /\ ~IsModel(c)
  BY <1>3, <1>4, Names
<1>6. /\ new.by = a /\ new.mark = Append(c, LatestTry(c) + 1) /\ new.model = ckpt.model /\ new.status = ckpt.status
      /\ new.batch = ckpt.batch /\ new.repairing = ckpt.repairing /\ new.calls = ckpt.calls
      /\ new.count.no = ckpt.count.no /\ new.count.status = "prepared"
  BY <1>2, <1>3, <1>5 DEF Marked, IsCheckpoint, CountState
<1>7. ckpt' = new /\ exec'[a].pc = "counting" /\ exec'[a].ck = new /\ \A b \in Attempts : b # a => exec'[b] = exec[b]
  BY <1>2, <1>3, StepFacts DEF Saves
<1>8. RowAgrees(s) /\ MadeFor(s, Len(attempts)) /\ s.status = "prepared" /\ Len(s.tries) = LatestTry(c) + 1
  BY <1>2, <1>3, <1>5, TriesAgain
<1>9. StepFits(a)'
  <2>2. c = <<0, ckpt'.count.no>>
    BY <1>3, <1>6, <1>7
  <2>3. Len(ledger'[c].tries) = LatestTry(c) + 1
    BY <1>3, <1>5, <1>8, Shapes DEF RowsShaped
  <2> QED BY <1>2, <1>4, <1>6, <1>7, <2>2, <2>3 DEF StepFits, Watermark, LatestTry
<1>10. OnItsOwn(a)
  BY <1>3, <1>7 DEF OnItsOwn
<1>11. RowBecomes(c, s) /\ CountBecomes(a, c, s)
  BY <1>3, <1>6, <1>7, <1>8 DEF RowBecomes, CountBecomes
<1>12. exec[a].pc # "counted"
  BY <1>1
<1> QED BY <1>1, <1>3, <1>4, <1>9, <1>10, <1>11, <1>12, CountMoves

\* A count that was made for the same request is used again.
LEMMA ReuseCountAgrees ==
  ASSUME Agreement, LedgerInv', NEW a \in Attempts, ReuseCount(a)
  PROVE  Agreement'
<1>1. exec[a].pc = "count"
  BY DEF ReuseCount, At
<1>2. /\ Going /\ Local(a) = ckpt /\ CheckpointsShaped
      /\ ckpt.model = 0 /\ ckpt.status = "absent" /\ ckpt.batch = <<>>
  BY <1>1, Working, WorksWith, Shapes DEF Going, StepFits, Steady
<1>3. PICK pc : /\ pc \in {"call", "fail", "trim"} /\ ckpt.count.status = "completed"
                /\ Step(a, pc, ckpt) /\ UNCHANGED rows
  BY <1>2 DEF ReuseCount, Reusable, AfterCount
<1>4. exec'[a].pc = pc /\ exec'[a].ck = ckpt /\ ckpt' = ckpt /\ \A b \in Attempts : b # a => exec'[b] = exec[b]
  BY <1>2, <1>3, StepFacts DEF rows
<1>5. StepFits(a)'
  BY <1>2, <1>3, <1>4 DEF StepFits, OpenStatus
<1> QED BY <1>1, <1>3, <1>4, <1>5, StepOnly

\* A count is sent.
LEMMA StartCountAgrees ==
  ASSUME Agreement, LedgerInv', NEW a \in Attempts, StartCount(a)
  PROVE  Agreement'
<1>1. exec[a].pc = "counting"
  BY DEF StartCount, At
<1>2. /\ Going /\ Local(a) = ckpt /\ IsCheckpoint(ckpt) /\ CheckpointsShaped /\ Held(a) /\ InTheirHands
      /\ ckpt.model = 0 /\ ckpt.count.no # 0 /\ ckpt.mark = Watermark(<<0, ckpt.count.no>>)
  BY <1>1, Working, WorksWith, Shapes DEF Going, StepFits
<1>3. PICK c, s, new : /\ c = <<0, ckpt.count.no>> /\ s = Moved(c, "running", "pending", "started")
                       /\ ledger[c].status = "prepared" /\ new = Marked(ckpt, c, "running")
                       /\ ledger' = [ledger EXCEPT ![c] = s] /\ Saves(a, "counted", new)
                       /\ UNCHANGED <<run, node, other, attempts, wakeups, wait>>
  BY <1>2 DEF StartCount, CountOf
<1>4. c \in Calls /\ IsCount(c) /\ ~IsModel(c)
  BY <1>2, <1>3, Shapes, Names, LedgerAssumption
<1>5. /\ new.by = ckpt.by /\ new.mark = ckpt.mark /\ new.model = ckpt.model /\ new.status = ckpt.status
      /\ new.batch = ckpt.batch /\ new.repairing = ckpt.repairing /\ new.calls = ckpt.calls
      /\ new.count.no = ckpt.count.no /\ new.count.status = "running"
  BY <1>2, <1>3, <1>4 DEF Marked, IsCheckpoint, CountState
<1>6. ckpt' = new /\ exec'[a].pc = "counted" /\ exec'[a].ck = new /\ \A b \in Attempts : b # a => exec'[b] = exec[b]
  BY <1>2, <1>3, StepFacts DEF Saves
<1>7. /\ RowAgrees(s) /\ MadeFor(s, Len(attempts)) /\ s.status = "running" /\ LatestTry(c) > 0
      /\ Len(s.tries) = LatestTry(c) /\ LastOf(s).by = LastTry(c).by
  BY <1>2, <1>3, <1>4, MovesOn DEF Moves
<1>8. LastTry(c).by = a
  <2>1. exec[a].pc \in Busy /\ c = InHand(exec[a])
    BY <1>1, <1>2, <1>3 DEF Busy, InHand, Local
  <2> QED BY <1>2, <1>3, <1>4, <1>7, <2>1 DEF InTheirHands
<1>9. ckpt'.mark = Append(c, Len(s.tries))
  BY <1>2, <1>3, <1>5, <1>6, <1>7 DEF Watermark
<1>10. StepFits(a)'
  BY <1>2, <1>5, <1>6 DEF StepFits
<1>11. OnItsOwn(a)
  BY <1>3, <1>6 DEF OnItsOwn
<1>12. RowBecomes(c, s) /\ CountBecomes(a, c, s)
  BY <1>3, <1>5, <1>6, <1>7, <1>8, <1>9 DEF RowBecomes, CountBecomes
<1>13. exec[a].pc # "counted"
  BY <1>1
<1> QED BY <1>1, <1>2, <1>3, <1>10, <1>11, <1>12, <1>13, CountMoves

\* A count comes back, or is estimated.
LEMMA FinishCountAgrees ==
  ASSUME Agreement, LedgerInv', NEW a \in Attempts, NEW fits \in BOOLEAN, FinishCount(a, fits)
  PROVE  Agreement'
<1>1. exec[a].pc \in {"counting", "counted"}
  BY DEF FinishCount, At
<1>2. /\ Going /\ Local(a) = ckpt /\ IsCheckpoint(ckpt) /\ CheckpointsShaped
      /\ ckpt.model = 0 /\ ckpt.count.no # 0 /\ ckpt.status = "absent" /\ ckpt.batch = <<>>
  BY <1>1, Working, WorksWith, Shapes DEF Going, StepFits, Steady
<1>3. PICK c, s, new, pc : /\ c = <<0, ckpt.count.no>> /\ s = Moved(c, "completed", "succeeded", "succeeded")
                           /\ ledger[c].status = IF ProviderCounts THEN "running" ELSE "prepared"
                           /\ exec[a].pc = IF ProviderCounts THEN "counted" ELSE "counting"
                           /\ new = [Marked(ckpt, c, "completed") EXCEPT !.count.fits = fits]
                           /\ ledger' = [ledger EXCEPT ![c] = s] /\ Saves(a, pc, new)
                           /\ pc \in {"call", "fail", "trim"}
                           /\ UNCHANGED <<run, node, other, attempts, wakeups, wait>>
  BY <1>2 DEF FinishCount, CountOf, AfterCount, At
<1>4. c \in Calls /\ IsCount(c) /\ ~IsModel(c)
  BY <1>2, <1>3, Shapes, Names, LedgerAssumption
<1>5. /\ new.by = ckpt.by /\ new.mark = ckpt.mark /\ new.model = ckpt.model /\ new.status = ckpt.status
      /\ new.batch = ckpt.batch /\ new.repairing = ckpt.repairing /\ new.calls = ckpt.calls
      /\ new.count.no = ckpt.count.no /\ new.count.status = "completed"
  BY <1>2, <1>3, <1>4 DEF Marked, IsCheckpoint, CountState
<1>6. ckpt' = new /\ exec'[a].pc = pc /\ exec'[a].ck = new /\ \A b \in Attempts : b # a => exec'[b] = exec[b]
  BY <1>2, <1>3, StepFacts DEF Saves
<1>7. RowAgrees(s) /\ MadeFor(s, Len(attempts)) /\ s.status = "completed"
  BY <1>2, <1>3, <1>4, MovesOn DEF Moves
<1>8. exec[a].pc = "counted" => StatusIn(ckpt, c) = "running"
  BY <1>2, <1>3, <1>4, OpenIsSaid DEF OpenStatus
<1>9. StepFits(a)'
  BY <1>2, <1>3, <1>5, <1>6 DEF StepFits, OpenStatus
<1>10. OnItsOwn(a)
  BY <1>3, <1>6 DEF OnItsOwn
<1>11. RowBecomes(c, s) /\ CountBecomes(a, c, s)
  BY <1>3, <1>5, <1>6, <1>7 DEF RowBecomes, CountBecomes
<1>12. exec[a].pc \in {"count", "counting", "counted"}
  BY <1>1
<1> QED BY <1>2, <1>3, <1>8, <1>9, <1>10, <1>11, <1>12, CountMoves

\* The request is trimmed.
LEMMA ReassembleAgrees ==
  ASSUME Agreement, LedgerInv', NEW a \in Attempts, NEW ok \in BOOLEAN, Reassemble(a, ok)
  PROVE  Agreement'
<1>1. exec[a].pc = "trim"
  BY DEF Reassemble, At
<1>2. /\ Going /\ Local(a) = ckpt /\ CheckpointsShaped /\ ckpt.model = 0
      /\ ckpt.count.status \in {"absent", "completed"}
  BY <1>1, Working, WorksWith, Shapes DEF Going, StepFits
<1>3. PICK pc : pc = (IF ok THEN "count" ELSE "fail")
  OBVIOUS
<1>4. /\ exec = [b \in Attempts |-> exec[b]] /\ exec[a] \in [pc : Pcs, ck : {exec[a].ck}, trim : Nat]
  BY <1>2 DEF CheckpointsShaped, IsExecutor
<1>5. exec' = [exec EXCEPT ![a] = [[exec[a] EXCEPT !.pc = pc] EXCEPT !.trim = exec[a].trim + 1]] /\ UNCHANGED rows
  BY <1>3, <1>4 DEF Reassemble
<1>6. exec'[a].pc = pc /\ exec'[a].ck = exec[a].ck /\ ckpt' = ckpt /\ \A b \in Attempts : b # a => exec'[b] = exec[b]
  BY <1>4, <1>5 DEF rows
<1>7. StepFits(a)'
  BY <1>2, <1>3, <1>6 DEF StepFits, Local
<1> QED BY <1>1, <1>5, <1>6, <1>7, StepOnly

\* All steps of counting.
LEMMA CountAgrees ==
  ASSUME Agreement, LedgerInv', NEW a \in Attempts, CountStep(a)
  PROVE  Agreement'
BY PrepareCountAgrees, RetryCountAgrees, ReuseCountAgrees, StartCountAgrees, FinishCountAgrees, ReassembleAgrees
   DEF CountStep

(***************************************************************************)
(* A model call.                                                           *)
(***************************************************************************)
\* A call the checkpoint does not say to be open is not.
LEMMA NotOpen ==
  ASSUME Going, NEW c \in Calls, StatusIn(ckpt, c) \notin OpenStatus
  PROVE  ledger[c].status \notin OpenStatus
BY OpenIsSaid

\* A model call is prepared.
LEMMA PrepareModelAgrees ==
  ASSUME Agreement, LedgerInv', NEW a \in Attempts, PrepareModel(a)
  PROVE  Agreement'
<1>1. exec[a].pc = "call"
  BY DEF PrepareModel, At
<1>2. /\ Going /\ Local(a) = ckpt /\ IsCheckpoint(ckpt) /\ CheckpointsShaped /\ RowsShaped
      /\ a \in DOMAIN attempts /\ ckpt.model \in 0 .. MaxModelCalls /\ ckpt.count.no \in 0 .. MaxCounts
  BY <1>1, Working, WorksWith, Shapes
<1>3. /\ ckpt.status \notin OpenStatus /\ ckpt.count.status \notin OpenStatus
      /\ \A i \in DOMAIN ckpt.batch : ckpt.batch[i] \notin OpenStatus
  BY <1>1, <1>2 DEF Going, StepFits
<1>4. PICK m, c, s, new :
        /\ m = ckpt.model + 1 /\ m \in Models /\ c = <<m>> /\ s = Prepared(ModelClass, a)
        /\ new = [ckpt EXCEPT !.by = a, !.model = m, !.status = "prepared", !.mark = <<m, 1>>,
                    !.calls = <<>>, !.answered = FALSE, !.valid = FALSE, !.batch = <<>>,
                    !.filled = FALSE, !.repairing = FALSE]
        /\ ledger' = [ledger EXCEPT ![c] = s] /\ Saves(a, "send", new)
        /\ UNCHANGED <<run, node, other, attempts, wakeups, wait>>
  <2>1. PICK m : m = ckpt.model + 1
    OBVIOUS
  <2>2. PICK new : new = [ckpt EXCEPT !.by = a, !.model = m, !.status = "prepared", !.mark = <<m, 1>>,
                            !.calls = <<>>, !.answered = FALSE, !.valid = FALSE, !.batch = <<>>,
                            !.filled = FALSE, !.repairing = FALSE]
    OBVIOUS
  <2>3. /\ m =< MaxModelCalls
        /\ ledger' = [ledger EXCEPT ![<<m>>] = Prepared(ModelClass, a)] /\ Saves(a, "send", new)
        /\ UNCHANGED <<run, node, other, attempts, wakeups, wait>>
    BY <1>2, <2>1, <2>2 DEF PrepareModel, Untouched
  <2>4. m \in Models
    BY <1>2, <2>1, <2>3, LedgerAssumption DEF Models
  <2> QED BY <2>1, <2>2, <2>3, <2>4
<1>5. /\ new.by = a /\ new.mark = <<m, 1>> /\ new.model = m /\ new.status = "prepared" /\ new.batch = <<>>
      /\ new.count = ckpt.count /\ new.calls = <<>> /\ new.repairing = FALSE
  BY <1>2, <1>4 DEF IsCheckpoint
<1>6. c \in Calls /\ IsModel(c) /\ c[1] = m
  BY <1>4, Names
<1>7. /\ RowAgrees(s) /\ s.status = "prepared" /\ Len(s.tries) = 1 /\ LastOf(s).by = a
      /\ MadeFor(s, Len(attempts))
  <2>1. ModelClass \in Classes /\ a \in 1 .. Len(attempts) /\ Len(attempts) \in Nat /\ a \in Nat
    BY <1>2, <1>6, IsThere, AreMadeFor, LedgerAssumption
  <2> QED BY <1>4, <2>1, PreparedAgrees DEF LastOf
<1>8. ckpt' = new /\ exec'[a].pc = "send" /\ exec'[a].ck = new /\ \A b \in Attempts : b # a => exec'[b] = exec[b]
  BY <1>2, <1>4, StepFacts DEF Saves
<1>9. Rewrites(c, s)
  <2>1. StatusIn(ckpt', c) = s.status
    BY <1>5, <1>6, <1>7, <1>8 DEF StatusIn
  <2> QED BY <1>4, <1>7, <2>1 DEF Rewrites
<1>10. LeavesOthers(c)
  <2> SUFFICES ASSUME NEW d \in Calls, d # c
               PROVE  \/ StatusIn(ckpt', d) = StatusIn(ckpt, d)
                      \/ StatusIn(ckpt', d) = "absent" /\ ledger[d].status \notin OpenStatus
    BY DEF LeavesOthers
  <2>1. CASE IsModel(d)
    <3>1. d[1] # m
      BY <1>6, <2>1, SameName
    <3>2. StatusIn(ckpt', d) = "absent"
      BY <1>5, <1>8, <2>1, <3>1 DEF StatusIn
    <3>3. StatusIn(ckpt, d) \notin OpenStatus
      BY <1>3, <2>1 DEF StatusIn, OpenStatus
    <3> QED BY <1>2, <3>2, <3>3, NotOpen
  <2>2. CASE ~IsModel(d) /\ IsCount(d)
    BY <1>5, <1>8, <2>2 DEF StatusIn
  <2>3. CASE ~IsModel(d) /\ ~IsCount(d)
    <3>1. StatusIn(ckpt', d) = "absent"
      BY <1>5, <1>8, <2>3 DEF StatusIn
    <3>2. StatusIn(ckpt, d) \notin OpenStatus
      BY <1>3, <2>3 DEF StatusIn, OpenStatus
    <3> QED BY <1>2, <3>1, <3>2, NotOpen
  <2> QED BY <2>1, <2>2, <2>3
<1>11. OthersRest(c)
  BY <1>1, NothingSent DEF OthersRest
<1>12. Signs(a, c, s)
  BY <1>4, <1>5, <1>7, <1>8 DEF Signs
<1>13. ModelsBounded'
  BY <1>2, <1>4, <1>5, <1>8, IsThere, LedgerAssumption DEF ModelsBounded, Models
<1>14. Steady'
  <2>1. ckpt'.by # 0 /\ ckpt'.model # 0
    BY <1>2, <1>4, <1>5, <1>8, IsThere
  <2>2. ckpt.count.no = 0 => ckpt.count.status = "absent"
    BY <1>2 DEF Going, Steady
  <2>3. ckpt.count.status \notin {"validated", "awaiting_approval"}
    BY <1>3 DEF OpenStatus
  <2> QED BY <1>3, <1>5, <1>8, <2>1, <2>2, <2>3 DEF Steady
<1>15. StepFits(a)'
  <2>1. Len(ledger'[c].tries) = 1
    BY <1>2, <1>4, <1>6, <1>7 DEF RowsShaped
  <2>2. Append(<<m>>, 1) = <<m, 1>>
    BY <1>2, <1>4, ShortMark
  <2> QED BY <1>4, <1>5, <1>8, <2>1, <2>2 DEF StepFits, Watermark, LatestTry
<1>16. OnItsOwn(a)
  BY <1>4, <1>8 DEF OnItsOwn
<1>17. exec[a].pc # "gone"
  BY <1>1
<1> QED BY <1>6, <1>9, <1>10, <1>11, <1>12, <1>13, <1>14, <1>15, <1>16, <1>17, OneCallStep

\* The checkpoint with the model call in the status of the row s.
ModelBecomes(a, c, s) ==
    /\ ckpt'.model = ckpt.model /\ ckpt'.status = s.status /\ ckpt'.batch = ckpt.batch
    /\ ckpt'.repairing = ckpt.repairing /\ ckpt'.count = ckpt.count /\ ckpt'.calls \in Batches
    /\ ckpt'.by = a \/ (ckpt'.by = ckpt.by /\ s.status # "prepared")
    /\ s.status = "running" =>
         LastOf(s).by = a /\ ckpt'.mark = Append(c, Len(s.tries)) /\ exec'[a].pc = "receive"
    /\ s.status = "prepared" => LastOf(s).by = a /\ exec'[a].pc = "send"

\* An executor with a model call in hand has one.
LEMMA ModelInHand ==
  ASSUME Agreement, NEW a \in Attempts, exec[a].pc \in {"again", "send", "receive"}
  PROVE  /\ Going /\ Local(a) = ckpt /\ IsCheckpoint(ckpt) /\ CheckpointsShaped /\ RowsShaped /\ InTheirHands
         /\ a \in DOMAIN attempts /\ Held(a) /\ ckpt.calls \in Batches /\ ckpt.batch = <<>> /\ ~ckpt.repairing
         /\ ckpt.model \in Models /\ <<ckpt.model>> \in Calls /\ IsModel(<<ckpt.model>>)
<1>1. /\ Going /\ Local(a) = ckpt /\ IsCheckpoint(ckpt) /\ CheckpointsShaped /\ RowsShaped /\ InTheirHands
      /\ a \in DOMAIN attempts /\ Held(a) /\ ckpt.calls \in Batches /\ Fits(ckpt)
  BY Working, WorksWith, Shapes DEF Agreement, Bounded, ModelsBounded
<1>2. exec[a].ck = ckpt
  BY <1>1 DEF Local
<1>3. ckpt.status \in {"retry_ready", "prepared", "running"}
  BY <1>1, <1>2 DEF CheckpointsShaped, Stands
<1>4. ckpt.batch = <<>> /\ ~ckpt.repairing
  BY <1>1, <1>3 DEF Fits, Going, Steady
<1>5. ckpt.model # 0
  BY <1>1, <1>3 DEF Going, Steady
<1>6. ckpt.model \in Models
  BY <1>5, Shapes, LedgerAssumption DEF Models
<1> QED BY <1>1, <1>4, <1>6, Names

\* The model call in hand moves on.
LEMMA ModelMoves ==
  ASSUME Agreement, LedgerInv', NEW a \in Attempts, exec[a].pc \in {"again", "send", "receive"},
         OnItsOwn(a), NEW c, c = <<ckpt.model>>,
         NEW s, RowBecomes(c, s), ModelBecomes(a, c, s),
         exec[a].pc = "receive" => StatusIn(ckpt, c) = "running",
         StepFits(a)'
  PROVE  Agreement'
<1> USE DEF RowBecomes, ModelBecomes
<1>1. Going /\ exec[a].pc # "gone" /\ a \in DOMAIN attempts
  BY Working
<1>2. /\ ckpt.model \in Models /\ c \in Calls /\ IsModel(c) /\ ckpt.model \in 0 .. MaxModelCalls
      /\ ckpt.count.no \in 0 .. MaxCounts
  BY ModelInHand, Shapes
<1>10. ~ckpt.repairing
  BY ModelInHand
<1>3. \A d \in Calls : StatusIn(ckpt', d) = IF d = c THEN s.status ELSE StatusIn(ckpt, d)
  BY <1>2, ModelSays
<1>4. Rewrites(c, s)
  BY <1>2, <1>3 DEF Rewrites
<1>5. LeavesOthers(c)
  BY <1>3 DEF LeavesOthers
<1>6. OthersRest(c)
  <2>1. CASE exec[a].pc = "receive"
    BY <1>1, <1>2, <2>1, OneRunning DEF OthersRest
  <2>2. CASE exec[a].pc # "receive"
    BY <1>1, <2>2, NothingSent DEF OthersRest
  <2> QED BY <2>1, <2>2
<1>7. Signs(a, c, s)
  BY <1>2 DEF Signs, PcsOf
<1>8. ModelsBounded'
  BY <1>1, <1>2, IsThere DEF Agreement, Bounded, ModelsBounded
<1>9. Steady'
  <2>1. ckpt.model # 0
    BY <1>2, LedgerAssumption DEF Models
  <2>2. ckpt'.by # 0 /\ ckpt'.model # 0
    BY <1>1, <2>1, IsThere DEF Going, Steady
  <2>3. s.status \notin {"validated", "awaiting_approval"}
    OBVIOUS
  <2> QED BY <1>1, <1>2, <1>10, <2>1, <2>2, <2>3 DEF Going, Steady, Models
<1> QED BY <1>1, <1>2, <1>4, <1>5, <1>6, <1>7, <1>8, <1>9, OneCallStep

\* A model call that may be made again is prepared again.
LEMMA RetryModelAgrees ==
  ASSUME Agreement, LedgerInv', NEW a \in Attempts, RetryModel(a)
  PROVE  Agreement'
<1>1. exec[a].pc \in {"again", "send", "receive"} /\ exec[a].pc = "again"
  BY DEF RetryModel, At
<1>2. /\ Going /\ Local(a) = ckpt /\ IsCheckpoint(ckpt) /\ CheckpointsShaped /\ RowsShaped
      /\ a \in DOMAIN attempts /\ <<ckpt.model>> \in Calls /\ ckpt.calls \in Batches /\ ckpt.batch = <<>>
  BY <1>1, ModelInHand
<1>3. PICK c, s, new : /\ c = <<ckpt.model>> /\ s = Retried(c, a) /\ ledger[c].status = "retry_ready"
                       /\ new = [ckpt EXCEPT !.by = a, !.status = "prepared", !.mark = Append(c, LatestTry(c) + 1)]
                       /\ ledger' = [ledger EXCEPT ![c] = s] /\ Saves(a, "send", new)
                       /\ UNCHANGED <<run, node, other, attempts, wakeups, wait>>
  BY <1>2 DEF RetryModel, ModelOf, Untouched
<1>4. /\ new.by = a /\ new.mark = Append(c, LatestTry(c) + 1) /\ new.model = ckpt.model /\ new.status = "prepared"
      /\ new.batch = ckpt.batch /\ new.repairing = ckpt.repairing /\ new.calls = ckpt.calls /\ new.count = ckpt.count
  BY <1>2, <1>3 DEF IsCheckpoint
<1>5. ckpt' = new /\ exec'[a].pc = "send" /\ exec'[a].ck = new /\ \A b \in Attempts : b # a => exec'[b] = exec[b]
  BY <1>2, <1>3, StepFacts DEF Saves
<1>6. /\ RowAgrees(s) /\ MadeFor(s, Len(attempts)) /\ s.status = "prepared" /\ Len(s.tries) = LatestTry(c) + 1
      /\ LastOf(s).by = a
  BY <1>2, <1>3, TriesAgain
<1>7. StepFits(a)'
  <2>1. c = <<ckpt'.model>>
    BY <1>3, <1>4, <1>5
  <2>2. Len(ledger'[c].tries) = LatestTry(c) + 1
    BY <1>2, <1>3, <1>6 DEF RowsShaped
  <2> QED BY <1>4, <1>5, <2>1, <2>2 DEF StepFits, Watermark, LatestTry
<1>8. OnItsOwn(a)
  BY <1>3, <1>5 DEF OnItsOwn
<1>9. RowBecomes(c, s) /\ ModelBecomes(a, c, s)
  BY <1>2, <1>3, <1>4, <1>5, <1>6 DEF RowBecomes, ModelBecomes
<1>10. exec[a].pc # "receive"
  BY <1>1
<1> QED BY <1>1, <1>3, <1>7, <1>8, <1>9, <1>10, ModelMoves

\* A model call is sent.
LEMMA StartModelAgrees ==
  ASSUME Agreement, LedgerInv', NEW a \in Attempts, StartModel(a)
  PROVE  Agreement'
<1>1. exec[a].pc \in {"again", "send", "receive"} /\ exec[a].pc = "send"
  BY DEF StartModel, At
<1>2. /\ Going /\ Local(a) = ckpt /\ IsCheckpoint(ckpt) /\ CheckpointsShaped /\ InTheirHands /\ Held(a)
      /\ <<ckpt.model>> \in Calls /\ ckpt.calls \in Batches /\ ckpt.mark = Watermark(<<ckpt.model>>)
  BY <1>1, ModelInHand DEF Going, StepFits
<1>3. PICK c, s, new : /\ c = <<ckpt.model>> /\ s = Moved(c, "running", "pending", "started")
                       /\ ledger[c].status = "prepared" /\ new = [ckpt EXCEPT !.status = "running"]
                       /\ ledger' = [ledger EXCEPT ![c] = s] /\ Saves(a, "receive", new)
                       /\ UNCHANGED <<run, node, other, attempts, wakeups, wait>>
  BY <1>2 DEF StartModel, ModelOf, Untouched
<1>4. /\ new.by = ckpt.by /\ new.mark = ckpt.mark /\ new.model = ckpt.model /\ new.status = "running"
      /\ new.batch = ckpt.batch /\ new.repairing = ckpt.repairing /\ new.calls = ckpt.calls /\ new.count = ckpt.count
  BY <1>2, <1>3 DEF IsCheckpoint
<1>5. ckpt' = new /\ exec'[a].pc = "receive" /\ exec'[a].ck = new /\ \A b \in Attempts : b # a => exec'[b] = exec[b]
  BY <1>2, <1>3, StepFacts DEF Saves
<1>6. /\ RowAgrees(s) /\ MadeFor(s, Len(attempts)) /\ s.status = "running" /\ LatestTry(c) > 0
      /\ Len(s.tries) = LatestTry(c) /\ LastOf(s).by = LastTry(c).by
  BY <1>2, <1>3, MovesOn DEF Moves
<1>7. LastTry(c).by = a
  <2>1. exec[a].pc \in Busy /\ c = InHand(exec[a])
    BY <1>1, <1>2, <1>3 DEF Busy, InHand, Local
  <2> QED BY <1>2, <1>3, <1>6, <2>1 DEF InTheirHands
<1>8. ckpt'.mark = Append(c, Len(s.tries))
  BY <1>2, <1>3, <1>4, <1>5, <1>6 DEF Watermark
<1>9. StepFits(a)'
  BY <1>5 DEF StepFits
<1>10. OnItsOwn(a)
  BY <1>3, <1>5 DEF OnItsOwn
<1>11. RowBecomes(c, s) /\ ModelBecomes(a, c, s)
  BY <1>2, <1>3, <1>4, <1>5, <1>6, <1>7, <1>8 DEF RowBecomes, ModelBecomes
<1>12. exec[a].pc # "receive"
  BY <1>1
<1> QED BY <1>1, <1>3, <1>9, <1>10, <1>11, <1>12, ModelMoves

\* A model call comes back.
LEMMA ModelFinishes ==
  ASSUME Agreement, LedgerInv', NEW a \in Attempts, Receives(a), NEW status \in {"completed", "failed"}, NEW effect,
         <<status, effect>> \in {<<"completed", "succeeded">>, <<"failed", "failed">>},
         Finishes(a, ModelOf(Local(a)), status, effect), NEW pc \in {"plan", "fail"}, NEW new,
         Saves(a, pc, new), Untouched, new.by = ckpt.by, new.model = ckpt.model, new.status = status,
         new.batch = ckpt.batch, new.repairing = ckpt.repairing, new.count = ckpt.count, new.calls \in Batches
  PROVE  Agreement'
<1>1. exec[a].pc \in {"again", "send", "receive"} /\ exec[a].pc = "receive"
  BY DEF Receives, At
<1>2. /\ Going /\ Local(a) = ckpt /\ CheckpointsShaped /\ <<ckpt.model>> \in Calls
      /\ ckpt.batch = <<>> /\ ~ckpt.repairing
  BY <1>1, ModelInHand
<1>3. PICK c, s : /\ c = <<ckpt.model>> /\ s = Moved(c, status, effect, effect)
                  /\ ledger[c].status = "running" /\ ledger' = [ledger EXCEPT ![c] = s]
  BY <1>2 DEF Receives, Finishes, ModelOf
<1>4. ckpt' = new /\ exec'[a].pc = pc /\ exec'[a].ck = new /\ \A b \in Attempts : b # a => exec'[b] = exec[b]
  BY <1>2, StepFacts DEF Saves
<1>5. RowAgrees(s) /\ MadeFor(s, Len(attempts)) /\ s.status = status
  <2>1. <<status, effect, effect>> \in Moves /\ effect # "superseded_before_start"
    BY DEF Moves
  <2> QED BY <1>2, <1>3, <2>1, MovesOn
<1>6. StepFits(a)'
  BY <1>2, <1>4 DEF StepFits
<1>7. OnItsOwn(a)
  BY <1>4 DEF OnItsOwn, Untouched
<1>8. RowBecomes(c, s) /\ ModelBecomes(a, c, s)
  BY <1>3, <1>4, <1>5 DEF RowBecomes, ModelBecomes
<1>9. StatusIn(ckpt, c) = "running"
  BY <1>2, <1>3, OpenIsSaid DEF OpenStatus
<1> QED BY <1>1, <1>3, <1>6, <1>7, <1>8, <1>9, ModelMoves

\* All steps of a model call, but that it is lost.
LEMMA ModelStepAgrees ==
  ASSUME Agreement, LedgerInv', NEW a \in Attempts, ModelStep(a), ~LoseModel(a)
  PROVE  Agreement'
<1>1. CASE PrepareModel(a) \/ RetryModel(a) \/ StartModel(a)
  BY <1>1, PrepareModelAgrees, RetryModelAgrees, StartModelAgrees
<1>2. ASSUME Receives(a)
      PROVE  IsCheckpoint(ckpt) /\ Local(a) = ckpt /\ ckpt.calls \in Batches
  <2>1. exec[a].pc \in {"again", "send", "receive"}
    BY <1>2 DEF Receives, At
  <2> QED BY <2>1, ModelInHand
<1>3. ASSUME NEW calls \in Batches, NEW valid \in BOOLEAN, AnswerModel(a, calls, valid)
      PROVE  Agreement'
  <2>1. PICK new : new = [ckpt EXCEPT !.status = "completed", !.calls = calls, !.valid = valid, !.answered = TRUE]
    OBVIOUS
  <2>2. /\ Receives(a) /\ Finishes(a, ModelOf(Local(a)), "completed", "succeeded")
        /\ Saves(a, "plan", new) /\ Untouched /\ IsCheckpoint(ckpt)
    BY <1>2, <1>3, <2>1 DEF AnswerModel
  <2>3. /\ new.by = ckpt.by /\ new.model = ckpt.model /\ new.status = "completed" /\ new.batch = ckpt.batch
        /\ new.repairing = ckpt.repairing /\ new.count = ckpt.count /\ new.calls \in Batches
    BY <1>3, <2>1, <2>2 DEF IsCheckpoint
  <2> QED BY <2>2, <2>3, ModelFinishes
<1>4. CASE RejectModel(a)
  <2>1. PICK new : new = [ckpt EXCEPT !.status = "completed"]
    OBVIOUS
  <2>2. /\ Receives(a) /\ Finishes(a, ModelOf(Local(a)), "completed", "succeeded")
        /\ Saves(a, "fail", new) /\ Untouched /\ IsCheckpoint(ckpt) /\ ckpt.calls \in Batches
    BY <1>2, <1>4, <2>1 DEF RejectModel
  <2>3. /\ new.by = ckpt.by /\ new.model = ckpt.model /\ new.status = "completed" /\ new.batch = ckpt.batch
        /\ new.repairing = ckpt.repairing /\ new.count = ckpt.count /\ new.calls \in Batches
    BY <2>1, <2>2 DEF IsCheckpoint
  <2> QED BY <2>2, <2>3, ModelFinishes
<1>5. CASE FailModel(a)
  <2>1. PICK new : new = [ckpt EXCEPT !.status = "failed"]
    OBVIOUS
  <2>2. /\ Receives(a) /\ Finishes(a, ModelOf(Local(a)), "failed", "failed")
        /\ Saves(a, "fail", new) /\ Untouched /\ IsCheckpoint(ckpt) /\ ckpt.calls \in Batches
    BY <1>2, <1>5, <2>1 DEF FailModel
  <2>3. /\ new.by = ckpt.by /\ new.model = ckpt.model /\ new.status = "failed" /\ new.batch = ckpt.batch
        /\ new.repairing = ckpt.repairing /\ new.count = ckpt.count /\ new.calls \in Batches
    BY <2>1, <2>2 DEF IsCheckpoint
  <2> QED BY <2>2, <2>3, ModelFinishes
<1>6. <<>> \in Batches
  BY LedgerAssumption
<1> QED BY <1>1, <1>3, <1>4, <1>5, <1>6 DEF ModelStep

(***************************************************************************)
(* A call of which nobody knows what became of it.                         *)
(***************************************************************************)
\* The checkpoint with the call c of it in another status.
MarkedTo(new, c, status) ==
    /\ \A d \in Calls : StatusIn(new, d) = IF d = c THEN status ELSE StatusIn(ckpt, d)
    /\ new.by = ckpt.by /\ new.model = ckpt.model /\ new.calls = ckpt.calls /\ new.mark = ckpt.mark
    /\ new.repairing = ckpt.repairing /\ new.count.no = ckpt.count.no /\ DOMAIN new.batch = DOMAIN ckpt.batch
    /\ IsModel(c) => new.status = status /\ new.batch = ckpt.batch /\ ckpt.model \in Models /\ c = <<ckpt.model>>
    /\ IsCount(c) => new.count.status = status /\ ckpt.count.no \in 1 .. MaxCounts
    /\ ~IsModel(c) => new.status = ckpt.status
    /\ ~IsCount(c) => new.count = ckpt.count
    /\ ~IsModel(c) /\ ~IsCount(c) =>
         /\ c[1] = ckpt.model /\ ckpt.model \in Models /\ c[2] \in DOMAIN ckpt.batch /\ c = <<ckpt.model, c[2]>>
         /\ ckpt.batch # <<>> /\ ckpt.batch[c[2]] = StatusIn(ckpt, c)
         /\ new.batch = [ckpt.batch EXCEPT ![c[2]] = status]

\* ... is what Marked makes of it.
LEMMA MarkedSays ==
  ASSUME Agreement, NEW c \in Calls, StatusIn(ckpt, c) # "absent", NEW status, NEW new, new = Marked(ckpt, c, status)
  PROVE  MarkedTo(new, c, status)
<1>1. IsCheckpoint(ckpt) /\ ckpt.batch \in Seq(CallStatus)
  BY Shapes
<1>2. CASE IsModel(c)
  <2>1. c[1] = ckpt.model /\ c[1] \in Models /\ c = <<c[1]>> /\ ~IsCount(c)
    BY <1>2, CallForms, LedgerAssumption DEF StatusIn, IsCount, Models
  <2>2. new = [ckpt EXCEPT !.status = status]
    BY <1>2 DEF Marked
  <2>3. /\ new.status = status /\ new.by = ckpt.by /\ new.model = ckpt.model /\ new.calls = ckpt.calls
        /\ new.mark = ckpt.mark /\ new.repairing = ckpt.repairing /\ new.count = ckpt.count /\ new.batch = ckpt.batch
    BY <1>1, <2>2 DEF IsCheckpoint
  <2>4. \A d \in Calls : StatusIn(new, d) = IF d = c THEN status ELSE StatusIn(ckpt, d)
    BY <2>1, <2>3, ModelSays
  <2> QED BY <1>2, <2>1, <2>3, <2>4 DEF MarkedTo
<1>3. CASE ~IsModel(c) /\ IsCount(c)
  <2>1. c[2] = ckpt.count.no /\ c[2] \in 1 .. MaxCounts /\ c = <<0, c[2]>>
    BY <1>3, CallForms, Names DEF StatusIn
  <2>2. new = [ckpt EXCEPT !.count.status = status]
    BY <1>3 DEF Marked
  <2>3. /\ new.status = ckpt.status /\ new.by = ckpt.by /\ new.model = ckpt.model /\ new.calls = ckpt.calls
        /\ new.mark = ckpt.mark /\ new.repairing = ckpt.repairing /\ new.batch = ckpt.batch
        /\ new.count.no = ckpt.count.no /\ new.count.status = status
    BY <1>1, <2>2 DEF IsCheckpoint, CountState
  <2>4. \A d \in Calls : StatusIn(new, d) = IF d = c THEN status ELSE StatusIn(ckpt, d)
    BY <2>1, <2>3, CountSays
  <2> QED BY <1>3, <2>1, <2>3, <2>4 DEF MarkedTo
<1>4. CASE ~IsModel(c) /\ ~IsCount(c)
  <2>1. /\ c[1] = ckpt.model /\ c[2] \in DOMAIN ckpt.batch /\ ckpt.batch[c[2]] = StatusIn(ckpt, c)
        /\ c[1] \in Models /\ c[2] \in 1 .. MaxBatch /\ c = <<c[1], c[2]>>
    BY <1>4, CallForms, Names DEF StatusIn
  <2>2. new = [ckpt EXCEPT !.batch = [ckpt.batch EXCEPT ![c[2]] = status]]
    BY <1>1, <1>4 DEF Marked, IsCheckpoint
  <2>3. /\ new.status = ckpt.status /\ new.by = ckpt.by /\ new.model = ckpt.model /\ new.calls = ckpt.calls
        /\ new.mark = ckpt.mark /\ new.repairing = ckpt.repairing /\ new.count = ckpt.count
        /\ new.batch = [ckpt.batch EXCEPT ![c[2]] = status]
    BY <1>1, <2>2 DEF IsCheckpoint
  <2>4. \A d \in Calls : StatusIn(new, d) = IF d = c THEN status ELSE StatusIn(ckpt, d)
    <3>1. /\ DOMAIN new.batch = DOMAIN ckpt.batch /\ new.batch[c[2]] = status
          /\ \A j \in DOMAIN ckpt.batch : j # c[2] => new.batch[j] = ckpt.batch[j]
      BY <1>1, <2>1, <2>3
    <3>2. new.count.no = ckpt.count.no /\ new.count.status = ckpt.count.status
      BY <2>3
    <3> QED BY <1>4, <2>1, <2>3, <3>1, <3>2, ToolSays
  <2>5. DOMAIN new.batch = DOMAIN ckpt.batch /\ ckpt.batch # <<>>
    BY <2>1, <2>3
  <2> QED BY <1>4, <2>1, <2>3, <2>4, <2>5 DEF MarkedTo
<1> QED BY <1>2, <1>3, <1>4

\* A call that runs is the only one.
LEMMA OnlyOneRuns ==
  ASSUME Agreement, Going, NEW c \in Calls, StatusIn(ckpt, c) = "running"
  PROVE  \A d \in Calls : d # c => StatusIn(ckpt, d) # "running"
BY Shapes, MarksDiffer DEF Going, InProgress, SentFits

\* While a call but a count runs, no model call is prepared.
LEMMA NoneBeside ==
  ASSUME Agreement, NEW c \in Calls, StatusIn(ckpt, c) = "running", ~IsCount(c)
  PROVE  ckpt.status # "prepared"
<1>1. CASE IsModel(c)
  BY <1>1 DEF StatusIn
<1>2. CASE ~IsModel(c)
  BY <1>2, MarkedSays, Shapes DEF Fits, MarkedTo
<1> QED BY <1>1, <1>2

\* A held attempt that ends waits for nobody, and takes the only executor with it.
LEMMA HeldFacts ==
  ASSUME Agreement, NEW a \in Attempts, Held(a), Live
  PROVE  /\ Going /\ a = Current /\ a \in DOMAIN attempts /\ wait.kind = "none" /\ wait = NoWait
         /\ node # "completed" /\ \A b \in Attempts : b # a => exec[b].pc = "gone"
         /\ \A c \in Calls : ledger[c].status # "outcome_unknown"
<1>1. Going /\ NoneLate /\ RunShaped /\ OneAtWork
  BY Shapes DEF Agreement
<1>2. a \in DOMAIN attempts /\ attempts[a].status = "running"
  BY DEF Held
<1>3. a = Current /\ wait.kind = "none"
  BY <1>1, <1>2, AtWork DEF Current
<1>4. \A b \in Attempts : b # a => exec[b].pc = "gone"
  BY <1>1, <1>3 DEF NoneLate, OneAtWork, Held, Current
<1>5. wait = NoWait /\ node # "completed" /\ \A c \in Calls : ledger[c].status # "outcome_unknown"
  BY <1>1, <1>2, <1>3 DEF Going, WaitFits, Finished
<1> QED BY <1>1, <1>2, <1>3, <1>4, <1>5

\* The node waits for a person who says what became of the call.
LEMMA Asking ==
  ASSUME Agreement, LedgerInv', NEW a \in Attempts, Held(a), Live, NEW c \in Calls, ~IsCount(c),
         StatusIn(ckpt, c) = "running", NEW new, new = Marked(ckpt, c, "outcome_unknown"), ckpt' = new,
         ledger' = [ledger EXCEPT ![c] = Moved(c, "outcome_unknown", "outcome_unknown", "outcome_unknown")],
         OpensEffectWait(a, c), run' \in {run, Drained}, UNCHANGED other,
         \A b \in Attempts : exec'[b].pc = "gone"
  PROVE  Agreement'
<1>1. /\ Going /\ a = Current /\ a \in DOMAIN attempts /\ wait.kind = "none" /\ Bounded
      /\ RowsShaped /\ RunShaped /\ \A d \in Calls : ledger[d].status # "outcome_unknown"
  BY HeldFacts, Shapes DEF Agreement
<1>2. ledger[c].status = "running"
  BY <1>1, SaidIsSo
<1>3. PICK s : s = Moved(c, "outcome_unknown", "outcome_unknown", "outcome_unknown")
  OBVIOUS
<1>4. RowAgrees(s) /\ MadeFor(s, Len(attempts)) /\ s.status = "outcome_unknown"
  BY <1>1, <1>2, <1>3, MovesOn DEF Moves
<1>5. \A d \in Calls : ledger'[d] = IF d = c THEN s ELSE ledger[d]
  BY <1>1, <1>3 DEF RowsShaped
<1>6. /\ \A d \in Calls : StatusIn(ckpt', d) = IF d = c THEN "outcome_unknown" ELSE StatusIn(ckpt, d)
      /\ ckpt'.by = ckpt.by /\ ckpt'.model = ckpt.model /\ ckpt'.calls = ckpt.calls
      /\ ckpt'.repairing = ckpt.repairing /\ ckpt'.count = ckpt.count /\ ckpt.model # 0
      /\ ckpt'.batch = <<>> <=> ckpt.batch = <<>>
      /\ ckpt'.status \in {ckpt.status, "outcome_unknown"}
  <2>1. StatusIn(ckpt, c) # "absent"
    OBVIOUS
  <2>2. 0 \notin Models
    BY LedgerAssumption DEF Models
  <2>3. /\ \A d \in Calls : StatusIn(new, d) = IF d = c THEN "outcome_unknown" ELSE StatusIn(ckpt, d)
        /\ new.by = ckpt.by /\ new.model = ckpt.model /\ new.calls = ckpt.calls
        /\ new.repairing = ckpt.repairing /\ new.count = ckpt.count /\ DOMAIN new.batch = DOMAIN ckpt.batch
        /\ IsModel(c) => new.status = "outcome_unknown" /\ ckpt.model \in Models
        /\ ~IsModel(c) => new.status = ckpt.status /\ ckpt.model \in Models
    <3>1. MarkedTo(new, c, "outcome_unknown")
      BY <2>1, MarkedSays
    <3> QED BY <3>1 DEF MarkedTo
  <2>4. ckpt.batch \in Seq(CallStatus) /\ ckpt'.batch \in Seq(CallStatus)
    BY Shapes DEF LedgerInv, Shaped, CheckpointsShaped, IsCheckpoint
  <2>5. ckpt'.batch = <<>> <=> ckpt.batch = <<>>
    <3>1. \A q \in Seq(CallStatus) : q = <<>> <=> DOMAIN q = {}
      OBVIOUS
    <3> QED BY <2>3, <2>4, <3>1
  <2> QED BY <2>2, <2>3, <2>5
<1>7. /\ Live' /\ run'.epoch = run.epoch
  BY <1>1 DEF Live, Drained, Terminal, RunShaped
<1>8. /\ attempts' \in Seq([status : AttemptStatus, epoch : Nat]) /\ Len(attempts') = Len(attempts)
      /\ DOMAIN attempts' = DOMAIN attempts /\ Current' = Current
  BY <1>1, WithStatusForm DEF OpensEffectWait, AttemptStatus, Current
<1>9. CallsAgree'
  <2>1. /\ ledger' = [ledger EXCEPT ![c] = s] /\ s.status \notin {"absent", "requested"}
        /\ StatusIn(ckpt', c) = s.status
    BY <1>3, <1>4, <1>6
  <2>2. \A d \in Calls : d # c =>
            \/ StatusIn(ckpt', d) = StatusIn(ckpt, d)
            \/ StatusIn(ckpt', d) = "absent" /\ ledger[d].status \notin OpenStatus
            \/ StatusIn(ckpt', d) = "requested" /\ ledger[d].status = "absent"
    BY <1>6
  <2> QED BY <1>1, <1>4, <2>1, <2>2, OneAgrees DEF Going
<1>10. Steady'
  <2>1. ~ckpt.repairing
    <3>1. CASE IsModel(c)
      BY <1>1, <3>1 DEF Going, Steady, StatusIn
    <3>2. CASE ~IsModel(c)
      <4>1. ckpt.batch # <<>>
        BY <3>2, MarkedSays DEF MarkedTo
      <4> QED BY <1>1, <4>1 DEF Going, Steady
    <3> QED BY <3>1, <3>2
  <2> QED BY <1>1, <1>6, <2>1 DEF Going, Steady
<1>11. InProgress'
  <2>1. \A d \in Calls : StatusIn(ckpt', d) # "running"
    BY <1>1, <1>6, OnlyOneRuns
  <2>2. ckpt'.status # "prepared"
    BY <1>6, NoneBeside
  <2>3. PreparedFits'
    <3> SUFFICES ASSUME NEW d \in Calls, ledger'[d].status = "prepared", LastTry(d)'.by = Current
                 PROVE  ckpt'.by = Current
      BY <1>8 DEF PreparedFits
    <3>1. ledger'[d] = ledger[d]
      BY <1>4, <1>5
    <3>2. LastTry(d)' = LastTry(d)
      BY <3>1 DEF LastTry, LatestTry
    <3> QED BY <1>1, <1>6, <3>1, <3>2 DEF Going, InProgress, PreparedFits
  <2> QED BY <2>1, <2>2, <2>3 DEF InProgress, SentFits, ModelFits
<1>12. WaitFits'
  BY <1>1, <1>4, <1>5 DEF WaitFits, OpensEffectWait
<1>13. Finished'
  BY <1>1 DEF Finished, Going, OpensEffectWait, Drained, RunShaped
<1>14. Bounded'
  <2>1. ModelsBounded'
    BY <1>1, <1>6 DEF Bounded, ModelsBounded
  <2>2. TriesBounded'
    <3>1. /\ ledger' = [ledger EXCEPT ![c] = s] /\ Len(attempts) =< Len(attempts')
          /\ MadeFor(s, Len(attempts')) /\ TriesBounded
      BY <1>1, <1>3, <1>4, <1>8 DEF Bounded, RunShaped
    <3> QED BY <1>1, <1>8, <3>1, OneBounded
  <2>3. RunBounded'
    BY <1>1, <1>7, <1>8 DEF Bounded, RunBounded, OpensEffectWait
  <2> QED BY <2>1, <2>2, <2>3 DEF Bounded
<1>15. NoneLate' /\ \A b \in Attempts : StepFits(b)'
  BY DEF NoneLate, StepFits
<1> QED BY <1>7, <1>9, <1>10, <1>11, <1>12, <1>13, <1>14, <1>15 DEF Agreement, Going

\* The executor of a tool call that was sent knows which one it is.
LEMMA ToolInHand ==
  ASSUME Agreement, NEW a \in Attempts, exec[a].pc \in {"tool", "retool"}
  PROVE  /\ Going /\ Held(a) /\ Live /\ Local(a) = ckpt /\ CheckpointsShaped
         /\ Running(a) \in Calls /\ ~IsModel(Running(a)) /\ ~IsCount(Running(a))
         /\ StatusIn(ckpt, Running(a)) = "running"
<1>1. Going /\ Held(a) /\ Live /\ Local(a) = ckpt /\ CheckpointsShaped /\ RowsShaped /\ TriesFit
  BY Working, WorksWith, Shapes
<1>2. PICK i \in DOMAIN ckpt.batch : ckpt.batch[i] = "running" /\ ckpt.mark = Watermark(<<ckpt.model, i>>)
  BY <1>1 DEF Going, StepFits, Tool
<1>3. ckpt.model \in Models /\ i \in 1 .. MaxBatch /\ ckpt.model \in Nat /\ i \in Nat
  <2>1. ckpt.model # 0
    BY <1>1, <1>2 DEF Going, Steady
  <2>2. ckpt.model \in 0 .. MaxModelCalls /\ i \in 1 .. MaxBatch
    BY Shapes
  <2> QED BY <2>1, <2>2, BatchLengths, LedgerAssumption DEF Models
<1> DEFINE c == <<ckpt.model, i>>
<1>4. c \in Calls /\ ~IsModel(c) /\ ~IsCount(c) /\ c[1] = ckpt.model /\ c[2] = i
  BY <1>3, Names DEF IsTool
<1>5. LatestTry(c) \in Nat
  BY <1>1, <1>4, RowFacts
<1>6. ckpt.mark = <<ckpt.model, i, LatestTry(c)>>
  BY <1>2, <1>3, <1>5, MarkForms DEF Watermark
<1>7. Running(a) = c
  BY <1>1, <1>6 DEF Running
<1>8. StatusIn(ckpt, c) = "running"
  BY <1>2, <1>4 DEF StatusIn
<1> HIDE DEF c
<1> QED BY <1>1, <1>4, <1>7, <1>8

\* A model call is lost.
LEMMA LoseModelAgrees ==
  ASSUME Agreement, LedgerInv', NEW a \in Attempts, LoseModel(a)
  PROVE  Agreement'
<1>1. exec[a].pc \in {"again", "send", "receive"} /\ exec[a].pc = "receive" /\ exec[a].pc # "gone"
  BY DEF LoseModel, Receives, At
<1>2. PICK c, new : c = <<ckpt.model>> /\ new = Marked(ckpt, c, "outcome_unknown")
  OBVIOUS
<1>3. /\ Going /\ Local(a) = ckpt /\ IsCheckpoint(ckpt) /\ CheckpointsShaped /\ Held(a) /\ Live
      /\ c \in Calls /\ IsModel(c)
  BY <1>1, <1>2, ModelInHand, Working
<1>4. ~IsCount(c)
  BY <1>3, Names DEF IsCount
<1>5. ledger[c].status = "running"
  BY <1>2, <1>3 DEF LoseModel, Receives, ModelOf
<1>6. StatusIn(ckpt, c) = "running"
  BY <1>3, <1>5, OpenIsSaid DEF OpenStatus
<1>7. ckpt' = new
  BY <1>2, <1>3 DEF LoseModel, Marked
<1>8. /\ ledger' = [ledger EXCEPT ![c] = Moved(c, "outcome_unknown", "outcome_unknown", "outcome_unknown")]
      /\ OpensEffectWait(a, c) /\ UNCHANGED other /\ run' \in {run, Drained} /\ Leave(a)
  BY <1>2, <1>3 DEF LoseModel, Finishes, ModelOf
<1>9. \A b \in Attempts : exec'[b].pc = "gone"
  BY <1>1, <1>3, <1>8, Working DEF Leave, Gone, CheckpointsShaped
<1> QED BY <1>2, <1>3, <1>4, <1>6, <1>7, <1>8, <1>9, Asking

\* A tool call is lost.
LEMMA LoseToolAgrees ==
  ASSUME Agreement, LedgerInv', NEW a \in Attempts, LoseTool(a)
  PROVE  Agreement'
<1>1. exec[a].pc \in {"tool", "retool"} /\ exec[a].pc # "gone"
  BY DEF LoseTool, Returns, At
<1>2. PICK c, new : c = Running(a) /\ new = Marked(ckpt, c, "outcome_unknown")
  OBVIOUS
<1>3. /\ Going /\ Held(a) /\ Live /\ Local(a) = ckpt /\ CheckpointsShaped
      /\ c \in Calls /\ ~IsCount(c) /\ StatusIn(ckpt, c) = "running"
  BY <1>1, <1>2, ToolInHand
<1>4. /\ ledger' = [ledger EXCEPT ![c] = Moved(c, "outcome_unknown", "outcome_unknown", "outcome_unknown")]
      /\ ckpt' = new /\ OpensEffectWait(a, c) /\ UNCHANGED other /\ run' \in {run, Drained} /\ Leave(a)
  BY <1>2, <1>3 DEF LoseTool, Finishes
<1>5. \A b \in Attempts : exec'[b].pc = "gone"
  BY <1>1, <1>3, <1>4, Working DEF Leave, Gone, CheckpointsShaped
<1> QED BY <1>2, <1>3, <1>4, <1>5, Asking

\* Executors that end with their attempt are gone when it is over.
LEMMA Lapsed ==
  ASSUME Agreement, ~LateExecutors, NEW a \in Attempts, Held(a), Live, Lapse(a)
  PROVE  \A b \in Attempts : exec'[b].pc = "gone"
BY Shapes, HeldFacts DEF Lapse, Gone, CheckpointsShaped

\* The lease of an attempt lapses that has sent what may not be repeated.
LEMMA RecoverUnknownAgrees ==
  ASSUME Agreement, LedgerInv', ~LateExecutors, NEW a \in Attempts, NEW c \in Calls, RecoverUnknown(a, c)
  PROVE  Agreement'
<1>1. Held(a) /\ Live /\ c \in Started(a) /\ ~IsCount(c) /\ StartedFits(a)
  BY DEF RecoverUnknown, Expired, Live, Terminal, Coordinated
<1>2. StatusIn(ckpt, c) = "running"
  BY <1>1 DEF StartedFits
<1>3. PICK new : new = Marked(ckpt, c, "outcome_unknown")
  OBVIOUS
<1>4. /\ ledger' = [ledger EXCEPT ![c] = Moved(c, "outcome_unknown", "outcome_unknown", "outcome_unknown")]
      /\ ckpt' = new /\ OpensEffectWait(a, c) /\ UNCHANGED other /\ run' \in {run, Drained}
  BY <1>3 DEF RecoverUnknown
<1>5. \A b \in Attempts : exec'[b].pc = "gone"
  BY <1>1, Lapsed DEF RecoverUnknown
<1> QED BY <1>1, <1>2, <1>3, <1>4, <1>5, Asking

(***************************************************************************)
(* The tools of a batch.                                                   *)
(***************************************************************************)
\* The checkpoint with a call of its batch in the status of the row s.
ToolBecomes(a, c, s) ==
    /\ ckpt'.model = ckpt.model /\ ckpt'.status = ckpt.status /\ ckpt'.count = ckpt.count
    /\ ckpt'.repairing = ckpt.repairing /\ ckpt'.calls = ckpt.calls
    /\ ckpt'.batch = [ckpt.batch EXCEPT ![c[2]] = s.status]
    /\ ckpt'.by = a \/ (ckpt'.by = ckpt.by /\ s.status # "prepared")
    /\ s.status = "running" =>
         LastOf(s).by = a /\ ckpt'.mark = Append(c, Len(s.tries)) /\ exec'[a].pc \in {"tool", "retool"}
    /\ exec'[a].ck = ckpt' /\ exec'[a].pc \in {"dispatch", "redispatch", "tool", "retool", "fail"}
    /\ exec'[a].pc \in {"tool", "retool"} => s.status = "running"
Dispatching == {"dispatch", "redispatch", "tool", "retool"}

\* A call of the batch in the checkpoint.
LEMMA InBatch ==
  ASSUME Agreement, Going, NEW i \in DOMAIN ckpt.batch, NEW c, c = <<ckpt.model, i>>
  PROVE  /\ c \in Calls /\ ~IsModel(c) /\ ~IsCount(c) /\ c[1] = ckpt.model /\ c[2] = i
         /\ ckpt.model \in Models /\ ckpt.model # 0 /\ ckpt.batch # <<>> /\ ~ckpt.repairing
         /\ StatusIn(ckpt, c) = ckpt.batch[i]
<1>1. ckpt.batch # <<>> /\ ckpt.batch \in Seq(CallStatus) /\ i \in 1 .. MaxBatch /\ ckpt.model \in 0 .. MaxModelCalls
  BY Shapes
<1>2. ckpt.model # 0 /\ ~ckpt.repairing
  BY <1>1 DEF Going, Steady
<1>3. ckpt.model \in Models
  BY <1>1, <1>2, LedgerAssumption DEF Models
<1>4. c \in Calls /\ ~IsModel(c) /\ ~IsCount(c) /\ c[1] = ckpt.model /\ c[2] = i
  BY <1>1, <1>3, Names DEF IsTool
<1>5. StatusIn(ckpt, c) = ckpt.batch[i]
  BY <1>4 DEF StatusIn
<1> QED BY <1>1, <1>2, <1>3, <1>4, <1>5

\* The tool call in hand moves on.
LEMMA ToolMoves ==
  ASSUME Agreement, LedgerInv', NEW a \in Attempts, exec[a].pc \in Dispatching, OnItsOwn(a),
         NEW i \in DOMAIN ckpt.batch, NEW c, c = <<ckpt.model, i>>,
         NEW s, RowBecomes(c, s), ToolBecomes(a, c, s), OthersRest(c)
  PROVE  Agreement'
<1> USE DEF RowBecomes, ToolBecomes, Dispatching
<1>1. /\ Going /\ exec[a].pc # "gone" /\ a \in DOMAIN attempts /\ ckpt.status = "completed" /\ Held(a) /\ RowsShaped
  BY Working, Shapes DEF Going, StepFits
<1>2. /\ c \in Calls /\ ~IsModel(c) /\ ~IsCount(c) /\ c[1] = ckpt.model /\ c[2] = i
      /\ ckpt.model \in Models /\ ckpt.model # 0 /\ ckpt.batch # <<>> /\ ~ckpt.repairing
  BY <1>1, InBatch
<1>3. ckpt.batch \in Seq(CallStatus) /\ ckpt.model \in 0 .. MaxModelCalls /\ ckpt.count.no \in 0 .. MaxCounts
  BY Shapes
<1>4. /\ DOMAIN ckpt'.batch = DOMAIN ckpt.batch /\ ckpt'.batch[i] = s.status
      /\ \A j \in DOMAIN ckpt.batch : j # i => ckpt'.batch[j] = ckpt.batch[j]
  BY <1>2, <1>3
<1>5. \A d \in Calls : StatusIn(ckpt', d) = IF d = c THEN s.status ELSE StatusIn(ckpt, d)
  <2>1. ckpt'.count.no = ckpt.count.no /\ ckpt'.count.status = ckpt.count.status
    OBVIOUS
  <2> QED BY <1>2, <1>4, <2>1, ToolSays
<1>6. Rewrites(c, s)
  BY <1>2, <1>5 DEF Rewrites
<1>7. LeavesOthers(c)
  BY <1>5 DEF LeavesOthers
<1>8. Signs(a, c, s)
  BY <1>1, <1>2 DEF Signs, PcsOf
<1>9. ModelsBounded'
  BY <1>1, <1>3, IsThere DEF Agreement, Bounded, ModelsBounded
<1>10. Steady'
  <2>1. ckpt'.by # 0
    BY <1>1, <1>2, IsThere DEF Going, Steady
  <2> QED BY <1>1, <1>2, <2>1 DEF Going, Steady
<1>11. StepFits(a)'
  <2>1. CASE exec'[a].pc \notin {"tool", "retool"}
    BY <1>1, <2>1 DEF StepFits
  <2>2. CASE exec'[a].pc \in {"tool", "retool"}
    <3>1. s.status = "running" /\ ckpt'.mark = Append(c, Len(s.tries))
      BY <2>2
    <3>2. Len(ledger'[c].tries) = Len(s.tries)
      BY <1>1, <1>2 DEF RowsShaped
    <3>3. i \in DOMAIN ckpt'.batch /\ ckpt'.batch[i] = "running" /\ c = <<ckpt'.model, i>>
      BY <1>4, <3>1
    <3>4. ckpt'.mark = Append(c, Len(ledger'[c].tries))
      BY <3>1, <3>2
    <3>5. ckpt'.mark = Append(<<ckpt'.model, i>>, Len(ledger'[<<ckpt'.model, i>>].tries))
      BY <3>3, <3>4
    <3>6. ckpt'.mark = Watermark(Tool(ckpt, i))'
      BY <3>5 DEF Watermark, LatestTry, Tool
    <3> QED BY <1>1, <2>2, <3>3, <3>6 DEF StepFits
  <2> QED BY <2>1, <2>2
<1> QED BY <1>1, <1>2, <1>6, <1>7, <1>8, <1>9, <1>10, <1>11, OneCallStep

\* The least of the places of a batch.
LEMMA LeastPlace ==
  ASSUME Agreement, NEW status, Places(ckpt, status) # {}, NEW i, i = Min(Places(ckpt, status))
  PROVE  i \in DOMAIN ckpt.batch /\ ckpt.batch[i] = status
<1>1. \A j \in DOMAIN ckpt.batch : j \in 1 .. MaxBatch
  BY Shapes
<1>2. Places(ckpt, status) \subseteq Nat
  <2>1. \A j \in 1 .. MaxBatch : j \in Nat
    BY BatchLengths
  <2> QED BY <1>1, <2>1 DEF Places
<1>3. i \in Places(ckpt, status)
  BY <1>2, MinIsIn
<1> QED BY <1>3 DEF Places

\* A tool call that may be made again is prepared again.
LEMMA RetryToolAgrees ==
  ASSUME Agreement, LedgerInv', NEW a \in Attempts, RetryTool(a)
  PROVE  Agreement'
<1>1. exec[a].pc \in Dispatching /\ exec[a].pc = "redispatch"
  BY DEF RetryTool, At, Dispatching
<1>2. Going /\ Local(a) = ckpt /\ IsCheckpoint(ckpt) /\ CheckpointsShaped /\ a \in DOMAIN attempts
  BY <1>1, Working, WorksWith, Shapes
<1>3. PICK i, c, s, new : /\ i = Min(Places(ckpt, "retry_ready")) /\ Places(ckpt, "retry_ready") # {}
                          /\ c = <<ckpt.model, i>> /\ s = Retried(c, a) /\ ledger[c].status = "retry_ready"
                          /\ new = [ckpt EXCEPT !.by = a, !.batch[i] = "prepared",
                                                !.mark = Append(c, LatestTry(c) + 1)]
                          /\ ledger' = [ledger EXCEPT ![c] = s] /\ Saves(a, "redispatch", new)
                          /\ UNCHANGED <<run, node, other, attempts, wakeups, wait>>
  BY <1>2 DEF RetryTool, NextOf, Tool, Untouched
<1>4. i \in DOMAIN ckpt.batch
  BY <1>3, LeastPlace
<1>5. c \in Calls /\ c[2] = i
  BY <1>2, <1>3, <1>4, InBatch
<1>6. /\ new.by = a /\ new.model = ckpt.model /\ new.status = ckpt.status /\ new.count = ckpt.count
      /\ new.batch = [ckpt.batch EXCEPT ![i] = "prepared"] /\ new.repairing = ckpt.repairing /\ new.calls = ckpt.calls
  BY <1>2, <1>3 DEF IsCheckpoint
<1>7. ckpt' = new /\ exec'[a].pc = "redispatch" /\ exec'[a].ck = new /\ \A b \in Attempts : b # a => exec'[b] = exec[b]
  BY <1>2, <1>3, StepFacts DEF Saves
<1>8. RowAgrees(s) /\ MadeFor(s, Len(attempts)) /\ s.status = "prepared"
  BY <1>2, <1>3, <1>5, TriesAgain
<1>9. OnItsOwn(a) /\ RowBecomes(c, s) /\ ToolBecomes(a, c, s)
  BY <1>3, <1>5, <1>6, <1>7, <1>8 DEF OnItsOwn, RowBecomes, ToolBecomes
<1>10. OthersRest(c)
  BY <1>1, NothingSent DEF OthersRest
<1> QED BY <1>1, <1>3, <1>4, <1>9, <1>10, ToolMoves

\* A tool call is sent.
LEMMA StartToolAgrees ==
  ASSUME Agreement, LedgerInv', NEW a \in Attempts, StartTool(a)
  PROVE  Agreement'
<1>1. exec[a].pc \in Dispatching /\ exec[a].pc \in {"dispatch", "redispatch"} /\ exec[a].pc # "gone"
  BY DEF StartTool, At, Dispatching
<1>2. Going /\ IsCheckpoint(ckpt) /\ CheckpointsShaped /\ a \in DOMAIN attempts /\ RowsShaped /\ TriesFit
  BY <1>1, Working, Shapes
<1>3. Local(a) = ckpt
  <2>1. Places(Local(a), "prepared") # {}
    BY DEF StartTool
  <2>2. ~Plans(Local(a))
    BY <2>1 DEF Plans, Places
  <2> QED BY <1>1, <1>2, <2>2 DEF Going, StepFits, Local
<1>4. PICK i, c, s, new, pc :
        /\ i = Min(Places(ckpt, "prepared")) /\ Places(ckpt, "prepared") # {}
        /\ c = <<ckpt.model, i>> /\ s = Moved(c, "running", "pending", "started") /\ ledger[c].status = "prepared"
        /\ ledger[c].tries[LatestTry(c)].by = a
        /\ new = [ckpt EXCEPT !.batch[i] = "running", !.mark = Watermark(c)]
        /\ ledger' = [ledger EXCEPT ![c] = s] /\ Saves(a, pc, new) /\ pc \in {"tool", "retool"}
        /\ UNCHANGED <<run, node, other, attempts, wakeups, wait>>
  BY <1>3 DEF StartTool, NextOf, Tool, Untouched
<1>5. i \in DOMAIN ckpt.batch
  BY <1>4, LeastPlace
<1>6. c \in Calls /\ c[2] = i
  BY <1>2, <1>4, <1>5, InBatch
<1>7. /\ new.by = ckpt.by /\ new.model = ckpt.model /\ new.status = ckpt.status /\ new.count = ckpt.count
      /\ new.batch = [ckpt.batch EXCEPT ![i] = "running"] /\ new.repairing = ckpt.repairing /\ new.calls = ckpt.calls
      /\ new.mark = Watermark(c)
  BY <1>2, <1>4 DEF IsCheckpoint
<1>8. ckpt' = new /\ exec'[a].pc = pc /\ exec'[a].ck = new /\ \A b \in Attempts : b # a => exec'[b] = exec[b]
  BY <1>2, <1>4, StepFacts DEF Saves
<1>9. /\ RowAgrees(s) /\ MadeFor(s, Len(attempts)) /\ s.status = "running" /\ Len(s.tries) = LatestTry(c)
      /\ LastOf(s).by = LastTry(c).by
  BY <1>2, <1>4, <1>6, MovesOn DEF Moves
<1>10. LastOf(s).by = a /\ new.mark = Append(c, Len(s.tries))
  BY <1>4, <1>7, <1>9 DEF LastTry, Watermark
<1>11. OnItsOwn(a) /\ RowBecomes(c, s) /\ ToolBecomes(a, c, s)
  BY <1>4, <1>6, <1>7, <1>8, <1>9, <1>10 DEF OnItsOwn, RowBecomes, ToolBecomes
<1>12. OthersRest(c)
  BY <1>1, NothingSent DEF OthersRest
<1> QED BY <1>1, <1>4, <1>5, <1>11, <1>12, ToolMoves

\* A tool call comes back.
LEMMA ToolFinishes ==
  ASSUME Agreement, LedgerInv', NEW a \in Attempts, Returns(a), NEW status, NEW effect,
         <<status, effect>> \in {<<"completed", "succeeded">>, <<"failed", "failed">>},
         Finishes(a, Running(a), status, effect), NEW pc \in {"dispatch", "redispatch", "fail"},
         Saves(a, pc, Marked(Local(a), Running(a), status)), Untouched
  PROVE  Agreement'
<1>1. exec[a].pc \in {"tool", "retool"} /\ exec[a].pc \in Dispatching /\ exec[a].pc # "gone"
  BY DEF Returns, At, Dispatching
<1>2. PICK c, s, new : /\ c = Running(a) /\ s = Moved(c, status, effect, effect) /\ new = Marked(ckpt, c, status)
  OBVIOUS
<1>3. /\ Going /\ Local(a) = ckpt /\ CheckpointsShaped
      /\ c \in Calls /\ ~IsModel(c) /\ ~IsCount(c) /\ StatusIn(ckpt, c) = "running"
  BY <1>1, <1>2, ToolInHand
<1>4. MarkedTo(new, c, status)
  BY <1>2, <1>3, MarkedSays
<1>5. c[2] \in DOMAIN ckpt.batch /\ c = <<ckpt.model, c[2]>>
  BY <1>3, <1>4 DEF MarkedTo
<1>6. PICK i \in DOMAIN ckpt.batch : i = c[2] /\ c = <<ckpt.model, i>>
  BY <1>5
<1>7. ledger' = [ledger EXCEPT ![c] = s] /\ Saves(a, pc, new) /\ ledger[c].status = "running"
  BY <1>2, <1>3 DEF Finishes, Returns
<1>8. ckpt' = new /\ exec'[a].pc = pc /\ exec'[a].ck = new /\ \A b \in Attempts : b # a => exec'[b] = exec[b]
  BY <1>3, <1>7, StepFacts DEF Saves
<1>9. RowAgrees(s) /\ MadeFor(s, Len(attempts)) /\ s.status = status
  <2>1. <<status, effect, effect>> \in Moves /\ effect # "superseded_before_start"
    BY DEF Moves
  <2> QED BY <1>2, <1>3, <1>7, <2>1, MovesOn
<1>10. OnItsOwn(a) /\ RowBecomes(c, s) /\ ToolBecomes(a, c, s)
  BY <1>3, <1>4, <1>7, <1>8, <1>9 DEF OnItsOwn, RowBecomes, ToolBecomes, MarkedTo, Untouched
<1>11. OthersRest(c)
  BY <1>1, <1>3, OneRunning DEF OthersRest
<1> QED BY <1>1, <1>6, <1>10, <1>11, ToolMoves

\* A checkpoint is stored in which no call changes.
LEMMA SavedOnly ==
  ASSUME Agreement, LedgerInv', NEW a \in Attempts, exec[a].pc # "gone", OnItsOwn(a), UNCHANGED ledger,
         \A c \in Calls : StatusIn(ckpt, c) # "running", ckpt.status # "prepared",
         ckpt'.by = a, ckpt'.model = ckpt.model, ckpt'.status = ckpt.status, ckpt'.count = ckpt.count,
         ckpt'.batch = ckpt.batch, ckpt'.calls = ckpt.calls,
         ckpt'.repairing => ckpt.batch = <<>> /\ ckpt.status = "completed",
         StepFits(a)'
  PROVE  Agreement'
<1>1. /\ Going /\ a \in DOMAIN attempts /\ a = Current /\ Bounded /\ a # 0
      /\ \A c \in Calls : ledger[c].status # "outcome_unknown"
  BY Working, IsThere DEF Agreement
<1>2. \A d : StatusIn(ckpt', d) = StatusIn(ckpt, d)
  BY SameSays
<1>3. CallsAgree'
  BY <1>1, <1>2, NoneAgrees DEF Going
<1>4. ModelsBounded'
  BY <1>1, IsThere DEF Bounded, ModelsBounded
<1>5. TriesBounded'
  BY <1>1 DEF Bounded, TriesBounded, OnItsOwn
<1>6. Steady'
  BY <1>1 DEF Going, Steady
<1>7. InProgress'
  <2>1. Current' = a
    BY <1>1 DEF Current, OnItsOwn
  <2> QED BY <1>2, <2>1 DEF InProgress, SentFits, ModelFits, PreparedFits
<1> QED BY <1>1, <1>3, <1>4, <1>5, <1>6, <1>7, OwnStep DEF OnItsOwn

\* The results of a batch are put into the transcript.
LEMMA SettleBatchAgrees ==
  ASSUME Agreement, LedgerInv', NEW a \in Attempts, SettleBatch(a)
  PROVE  Agreement'
<1>1. exec[a].pc \in {"dispatch", "redispatch"} /\ exec[a].pc # "gone"
  BY DEF SettleBatch, At
<1>2. /\ Going /\ IsCheckpoint(ckpt) /\ CheckpointsShaped /\ ckpt.status = "completed" /\ ckpt.model \in Nat
  BY <1>1, Working, Shapes DEF Going, StepFits
<1>3. PICK new : /\ new = [ckpt EXCEPT !.by = a, !.filled = TRUE, !.mark = <<"batch">>]
                 /\ Saves(a, "call", new)
                 /\ UNCHANGED <<run, node, other, attempts, wakeups, ledger, wait>>
  BY DEF SettleBatch
<1>4. \A i \in DOMAIN ckpt.batch : ckpt.batch[i] \in Settled
  BY DEF SettleBatch
<1>5. /\ new.by = a /\ new.model = ckpt.model /\ new.status = ckpt.status /\ new.count = ckpt.count
      /\ new.batch = ckpt.batch /\ new.repairing = ckpt.repairing /\ new.calls = ckpt.calls
  BY <1>2, <1>3 DEF IsCheckpoint
<1>6. ckpt' = new /\ exec'[a].pc = "call" /\ exec'[a].ck = new /\ \A b \in Attempts : b # a => exec'[b] = exec[b]
  BY <1>2, <1>3, StepFacts DEF Saves
<1>7. ckpt.count.status \notin OpenStatus
  BY <1>2 DEF Going, Steady
<1>8. StepFits(a)'
  BY <1>2, <1>4, <1>5, <1>6, <1>7 DEF StepFits, OpenStatus, Settled
<1>9. OnItsOwn(a) /\ UNCHANGED ledger
  BY <1>3, <1>6 DEF OnItsOwn
<1>10. \A c \in Calls : StatusIn(ckpt, c) # "running"
  BY <1>1, NothingSent
<1>11. ckpt'.repairing => ckpt.batch = <<>> /\ ckpt.status = "completed"
  BY <1>2, <1>5, <1>6 DEF Going, Steady
<1> QED BY <1>1, <1>2, <1>5, <1>6, <1>8, <1>9, <1>10, <1>11, SavedOnly

(***************************************************************************)
(* What the response asks for.                                             *)
(***************************************************************************)
\* An executor that plans has an answer, and nothing is open.
LEMMA PlanFacts ==
  ASSUME Agreement, NEW a \in Attempts, exec[a].pc = "plan"
  PROVE  /\ Going /\ Live /\ Local(a) = ckpt /\ IsCheckpoint(ckpt) /\ CheckpointsShaped /\ RowsShaped /\ RunShaped
         /\ Held(a) /\ a = Current /\ a \in DOMAIN attempts /\ wait = NoWait /\ Bounded
         /\ ckpt.batch = <<>> /\ ~ckpt.repairing /\ ckpt.status = "completed" /\ ckpt.model \in Models
         /\ ckpt.model # 0 /\ ckpt.count.status \notin OpenStatus /\ ckpt.calls \in Batches /\ ckpt.calls \in Seq(Tools)
         /\ \A c \in Calls : ledger[c].status \notin OpenStatus /\ StatusIn(ckpt, c) \notin OpenStatus
<1>1. /\ Going /\ Live /\ Local(a) = ckpt /\ IsCheckpoint(ckpt) /\ CheckpointsShaped /\ RowsShaped /\ RunShaped
      /\ Held(a) /\ a = Current /\ a \in DOMAIN attempts /\ wait = NoWait /\ Bounded
  BY Working, WorksWith, Shapes DEF Agreement
<1>2. ckpt.batch = <<>> /\ ~ckpt.repairing
  BY <1>1 DEF Going, StepFits
<1>3. ckpt.status = "completed"
  BY <1>1 DEF CheckpointsShaped, Stands, Local
<1>4. ckpt.model # 0 /\ ckpt.model \in 0 .. MaxModelCalls
  BY <1>1, <1>3, Shapes DEF Going, Steady
<1>5. ckpt.model \in Models
  BY <1>4, LedgerAssumption DEF Models
<1>6. ckpt.count.status \notin OpenStatus
  BY <1>1, <1>4, LedgerAssumption DEF Going, Steady
<1>7. \A c \in Calls : StatusIn(ckpt, c) \notin OpenStatus
  BY <1>2, <1>3, <1>6 DEF StatusIn, OpenStatus
<1>8. \A c \in Calls : ledger[c].status \notin OpenStatus
  BY <1>1, <1>7, NotOpen
<1>9. ckpt.calls \in Batches /\ ckpt.calls \in Seq(Tools)
  BY <1>1, LedgerAssumption DEF Bounded, ModelsBounded
<1> QED BY <1>1, <1>2, <1>3, <1>4, <1>5, <1>6, <1>7, <1>8, <1>9

\* The steps of a planning executor that change no row.
LEMMA PlanOnly ==
  ASSUME Agreement, LedgerInv', NEW a \in Attempts,
         PlanTools(a) \/ ReplaySearch(a) \/ PlanRefused(a) \/ RepairsSpent(a)
  PROVE  Agreement'
<1>1. exec[a].pc = "plan"
  BY DEF PlanTools, ReplaySearch, PlanRefused, RepairsSpent, At
<1>2. /\ Going /\ Local(a) = ckpt /\ IsCheckpoint(ckpt) /\ CheckpointsShaped /\ ckpt.batch = <<>> /\ ~ckpt.repairing
      /\ ckpt.status = "completed"
  BY <1>1, PlanFacts
<1>3. PICK pc, ck : /\ Step(a, pc, ck) /\ UNCHANGED rows
                    /\ \/ pc = "dispatch" /\ ck = [ckpt EXCEPT !.batch = Batch(ckpt.calls, "requested")]
                       \/ pc \in {"dispatch", "fail"} /\ ck = ckpt
  BY <1>2 DEF PlanTools, ReplaySearch, PlanRefused, RepairsSpent, Asked
<1>4. exec'[a].pc = pc /\ exec'[a].ck = ck /\ ckpt' = ckpt /\ \A b \in Attempts : b # a => exec'[b] = exec[b]
  BY <1>2, <1>3, StepFacts DEF rows
<1>5. ck = ckpt \/ (pc = "dispatch" /\ Plans(ck))
  <2>1. CASE ck = [ckpt EXCEPT !.batch = Batch(ckpt.calls, "requested")] /\ pc = "dispatch"
    <3>1. ck.batch = Batch(ckpt.calls, "requested")
      BY <1>2, <2>1 DEF IsCheckpoint
    <3>2. \A i \in DOMAIN ck.batch : ck.batch[i] = "requested"
      BY <3>1 DEF Batch
    <3>3. ck = [ckpt EXCEPT !.batch = ck.batch]
      BY <2>1, <3>1
    <3> QED BY <1>2, <2>1, <3>2, <3>3 DEF Plans
  <2> QED BY <1>3, <2>1
<1>6. StepFits(a)'
  <2>1. exec'[a].ck = ckpt' \/ (pc = "dispatch" /\ Plans(exec[a].ck)')
    BY <1>4, <1>5 DEF Plans
  <2> QED BY <1>2, <1>3, <1>4, <2>1 DEF StepFits
<1> QED BY <1>1, <1>3, <1>4, <1>6, StepOnly

\* The model is asked to repair its output.
LEMMA RepairAgrees ==
  ASSUME Agreement, LedgerInv', NEW a \in Attempts, Repair(a)
  PROVE  Agreement'
<1>1. exec[a].pc = "plan"
  BY DEF Repair, At
<1>2. /\ Going /\ Local(a) = ckpt /\ IsCheckpoint(ckpt) /\ CheckpointsShaped /\ ckpt.batch = <<>>
      /\ ckpt.status = "completed" /\ ckpt.count.status \notin OpenStatus
  BY <1>1, PlanFacts
<1>3. PICK new : /\ new = [ckpt EXCEPT !.repairing = TRUE, !.repairs = ckpt.repairs + 1, !.mark = <<"repair">>]
                 /\ ckpt.by = a /\ Saves(a, "call", new)
                 /\ UNCHANGED <<run, node, other, attempts, wakeups, ledger, wait>>
  BY <1>2 DEF Repair
<1>4. /\ new.by = a /\ new.model = ckpt.model /\ new.status = ckpt.status /\ new.count = ckpt.count
      /\ new.batch = ckpt.batch /\ new.calls = ckpt.calls
  BY <1>2, <1>3 DEF IsCheckpoint
<1>5. ckpt' = new /\ exec'[a].pc = "call" /\ exec'[a].ck = new /\ \A b \in Attempts : b # a => exec'[b] = exec[b]
  BY <1>2, <1>3, StepFacts DEF Saves
<1>6. StepFits(a)'
  BY <1>2, <1>4, <1>5 DEF StepFits, OpenStatus
<1>7. OnItsOwn(a) /\ UNCHANGED ledger
  BY <1>3, <1>5 DEF OnItsOwn
<1>8. \A c \in Calls : StatusIn(ckpt, c) # "running"
  BY <1>1, NothingSent
<1> QED BY <1>1, <1>2, <1>4, <1>5, <1>6, <1>7, <1>8, SavedOnly

\* The calls of a response get their rows without effects.
LEMMA PlansBatch ==
  ASSUME Agreement, NEW a \in Attempts, exec[a].pc = "plan", Rows(ckpt.model) = {},
         NEW held, DOMAIN held = DOMAIN ckpt.calls,
         \A i \in DOMAIN held : held[i] \in {"completed", "validated", "awaiting_approval"},
         ledger' = WithRows(ckpt.model, ckpt.calls, held),
         ckpt'.model = ckpt.model, ckpt'.status = ckpt.status, ckpt'.count = ckpt.count, ckpt'.batch = held
  PROVE  /\ CallsAgree'
         /\ \A c \in Calls : \/ ledger'[c] = ledger[c]
                             \/ /\ ledger'[c].tries = <<>>
                                /\ ledger'[c].status \in {"completed", "validated", "awaiting_approval"}
         /\ \A c \in Calls : StatusIn(ckpt', c) # "running"
<1>1. /\ Going /\ RowsShaped /\ ckpt.batch = <<>> /\ ckpt.status = "completed" /\ ckpt.count.status \notin OpenStatus
      /\ \A c \in Calls : ledger[c].status \notin OpenStatus /\ StatusIn(ckpt, c) \notin OpenStatus
  BY PlanFacts
<1>2. \A c \in Calls : ledger'[c] = IF IsTool(c) /\ c[1] = ckpt.model /\ c[2] \in DOMAIN ckpt.calls
                                      THEN [Absent EXCEPT !.status = held[c[2]], !.class = ckpt.calls[c[2]].class]
                                      ELSE ledger[c]
  BY DEF WithRows
<1>3. ASSUME NEW c \in Calls
      PROVE  /\ Agrees(StatusIn(ckpt', c), ledger'[c])
             /\ \/ ledger'[c] = ledger[c]
                \/ /\ ledger'[c].tries = <<>>
                   /\ ledger'[c].status \in {"completed", "validated", "awaiting_approval"}
             /\ StatusIn(ckpt', c) # "running"
  <2>1. Agrees(StatusIn(ckpt, c), ledger[c])
    BY <1>1 DEF Going, CallsAgree
  <2>2. CASE IsTool(c) /\ c[1] = ckpt.model /\ c[2] \in DOMAIN ckpt.calls
    <3>1. StatusIn(ckpt', c) = held[c[2]]
      BY <2>2 DEF StatusIn, IsTool
    <3>2. /\ ledger'[c].status = held[c[2]] /\ ledger'[c].tries = <<>> /\ ledger'[c].effect = "none"
      BY <1>2, <2>2 DEF Absent
    <3>3. held[c[2]] \in {"completed", "validated", "awaiting_approval"}
      BY <2>2
    <3>4. RowAgrees(ledger'[c])
      BY <3>2, <3>3, UntriedAgrees
    <3> QED BY <3>1, <3>2, <3>3, <3>4 DEF Agrees, Says
  <2>3. CASE ~(IsTool(c) /\ c[1] = ckpt.model /\ c[2] \in DOMAIN ckpt.calls)
    <3>1. ledger'[c] = ledger[c]
      BY <1>2, <2>3
    <3>2. StatusIn(ckpt', c) = StatusIn(ckpt, c)
      BY <1>1, <2>3 DEF StatusIn, IsTool
    <3> QED BY <1>1, <2>1, <3>1, <3>2 DEF OpenStatus
  <2> QED BY <2>2, <2>3
<1> QED BY <1>3 DEF CallsAgree

\* The memory is searched.
LEMMA SearchAgrees ==
  ASSUME Agreement, LedgerInv', NEW a \in Attempts, SearchMemory(a)
  PROVE  Agreement'
<1>1. exec[a].pc = "plan"
  BY DEF SearchMemory, At
<1>2. /\ Going /\ Local(a) = ckpt /\ IsCheckpoint(ckpt) /\ CheckpointsShaped /\ a \in DOMAIN attempts /\ a = Current
      /\ ckpt.status = "completed" /\ ckpt.count.status \notin OpenStatus /\ ~ckpt.repairing /\ ckpt.model # 0
      /\ Bounded /\ ckpt.calls \in Batches
      /\ \A c \in Calls : ledger[c].status \notin OpenStatus
  BY <1>1, PlanFacts
<1>3. PICK held, new :
        /\ held = Batch(ckpt.calls, "completed") /\ Rows(ckpt.model) = {}
        /\ new = [ckpt EXCEPT !.by = a, !.mark = <<ckpt.model, Len(ckpt.calls)>>, !.batch = held]
        /\ ledger' = WithRows(ckpt.model, ckpt.calls, held) /\ Saves(a, "dispatch", new)
        /\ UNCHANGED <<run, node, other, attempts, wakeups, wait>>
  BY <1>2 DEF SearchMemory, Asked, Untouched
<1>4. DOMAIN held = DOMAIN ckpt.calls /\ \A i \in DOMAIN held : held[i] = "completed"
  BY <1>3 DEF Batch
<1>5. /\ new.by = a /\ new.model = ckpt.model /\ new.status = ckpt.status /\ new.count = ckpt.count
      /\ new.batch = held /\ new.calls = ckpt.calls /\ new.repairing = ckpt.repairing
  BY <1>2, <1>3 DEF IsCheckpoint
<1>6. ckpt' = new /\ exec'[a].pc = "dispatch" /\ exec'[a].ck = new /\ \A b \in Attempts : b # a => exec'[b] = exec[b]
  BY <1>2, <1>3, StepFacts DEF Saves
<1>7. /\ CallsAgree'
      /\ \A c \in Calls : \/ ledger'[c] = ledger[c]
                          \/ /\ ledger'[c].tries = <<>>
                             /\ ledger'[c].status \in {"completed", "validated", "awaiting_approval"}
      /\ \A c \in Calls : StatusIn(ckpt', c) # "running"
  BY <1>1, <1>3, <1>4, <1>5, <1>6, PlansBatch
<1>8. ModelsBounded'
  BY <1>2, <1>5, <1>6, IsThere DEF Bounded, ModelsBounded
<1>9. TriesBounded'
  BY <1>2, <1>3, <1>7 DEF Bounded, TriesBounded
<1>10. Steady'
  BY <1>2, <1>5, <1>6, IsThere DEF Going, Steady
<1>11. InProgress'
  <2>1. Current' = a
    BY <1>2, <1>3 DEF Current
  <2> QED BY <1>2, <1>5, <1>6, <1>7, <2>1 DEF InProgress, SentFits, ModelFits, PreparedFits
<1>12. StepFits(a)'
  BY <1>2, <1>5, <1>6 DEF StepFits
<1>13. \A c \in Calls : ledger'[c].status # "outcome_unknown"
  BY <1>2, <1>7 DEF OpenStatus
<1> QED BY <1>1, <1>3, <1>6, <1>7, <1>8, <1>9, <1>10, <1>11, <1>12, <1>13, OwnStep

\* The calls wait for somebody.
LEMMA HandedOver ==
  ASSUME Agreement, LedgerInv', NEW a \in Attempts, exec[a].pc = "plan", Rows(ckpt.model) = {},
         NEW held, DOMAIN held = DOMAIN ckpt.calls,
         \A i \in DOMAIN held : held[i] \in {"completed", "validated", "awaiting_approval"},
         ledger' = WithRows(ckpt.model, ckpt.calls, held), NEW new, ckpt' = new,
         new.by = a, new.model = ckpt.model, new.status = ckpt.status, new.count = ckpt.count, new.batch = held,
         new.calls = ckpt.calls, new.repairing = ckpt.repairing,
         wait'.kind \in {"approval", "memory"}, wait'.blockers \subseteq Calls, HandsOver(a)
  PROVE  Agreement'
<1>1. /\ Going /\ Live /\ CheckpointsShaped /\ RunShaped /\ a \in DOMAIN attempts /\ a = Current
      /\ ckpt.status = "completed" /\ ckpt.count.status \notin OpenStatus /\ ~ckpt.repairing /\ ckpt.model # 0
      /\ Bounded /\ ckpt.calls \in Batches
      /\ \A c \in Calls : ledger[c].status \notin OpenStatus
  BY PlanFacts
<1>2. /\ CallsAgree'
      /\ \A c \in Calls : \/ ledger'[c] = ledger[c]
                          \/ /\ ledger'[c].tries = <<>>
                             /\ ledger'[c].status \in {"completed", "validated", "awaiting_approval"}
      /\ \A c \in Calls : StatusIn(ckpt', c) # "running"
  BY PlansBatch
<1>3. /\ attempts' \in Seq([status : AttemptStatus, epoch : Nat]) /\ Len(attempts') = Len(attempts)
      /\ DOMAIN attempts' = DOMAIN attempts /\ Current' = a
  BY <1>1, WithStatusForm DEF HandsOver, AttemptStatus, Current
<1>4. Live' /\ run'.epoch = run.epoch
  BY <1>1 DEF HandsOver, Idled, Live, Terminal, RunShaped
<1>5. \A b \in Attempts : exec'[b].pc = "gone"
  <2>1. \A b \in Attempts : b # a => exec[b].pc = "gone"
    BY Working
  <2> QED BY <1>1, <2>1 DEF HandsOver, Leave, Gone, CheckpointsShaped
<1>6. ModelsBounded'
  BY <1>1, IsThere DEF Bounded, ModelsBounded
<1>7. TriesBounded'
  BY <1>1, <1>2, <1>3 DEF Bounded, TriesBounded
<1>8. RunBounded'
  BY <1>1, <1>3, <1>4 DEF Bounded, RunBounded, HandsOver
<1>9. Steady'
  BY <1>1, IsThere DEF Going, Steady
<1>10. InProgress'
  BY <1>1, <1>2, <1>3 DEF InProgress, SentFits, ModelFits, PreparedFits
<1>11. WaitFits'
  BY <1>1, <1>2 DEF WaitFits, OpenStatus
<1>12. Finished'
  BY <1>1 DEF Finished, Going, HandsOver, Idled, RunShaped
<1>13. NoneLate' /\ \A b \in Attempts : StepFits(b)'
  BY <1>5 DEF NoneLate, StepFits
<1> QED BY <1>2, <1>4, <1>6, <1>7, <1>8, <1>9, <1>10, <1>11, <1>12, <1>13 DEF Agreement, Going, Bounded

\* Tools that must be approved, and proposals, wait for somebody.
LEMMA AskForApproval ==
  ASSUME Agreement, LedgerInv', NEW a \in Attempts, PlanApproval(a) \/ PlanProposals(a)
  PROVE  Agreement'
<1>1. exec[a].pc = "plan"
  BY DEF PlanApproval, PlanProposals, At
<1>2. /\ Local(a) = ckpt /\ IsCheckpoint(ckpt) /\ ckpt.model \in Models /\ ckpt.calls \in Batches
      /\ ckpt.calls \in Seq(Tools)
  BY <1>1, PlanFacts
<1>3. \A i \in DOMAIN ckpt.calls : <<ckpt.model, i>> \in Calls
  <2>1. Len(ckpt.calls) \in 0 .. MaxBatch /\ DOMAIN ckpt.calls = 1 .. Len(ckpt.calls)
    BY <1>2, BatchLengths
  <2>2. \A i \in DOMAIN ckpt.calls : i \in 1 .. MaxBatch
    BY <2>1, BatchLengths
  <2> QED BY <1>2, <2>2, Names
<1>4. CASE PlanApproval(a)
  <2>1. PICK held : held = [i \in DOMAIN ckpt.calls |->
                              IF ckpt.calls[i].approval THEN "awaiting_approval" ELSE "validated"]
    OBVIOUS
  <2>2. PICK new : new = [ckpt EXCEPT !.by = a, !.batch = held]
    OBVIOUS
  <2>3. /\ Rows(ckpt.model) = {} /\ ledger' = WithRows(ckpt.model, ckpt.calls, held) /\ ckpt' = new
        /\ wait' = [kind |-> "approval",
                    blockers |-> {<<ckpt.model, i>> : i \in {j \in DOMAIN ckpt.calls : ckpt.calls[j].approval}},
                    ck |-> ckpt']
        /\ HandsOver(a)
    BY <1>2, <1>4, <2>1, <2>2 DEF PlanApproval, Asked
  <2>4. /\ DOMAIN held = DOMAIN ckpt.calls
        /\ \A i \in DOMAIN held : held[i] \in {"completed", "validated", "awaiting_approval"}
    BY <2>1
  <2>5. /\ new.by = a /\ new.model = ckpt.model /\ new.status = ckpt.status /\ new.count = ckpt.count
        /\ new.batch = held /\ new.calls = ckpt.calls /\ new.repairing = ckpt.repairing
    BY <1>2, <2>2 DEF IsCheckpoint
  <2>6. wait'.kind \in {"approval", "memory"} /\ wait'.blockers \subseteq Calls
    BY <1>3, <2>3
  <2> QED BY <1>1, <2>3, <2>4, <2>5, <2>6, HandedOver
<1>5. CASE PlanProposals(a)
  <2>1. PICK held : held = Batch(ckpt.calls, "awaiting_approval")
    OBVIOUS
  <2>2. PICK new : new = [ckpt EXCEPT !.by = a, !.mark = <<ckpt.model, Len(ckpt.calls)>>, !.batch = held]
    OBVIOUS
  <2>3. /\ Rows(ckpt.model) = {} /\ ledger' = WithRows(ckpt.model, ckpt.calls, held) /\ ckpt' = new
        /\ wait' = [kind |-> "memory", blockers |-> {<<ckpt.model, i>> : i \in DOMAIN ckpt.calls}, ck |-> ckpt']
        /\ HandsOver(a)
    BY <1>2, <1>5, <2>1, <2>2 DEF PlanProposals, Asked
  <2>4. /\ DOMAIN held = DOMAIN ckpt.calls
        /\ \A i \in DOMAIN held : held[i] \in {"completed", "validated", "awaiting_approval"}
    BY <2>1 DEF Batch
  <2>5. /\ new.by = a /\ new.model = ckpt.model /\ new.status = ckpt.status /\ new.count = ckpt.count
        /\ new.batch = held /\ new.calls = ckpt.calls /\ new.repairing = ckpt.repairing
    BY <1>2, <2>2 DEF IsCheckpoint
  <2>6. wait'.kind \in {"approval", "memory"} /\ wait'.blockers \subseteq Calls
    BY <1>3, <2>3
  <2> QED BY <1>1, <2>3, <2>4, <2>5, <2>6, HandedOver
<1> QED BY <1>4, <1>5

\* A tool call gets its row and its first try.
LEMMA PrepareToolAgrees ==
  ASSUME Agreement, LedgerInv', NEW a \in Attempts, PrepareTool(a)
  PROVE  Agreement'
<1>1. exec[a].pc \in Dispatching /\ exec[a].pc = "dispatch" /\ exec[a].pc # "gone"
  BY DEF PrepareTool, At, Dispatching
<1>2. /\ Going /\ IsCheckpoint(ckpt) /\ Fits(ckpt) /\ CheckpointsShaped /\ a \in DOMAIN attempts /\ RowsShaped
      /\ ckpt.status = "completed" /\ a \in Nat /\ Bounded
  BY <1>1, Working, Shapes DEF Going, StepFits, Agreement
<1>3. /\ IsCheckpoint(Local(a)) /\ Fits(Local(a))
      /\ Local(a) = ckpt \/ Plans(Local(a))
      /\ Local(a).batch \in Seq(CallStatus)
  BY <1>1, <1>2 DEF Going, StepFits, Local, CheckpointsShaped, IsExecutor, IsCheckpoint
<1>4. PICK old : old = Local(a)
  OBVIOUS
<1>5. /\ old.model = ckpt.model /\ old.status = ckpt.status /\ old.count = ckpt.count /\ old.calls = ckpt.calls
      /\ old.repairing = ckpt.repairing
  <2>1. CASE Plans(old)
    <3>1. old = [ckpt EXCEPT !.batch = old.batch]
      BY <2>1 DEF Plans
    <3>2. /\ [ckpt EXCEPT !.batch = old.batch].model = ckpt.model
          /\ [ckpt EXCEPT !.batch = old.batch].status = ckpt.status
          /\ [ckpt EXCEPT !.batch = old.batch].count = ckpt.count
          /\ [ckpt EXCEPT !.batch = old.batch].calls = ckpt.calls
          /\ [ckpt EXCEPT !.batch = old.batch].repairing = ckpt.repairing
      BY <1>2 DEF IsCheckpoint
    <3> QED BY <3>1, <3>2
  <2> QED BY <1>3, <1>4, <2>1
<1>6. PICK i, c, s, new :
        /\ i = Min(Places(old, "requested")) /\ Places(old, "requested") # {}
        /\ c = <<ckpt.model, i>> /\ s = Prepared(ckpt.calls[i].class, a)
        /\ new = [old EXCEPT !.by = a, !.batch[i] = "prepared", !.mark = Append(c, 1)]
        /\ Cardinality(Rows(ckpt.model)) = i - 1 /\ ledger[c].status = "absent"
        /\ ledger' = [ledger EXCEPT ![c] = s] /\ Saves(a, "dispatch", new)
        /\ UNCHANGED <<run, node, other, attempts, wakeups, wait>>
  <2>1. PICK i : i = Min(Places(old, "requested"))
    OBVIOUS
  <2>2. PICK c : c = <<ckpt.model, i>>
    OBVIOUS
  <2>3. c[1] = ckpt.model /\ Tool(old, i) = c /\ ClassOf(old, i) = ckpt.calls[i].class
    BY <1>5, <2>2 DEF Tool, ClassOf
  <2>4. PICK s, new : s = Prepared(ckpt.calls[i].class, a)
                      /\ new = [old EXCEPT !.by = a, !.batch[i] = "prepared", !.mark = Append(c, 1)]
    OBVIOUS
  <2>5. PICK j, d : j = NextOf(a, "requested") /\ d = Tool(Local(a), j)
    OBVIOUS
  <2>6. j = i /\ d = c
    BY <1>4, <2>1, <2>3, <2>5 DEF NextOf
  <2>7. /\ Cardinality(Rows(d[1])) = j - 1 /\ IsNew(d)
        /\ ledger' = [ledger EXCEPT ![d] = Prepared(ClassOf(Local(a), j), a)]
        /\ Saves(a, "dispatch", [Local(a) EXCEPT !.by = a, !.batch[j] = "prepared", !.mark = Append(d, 1)])
        /\ UNCHANGED <<run, node, other, attempts, wakeups, wait>>
        /\ Places(Local(a), "requested") # {}
    BY <2>5 DEF PrepareTool, Untouched
  <2> QED BY <1>4, <2>1, <2>2, <2>3, <2>4, <2>6, <2>7 DEF IsNew
<1>7. /\ DOMAIN old.batch = 1 .. Len(old.batch) /\ Len(old.batch) \in Nat
      /\ i \in DOMAIN old.batch /\ old.batch[i] = "requested" /\ \A j \in Places(old, "requested") : i =< j
  <2>1. DOMAIN old.batch = 1 .. Len(old.batch) /\ Len(old.batch) \in Nat
    BY <1>3, <1>4
  <2>2. Places(old, "requested") \subseteq Nat
    BY <2>1 DEF Places
  <2>3. i \in Places(old, "requested") /\ \A j \in Places(old, "requested") : i =< j
    BY <1>6, <2>2, MinIsIn, MinIsLeast
  <2> QED BY <2>1, <2>3 DEF Places
<1>8. Len(old.batch) = Len(ckpt.calls) /\ ckpt.calls \in Batches /\ ckpt.calls \in Seq(Tools) /\ Len(ckpt.calls) =< MaxBatch
  <2>1. old.batch # <<>>
    BY <1>3, <1>4, <1>7
  <2>2. ckpt.calls \in Batches
    BY <1>2 DEF Bounded, ModelsBounded
  <2> QED BY <1>3, <1>4, <1>5, <2>1, <2>2, BatchLengths, LedgerAssumption DEF Fits
<1>9. RowAgrees(s) /\ MadeFor(s, Len(attempts)) /\ s.status = "prepared"
  <2>1. i \in DOMAIN ckpt.calls
    BY <1>7, <1>8
  <2>2. ckpt.calls[i].class \in Classes
    <3>1. ckpt.calls[i] \in Tools
      BY <1>8, <2>1
    <3> QED BY <3>1 DEF Tools
  <2>3. a \in 1 .. Len(attempts) /\ Len(attempts) \in Nat
    BY <1>2, IsThere DEF Agreement, LedgerInv, Shaped, RunShaped
  <2> QED BY <1>2, <1>6, <2>2, <2>3, PreparedAgrees
<1>10. /\ new.by = a /\ new.model = ckpt.model /\ new.status = ckpt.status /\ new.count = ckpt.count
       /\ new.batch = [old.batch EXCEPT ![i] = "prepared"] /\ new.repairing = ckpt.repairing /\ new.calls = ckpt.calls
  <2>1. IsCheckpoint(old)
    BY <1>3, <1>4
  <2> QED BY <1>5, <1>6, <2>1 DEF IsCheckpoint
<1>11. ckpt' = new /\ exec'[a].pc = "dispatch" /\ exec'[a].ck = new /\ \A b \in Attempts : b # a => exec'[b] = exec[b]
  BY <1>2, <1>6, StepFacts DEF Saves
<1>12. OnItsOwn(a)
  BY <1>6, <1>11 DEF OnItsOwn
<1>13. \A d \in Calls : StatusIn(ckpt, d) # "running"
  BY <1>1, NothingSent
<1>14. CASE old = ckpt
  <2>1. i \in DOMAIN ckpt.batch
    BY <1>7, <1>14
  <2>2. c[2] = i
    BY <1>6
  <2>3. RowBecomes(c, s) /\ ToolBecomes(a, c, s)
    BY <1>6, <1>9, <1>10, <1>11, <1>14, <2>2 DEF RowBecomes, ToolBecomes
  <2>4. OthersRest(c)
    BY <1>13 DEF OthersRest
  <2> QED BY <1>1, <1>6, <1>12, <2>1, <2>3, <2>4, ToolMoves
<1>15. CASE Plans(old)
  <2>1. ckpt.batch = <<>> /\ ~ckpt.repairing /\ \A j \in DOMAIN old.batch : old.batch[j] = "requested"
    BY <1>15 DEF Plans
  <2>2. i = 1
    BY <1>7, <2>1 DEF Places
  <2>3. ckpt.model # 0 /\ ckpt.model \in 0 .. MaxModelCalls /\ ckpt.count.status \notin OpenStatus
    <3>1. ckpt.model # 0 /\ ckpt.model \in 0 .. MaxModelCalls
      BY <1>2, Shapes DEF Going, Steady
    <3> QED BY <1>2, <3>1, LedgerAssumption DEF Going, Steady
  <2>4. ckpt.model \in Models /\ 1 \in 1 .. MaxBatch
    <3>1. 1 =< MaxBatch
      BY <1>7, <1>8, <2>2, BatchLengths
    <3> QED BY <2>3, <3>1, LedgerAssumption, BatchLengths DEF Models
  <2>5. c \in Calls /\ ~IsModel(c) /\ ~IsCount(c) /\ c[1] = ckpt.model /\ c[2] = 1
    BY <1>6, <2>2, <2>4, Names DEF IsTool
  <2>6. \A j \in 1 .. MaxBatch : ledger[<<ckpt.model, j>>].status = "absent"
    <3>1. Rows(ckpt.model) \subseteq 1 .. MaxBatch /\ IsFiniteSet(1 .. MaxBatch)
      BY BatchLengths, FS_Interval DEF Rows
    <3>2. Rows(ckpt.model) = {}
      <4>1. Cardinality(Rows(ckpt.model)) = 0
        BY <1>6, <2>2
      <4>2. IsFiniteSet(Rows(ckpt.model))
        BY <3>1, FS_Subset
      <4> QED BY <4>1, <4>2, FS_EmptySet
    <3> QED BY <3>2 DEF Rows
  <2>7. /\ DOMAIN ckpt'.batch = DOMAIN old.batch /\ ckpt'.batch[1] = "prepared"
        /\ \A j \in DOMAIN old.batch : j # 1 => ckpt'.batch[j] = "requested"
    BY <1>3, <1>4, <1>7, <1>10, <1>11, <2>1, <2>2
  <2>8. Rewrites(c, s)
    <3>1. StatusIn(ckpt', c) = "prepared"
      BY <1>7, <1>10, <1>11, <2>2, <2>5, <2>7 DEF StatusIn
    <3> QED BY <1>6, <1>9, <3>1 DEF Rewrites
  <2>9. LeavesOthers(c)
    <3> SUFFICES ASSUME NEW d \in Calls, d # c
                 PROVE  \/ StatusIn(ckpt', d) = StatusIn(ckpt, d)
                        \/ StatusIn(ckpt', d) = "requested" /\ ledger[d].status = "absent"
      BY DEF LeavesOthers
    <3>1. CASE IsModel(d) \/ IsCount(d)
      BY <1>10, <1>11, <3>1 DEF StatusIn
    <3>2. CASE ~IsModel(d) /\ ~IsCount(d) /\ d[1] = ckpt.model /\ d[2] \in DOMAIN old.batch
      <4>1. d[2] # 1
        BY <2>5, <3>2, SameName
      <4>2. StatusIn(ckpt', d) = "requested"
        BY <1>10, <1>11, <2>7, <3>2, <4>1 DEF StatusIn
      <4>3. d[2] \in 1 .. MaxBatch /\ d = <<ckpt.model, d[2]>>
        BY <3>2, Names, CallForms DEF IsTool
      <4>4. ledger[d].status = "absent"
        BY <2>6, <4>3
      <4> QED BY <4>2, <4>4
    <3>3. CASE ~IsModel(d) /\ ~IsCount(d) /\ ~(d[1] = ckpt.model /\ d[2] \in DOMAIN old.batch)
      BY <1>10, <1>11, <2>1, <2>7, <3>3 DEF StatusIn
    <3> QED BY <3>1, <3>2, <3>3
  <2>10. OthersRest(c)
    BY <1>13 DEF OthersRest
  <2>11. Signs(a, c, s)
    BY <1>2, <1>9, <1>10, <1>11 DEF Signs
  <2>12. ModelsBounded'
    BY <1>2, <1>10, <1>11, IsThere DEF Bounded, ModelsBounded
  <2>13. Steady'
    BY <1>2, <1>10, <1>11, <2>1, <2>3, IsThere DEF Going, Steady
  <2>14. StepFits(a)'
    BY <1>2, <1>10, <1>11 DEF StepFits
  <2> QED BY <1>1, <1>12, <2>5, <2>8, <2>9, <2>10, <2>11, <2>12, <2>13, <2>14, OneCallStep
<1> QED BY <1>3, <1>4, <1>14, <1>15

\* The steps of a batch.
LEMMA ToolStepAgrees ==
  ASSUME Agreement, LedgerInv', NEW a \in Attempts, ToolStep(a)
  PROVE  Agreement'
<1>1. CASE PrepareTool(a)
  BY <1>1, PrepareToolAgrees
<1>2. CASE RetryTool(a)
  BY <1>2, RetryToolAgrees
<1>3. CASE StartTool(a)
  BY <1>3, StartToolAgrees
<1>4. CASE CompleteTool(a)
  <2>1. AfterTool(a) \in {"dispatch", "redispatch", "fail"}
    BY DEF AfterTool
  <2>2. PICK status, effect : status = "completed" /\ effect = "succeeded"
    OBVIOUS
  <2>3. /\ <<status, effect>> \in {<<"completed", "succeeded">>, <<"failed", "failed">>} /\ Returns(a)
        /\ Finishes(a, Running(a), status, effect)
        /\ Saves(a, AfterTool(a), Marked(Local(a), Running(a), status)) /\ Untouched
    BY <1>4, <2>2 DEF CompleteTool
  <2> QED BY <2>1, <2>3, ToolFinishes
<1>5. ASSUME NEW fatal \in BOOLEAN, FailTool(a, fatal) PROVE Agreement'
  <2>1. PICK pc \in {"dispatch", "redispatch", "fail"} : pc = IF fatal THEN "fail" ELSE AfterTool(a)
    BY DEF AfterTool
  <2>2. PICK status, effect : status = "failed" /\ effect = "failed"
    OBVIOUS
  <2>3. /\ <<status, effect>> \in {<<"completed", "succeeded">>, <<"failed", "failed">>} /\ Returns(a)
        /\ Finishes(a, Running(a), status, effect)
        /\ Saves(a, pc, Marked(Local(a), Running(a), status)) /\ Untouched
    BY <1>5, <2>1, <2>2 DEF FailTool
  <2> QED BY <2>1, <2>3, ToolFinishes
<1>6. CASE LoseTool(a)
  BY <1>6, LoseToolAgrees
<1>7. CASE SettleBatch(a)
  BY <1>7, SettleBatchAgrees
<1> QED BY <1>1, <1>2, <1>3, <1>4, <1>5, <1>6, <1>7 DEF ToolStep

\* The steps of a planning executor that has not succeeded.
LEMMA PlanStepAgrees ==
  ASSUME Agreement, LedgerInv', NEW a \in Attempts, PlanStep(a)
  PROVE  Agreement'
BY PlanOnly, RepairAgrees, SearchAgrees, AskForApproval DEF PlanStep

\* An executor ends before its attempt does.
LEMMA QuitAgrees ==
  ASSUME Agreement, LedgerInv', NEW a \in Attempts, Quit(a)
  PROVE  Agreement'
<1>1. exec[a].pc # "gone" /\ UNCHANGED rows /\ Leave(a)
  BY DEF Quit
<1>2. exec'[a] = Gone /\ \A b \in Attempts : b # a => exec'[b] = exec[b]
  BY <1>1, Shapes DEF Leave, CheckpointsShaped
<1>3. exec'[a].pc = "gone"
  BY <1>2 DEF Gone
<1>4. StepFits(a)'
  BY <1>3 DEF StepFits
<1> QED BY <1>1, <1>2, <1>3, <1>4, StepOnly

(***************************************************************************)
(* The end of the node and of the run.                                     *)
(***************************************************************************)
\* The node succeeds.
LEMMA SucceedNodeAgrees ==
  ASSUME Agreement, LedgerInv', NEW a \in Attempts, SucceedNode(a)
  PROVE  Agreement'
<1>1. exec[a].pc = "plan"
  BY DEF SucceedNode, At
<1>2. /\ Going /\ Live /\ CheckpointsShaped /\ RunShaped /\ a \in DOMAIN attempts /\ a = Current /\ wait = NoWait
      /\ Bounded /\ \A c \in Calls : ledger[c].status \notin OpenStatus /\ StatusIn(ckpt, c) \notin OpenStatus
      /\ ckpt.status = "completed"
  BY <1>1, PlanFacts
<1>3. /\ attempts' = WithStatus(a, "completed") /\ node' = "completed" /\ wakeups' = {} /\ Leave(a)
      /\ UNCHANGED <<other, ledger, ckpt, wait>>
      /\ run'.epoch = run.epoch
  BY <1>2 DEF SucceedNode, Drained, RunShaped
<1>4. /\ attempts' \in Seq([status : AttemptStatus, epoch : Nat]) /\ Len(attempts') = Len(attempts)
      /\ DOMAIN attempts' = DOMAIN attempts /\ Current' = a /\ attempts'[a].status = "completed"
  BY <1>2, <1>3, WithStatusForm DEF AttemptStatus, Current
<1>5. \A b \in Attempts : exec'[b].pc = "gone"
  <2>1. \A b \in Attempts : b # a => exec[b].pc = "gone"
    BY <1>1, Working
  <2> QED BY <1>2, <1>3, <2>1 DEF Leave, Gone, CheckpointsShaped
<1>6. Bounded'
  <2>1. ModelsBounded' /\ TriesBounded'
    BY <1>2, <1>3, <1>4 DEF Bounded, ModelsBounded, TriesBounded
  <2>2. RunBounded'
    BY <1>2, <1>3, <1>4 DEF Bounded, RunBounded
  <2> QED BY <2>1, <2>2 DEF Bounded
<1>7. NoneLate' /\ \A b \in Attempts : StepFits(b)'
  BY <1>5 DEF NoneLate, StepFits
<1>8. \A c \in Calls : Agrees(StatusIn(ckpt, c), ledger[c])
  BY <1>2 DEF Going, CallsAgree
<1>9. CASE Live'
  <2>1. CallsAgree' /\ Steady'
    BY <1>2, <1>3 DEF Going, CallsAgree, Steady
  <2>2. InProgress'
    BY <1>2, <1>3 DEF InProgress, SentFits, ModelFits, PreparedFits, OpenStatus
  <2>3. WaitFits'
    BY <1>2, <1>3 DEF WaitFits, OpenStatus, NoWait
  <2>4. Finished'
    <3>1. run'.status = "interrupted" => ~other
      BY <1>2 DEF SucceedNode, Drained, Going, Finished, RunShaped
    <3> QED BY <1>2, <1>3, <1>4, <3>1 DEF Finished
  <2> QED BY <1>6, <1>7, <1>9, <2>1, <2>2, <2>3, <2>4 DEF Agreement, Going
<1>10. CASE ~Live'
  <2>1. TerminalIsFenced'
    <3>1. \A c \in Calls : ledger[c].effect \notin {"pending", "outcome_unknown"}
      BY <1>2, <1>8 DEF Agrees, RowAgrees, OpenStatus
    <3> QED BY <1>2, <1>3, <3>1 DEF TerminalIsFenced, OpenStatus, Active
  <2>2. CheckpointMatchesLedger'
    BY <1>3, <1>8 DEF CheckpointMatchesLedger, Agrees, Says
  <2> QED BY <1>5, <1>6, <1>7, <1>10, <2>1, <2>2 DEF Agreement, AtRest
<1> QED BY <1>9, <1>10

\* What the end of a run closes is in the checkpoint.
LEMMA IsFenceable ==
  ASSUME Agreement, Live
  PROVE  Fenceable
<1> SUFFICES ASSUME NEW c \in Calls, c \in Unfinished \cup Unmaterialized PROVE StatusIn(ckpt, c) # "absent"
  BY DEF Fenceable, InCheckpoint, Unfinished, Unmaterialized
<1>1. Agrees(StatusIn(ckpt, c), ledger[c])
  BY DEF Agreement, Going, CallsAgree
<1> QED BY <1>1 DEF Unfinished, Unmaterialized, Agrees, RowAgrees, OpenStatus

\* The row of a call of a run that is over, and what is said of it.
DeadRow(s, r) ==
    /\ r.effect \notin {"pending", "outcome_unknown"}
    /\ r.status \notin {"validated", "awaiting_approval", "prepared", "running"}
    /\ MadeFor(r, Len(attempts)) /\ Says(s, r)

\* ... is what fencing makes of them.
LEMMA FencedIsDead ==
  ASSUME Agreement, Live, NEW c \in Calls
  PROVE  DeadRow(FencedStatus(c, StatusIn(ckpt, c)), Fenced(c))
<1>1. /\ ledger[c] \in CallRow /\ Fitting(ledger[c]) /\ LatestTry(c) \in Nat
  BY Shapes, RowFacts
<1>2. Agrees(StatusIn(ckpt, c), ledger[c])
  BY DEF Agreement, Going, CallsAgree
<1>3. MadeFor(Fenced(c), Len(attempts))
  <2>1. PICK counted : counted
    OBVIOUS
  <2>2. Lawful(counted, ledger[c], Fenced(c)) /\ Len(Fenced(c).tries) = LatestTry(c)
    BY <1>1, <2>1, FencedRow
  <2>3. MadeFor(ledger[c], Len(attempts))
    BY AreMadeFor
  <2>4. DOMAIN Fenced(c).tries = DOMAIN ledger[c].tries
    BY <1>1, <2>2 DEF Lawful, CallRow, LatestTry
  <2> QED BY <2>2, <2>3, <2>4 DEF Lawful, Keeps, MadeFor
<1>4. CASE c \in Unfinished
  <2>1. /\ Abandoned(c).status = "abandoned_unknown" /\ Abandoned(c).effect = "abandoned_unknown"
        /\ Withdrawn(c).status = "cancelled_before_start" /\ Withdrawn(c).effect = "cancelled_before_start"
    BY <1>1 DEF Abandoned, Withdrawn, CallRow
  <2>2. /\ Fenced(c).status \in {"abandoned_unknown", "cancelled_before_start"}
        /\ Fenced(c).effect \in {"abandoned_unknown", "cancelled_before_start"}
    BY <1>4, <2>1 DEF Fenced
  <2>3. FencedStatus(c, StatusIn(ckpt, c)) = Fenced(c).status
    BY <1>4 DEF FencedStatus
  <2> QED BY <1>3, <2>2, <2>3 DEF DeadRow, Says
<1>5. CASE c \in Unmaterialized /\ c \notin Unfinished
  <2>1. Fenced(c) = [ledger[c] EXCEPT !.status = "cancelled_before_start"]
    BY <1>5 DEF Fenced
  <2>2. Fenced(c).status = "cancelled_before_start" /\ Fenced(c).effect = "none"
    BY <1>1, <1>5, <2>1 DEF CallRow, Unmaterialized
  <2>3. FencedStatus(c, StatusIn(ckpt, c)) = Fenced(c).status
    BY <1>5 DEF FencedStatus
  <2> QED BY <1>3, <2>2, <2>3 DEF DeadRow, Says
<1>6. CASE c \notin Unfinished \cup Unmaterialized
  <2>1. Fenced(c) = ledger[c] /\ FencedStatus(c, StatusIn(ckpt, c)) = StatusIn(ckpt, c)
    BY <1>6 DEF Fenced, FencedStatus
  <2>2. ledger[c].effect \notin {"pending", "outcome_unknown"}
    BY <1>6 DEF Unfinished
  <2>3. ledger[c].status \notin {"validated", "awaiting_approval", "prepared", "running"}
    BY <1>2, <1>6, <2>2 DEF Unmaterialized, Agrees, RowAgrees
  <2> QED BY <1>2, <1>3, <2>1, <2>2, <2>3 DEF DeadRow, Agrees
<1> QED BY <1>4, <1>5, <1>6

\* What the fenced checkpoint says.
LEMMA FencedSays ==
  ASSUME Agreement, Live, NEW new, new = FencedCheckpoint
  PROVE  /\ \A c \in Calls : StatusIn(new, c) = FencedStatus(c, StatusIn(ckpt, c))
         /\ new.by = ckpt.by /\ new.model = ckpt.model /\ new.count.no = ckpt.count.no /\ new.calls = ckpt.calls
         /\ IsCheckpoint(new)
<1>1. IsCheckpoint(ckpt) /\ RowsShaped /\ CheckpointsShaped /\ ckpt.batch \in Seq(CallStatus)
  BY Shapes
<1> DEFINE count == IF ckpt.count.no = 0 THEN ckpt.count.status
                    ELSE FencedStatus(<<0, ckpt.count.no>>, ckpt.count.status)
           status == IF ckpt.model = 0 THEN ckpt.status ELSE FencedStatus(<<ckpt.model>>, ckpt.status)
           batch == [i \in DOMAIN ckpt.batch |-> FencedStatus(Tool(ckpt, i), ckpt.batch[i])]
<1>2. new = [ckpt EXCEPT !.count.status = count, !.status = status, !.batch = batch]
  BY <1>1 DEF FencedCheckpoint, IsCheckpoint, CountState
<1>3. /\ new.by = ckpt.by /\ new.model = ckpt.model /\ new.count.no = ckpt.count.no /\ new.calls = ckpt.calls
      /\ new.count.status = count /\ new.status = status /\ new.batch = batch
  BY <1>1, <1>2 DEF IsCheckpoint, CountState
<1>4. IsCheckpoint(new)
  BY <1>1, FencedFits
<1>5. Fenceable
  BY IsFenceable
<1>6. ASSUME NEW c \in Calls PROVE StatusIn(new, c) = FencedStatus(c, StatusIn(ckpt, c))
  <2>1. StatusIn(ckpt, c) = "absent" => FencedStatus(c, "absent") = "absent"
    BY <1>5 DEF Fenceable, InCheckpoint, FencedStatus
  <2>2. 0 \notin Models /\ 0 \notin 1 .. MaxCounts
    BY LedgerAssumption DEF Models
  <2>3. CASE IsModel(c)
    <3>1. c = <<c[1]>> /\ c[1] # 0
      BY <2>2, <2>3, CallForms
    <3>2. CASE c[1] = ckpt.model
      BY <1>3, <2>3, <3>1, <3>2 DEF StatusIn
    <3>3. CASE c[1] # ckpt.model
      BY <1>3, <2>1, <2>3, <3>3 DEF StatusIn
    <3> QED BY <3>2, <3>3
  <2>4. CASE ~IsModel(c) /\ IsCount(c)
    <3>1. c = <<0, c[2]>> /\ c[2] # 0
      BY <2>2, <2>4, CallForms, Names
    <3>2. CASE c[2] = ckpt.count.no
      BY <1>3, <2>4, <3>1, <3>2 DEF StatusIn
    <3>3. CASE c[2] # ckpt.count.no
      BY <1>3, <2>1, <2>4, <3>3 DEF StatusIn
    <3> QED BY <3>2, <3>3
  <2>5. CASE ~IsModel(c) /\ ~IsCount(c)
    <3>1. c = <<c[1], c[2]>>
      BY <2>5, CallForms DEF IsTool
    <3>2. CASE c[1] = ckpt.model /\ c[2] \in DOMAIN ckpt.batch
      <4>1. Tool(ckpt, c[2]) = c
        BY <3>1, <3>2 DEF Tool
      <4> QED BY <1>3, <2>5, <3>2, <4>1 DEF StatusIn
    <3>3. CASE ~(c[1] = ckpt.model /\ c[2] \in DOMAIN ckpt.batch)
      BY <1>3, <2>1, <2>5, <3>3 DEF StatusIn
    <3> QED BY <3>2, <3>3
  <2> QED BY <2>3, <2>4, <2>5
<1> QED BY <1>3, <1>4, <1>6

\* A run ends, and every row with it.
LEMMA Dies ==
  ASSUME Agreement, LedgerInv', Live, ~Live', run'.epoch = run.epoch + 1, Len(attempts') = Len(attempts),
         node' \in {"completed", "failed", "cancelled"}, other' = FALSE, wakeups' = {}, wait' = NoWait,
         ckpt'.by = ckpt.by, ckpt'.model = ckpt.model, ckpt'.count.no = ckpt.count.no, ckpt'.calls = ckpt.calls,
         \A c \in Calls : DeadRow(StatusIn(ckpt', c), ledger'[c]),
         \A a \in Attempts : exec'[a].pc = "gone"
  PROVE  Agreement'
<1>1. /\ Bounded /\ RunShaped /\ RunShaped' /\ CheckpointsShaped
  BY DEF Agreement, LedgerInv, Shaped
<1>2. TriesBounded'
  <2>1. DOMAIN attempts' = 1 .. Len(attempts)
    BY <1>1 DEF RunShaped
  <2> QED BY <2>1 DEF TriesBounded, DeadRow, MadeFor
<1>3. ModelsBounded'
  BY <1>1 DEF Bounded, ModelsBounded
<1>4. RunBounded'
  <2>1. run'.epoch \in 0 .. MaxEpoch + 1
    BY <1>1, LedgerAssumption DEF Bounded, RunBounded
  <2> QED BY <1>1, <2>1 DEF Bounded, RunBounded, NoWait
<1>5. TerminalIsFenced'
  BY DEF TerminalIsFenced, DeadRow, Active
<1>6. CheckpointMatchesLedger'
  BY DEF CheckpointMatchesLedger, DeadRow, Says
<1>7. NoneLate'
  BY DEF NoneLate
<1> QED BY <1>2, <1>3, <1>4, <1>5, <1>6, <1>7 DEF Agreement, AtRest, Bounded

\* fail_run and apply_cancel
LEMMA EndsAgree ==
  ASSUME Agreement, LedgerInv', Live, NEW status \in {"failed", "cancelled"}, NEW A,
         A \in Seq([status : AttemptStatus, epoch : Nat]), Len(A) = Len(attempts),
         NEW n, n \in Active \cup {"waiting", "completed", "failed", "cancelled"}, EndsAs(status, A, n),
         \A a \in Attempts : exec'[a].pc = "gone"
  PROVE  Agreement'
<1>1. PICK new : new = FencedCheckpoint
  OBVIOUS
<1>2. /\ run' = [status |-> status, epoch |-> run.epoch + 1] /\ ledger' = [c \in Calls |-> Fenced(c)] /\ ckpt' = new
      /\ node' \in {"completed", "failed", "cancelled"} /\ other' = FALSE /\ wakeups' = {} /\ wait' = NoWait
  BY <1>1 DEF EndsAs
<1>3. Len(attempts') = Len(attempts)
  <2>1. DOMAIN attempts' = DOMAIN A /\ DOMAIN A = 1 .. Len(A) /\ Len(A) \in Nat
    BY DEF EndsAs
  <2>2. attempts' \in Seq([status : AttemptStatus, epoch : Nat])
    BY DEF LedgerInv, Shaped, RunShaped
  <2> QED BY <2>1, <2>2
<1>4. run'.epoch = run.epoch + 1 /\ ~Live'
  BY <1>2 DEF Live, Terminal
<1>5. \A c \in Calls : DeadRow(StatusIn(ckpt', c), ledger'[c])
  BY <1>1, <1>2, FencedIsDead, FencedSays
<1>6. ckpt'.by = ckpt.by /\ ckpt'.model = ckpt.model /\ ckpt'.count.no = ckpt.count.no /\ ckpt'.calls = ckpt.calls
  BY <1>1, <1>2, FencedSays
<1> QED BY <1>2, <1>3, <1>4, <1>5, <1>6, Dies

\* Every executor ends with the run.
LEMMA AllLapse ==
  ASSUME ~LateExecutors, LapseAll
  PROVE  \A a \in Attempts : exec'[a].pc = "gone"
BY DEF LapseAll, Gone

\* The transactions that end the run.
LEMMA RunEndsAgree ==
  ASSUME Agreement, LedgerInv', ~LateExecutors,
         \/ Cancel \/ ExpireApproval
         \/ \E a \in Attempts : FailNode(a) \/ RecoverExhausted(a) \/ TimeOutAndFail(a)
  PROVE  Agreement'
<1>1. RunShaped /\ CheckpointsShaped /\ Bounded /\ attempts \in Seq([status : AttemptStatus, epoch : Nat])
  BY Shapes DEF Agreement, RunShaped
<1>2. node \in Active \cup {"waiting", "completed", "failed", "cancelled"}
  BY <1>1 DEF Bounded, RunBounded
<1>3. \A a, status : status \in AttemptStatus => /\ WithStatus(a, status) \in Seq([status : AttemptStatus, epoch : Nat])
                                                 /\ Len(WithStatus(a, status)) = Len(attempts)
  <2> SUFFICES ASSUME NEW a, NEW status \in AttemptStatus
               PROVE  /\ WithStatus(a, status) \in Seq([status : AttemptStatus, epoch : Nat])
                      /\ Len(WithStatus(a, status)) = Len(attempts)
    OBVIOUS
  <2>1. PICK A : A = WithStatus(a, status)
    OBVIOUS
  <2>2. A \in Seq([status : AttemptStatus, epoch : Nat]) /\ Len(A) = Len(attempts)
    BY <1>1, <2>1, WithStatusForm
  <2> QED BY <2>1, <2>2
<1>4. CASE Cancel
  <2>1. Live /\ EndsAs("cancelled", attempts, node) /\ LapseAll
    BY <1>4 DEF Cancel, EndRun, Live
  <2> QED BY <1>1, <1>2, <2>1, AllLapse, EndsAgree
<1>5. CASE ExpireApproval
  <2>1. Live /\ EndsAs("failed", WithStatus(Current, "timed_out"), "failed") /\ LapseAll
    BY <1>5 DEF ExpireApproval, Live
  <2>2. "timed_out" \in AttemptStatus
    BY DEF AttemptStatus
  <2> QED BY <1>3, <2>1, <2>2, AllLapse, EndsAgree
<1>6. ASSUME NEW a \in Attempts, FailNode(a) PROVE Agreement'
  <2>1. exec[a].pc # "gone" /\ EndsAs("failed", WithStatus(a, "failed"), "failed") /\ Leave(a)
    BY <1>6 DEF FailNode, At
  <2>2. Live /\ \A b \in Attempts : b # a => exec[b].pc = "gone"
    BY <2>1, Working
  <2>3. \A b \in Attempts : exec'[b].pc = "gone"
    BY <1>1, <2>1, <2>2 DEF Leave, Gone, CheckpointsShaped
  <2>4. "failed" \in AttemptStatus
    BY DEF AttemptStatus
  <2> QED BY <1>3, <2>1, <2>2, <2>3, <2>4, EndsAgree
<1>7. ASSUME NEW a \in Attempts, RecoverExhausted(a) PROVE Agreement'
  <2>1. Live /\ EndsAs("failed", attempts, node) /\ LapseAll
    BY <1>7 DEF RecoverExhausted, Expired, EndRun, Live, Terminal
  <2> QED BY <1>1, <1>2, <2>1, AllLapse, EndsAgree
<1>8. ASSUME NEW a \in Attempts, TimeOutAndFail(a) PROVE Agreement'
  <2>1. Live /\ EndsAs("failed", WithStatus(a, "timed_out"), "failed") /\ LapseAll
    BY <1>8 DEF TimeOutAndFail, TimedOut, Expired, Live, Terminal
  <2>2. "timed_out" \in AttemptStatus
    BY DEF AttemptStatus
  <2> QED BY <1>3, <2>1, <2>2, AllLapse, EndsAgree
<1> QED BY <1>4, <1>5, <1>6, <1>7, <1>8

(***************************************************************************)
(* What people decide.                                                     *)
(***************************************************************************)
\* While somebody is waited for, nobody works and nothing is sent.
LEMMA Awaiting ==
  ASSUME Agreement, Live, wait.kind # "none"
  PROVE  /\ Going /\ Bounded /\ RunShaped /\ \A a \in Attempts : exec[a].pc = "gone"
         /\ attempts[Current].status = "waiting" /\ Current \in DOMAIN attempts /\ Current \in Nat \ {0}
         /\ \A c \in Calls : StatusIn(ckpt, c) # "running"
         /\ ckpt.status # "prepared" /\ node # "completed"
<1>1. Going /\ Bounded /\ RunShaped /\ OneAtWork /\ NoneLate
  BY Shapes DEF Agreement
<1>2. /\ attempts[Current].status = "waiting" /\ Current \in DOMAIN attempts /\ Current \in Nat \ {0}
      /\ \A a \in DOMAIN attempts : attempts[a].status # "running"
  BY <1>1 DEF OneAtWork, Current, RunShaped
<1>3. \A a : ~Held(a)
  BY <1>2 DEF Held
<1>4. \A a \in Attempts : exec[a].pc = "gone"
  BY <1>1, <1>3 DEF NoneLate
<1>5. (\A c \in Calls : StatusIn(ckpt, c) # "running") /\ ckpt.status # "prepared"
  BY <1>1, <1>3 DEF Going, InProgress, SentFits, ModelFits
<1>6. node # "completed"
  BY <1>1, <1>2 DEF Going, Finished
<1> QED BY <1>1, <1>2, <1>4, <1>5, <1>6

\* A new attempt takes the node up.
LEMMA TakenUp ==
  ASSUME Agreement, LedgerInv', Live, wait.kind # "none", attempts' = Append(attempts, Queued), MayRequeue,
         node' = "ready", wait' = NoWait, run' \in {run, Restarted}, wakeups' \in {wakeups, wakeups \cup {"ready"}},
         UNCHANGED <<other, exec>>, NEW new, ckpt' = new,
         new.by \in {ckpt.by, Current + 1}, new.model = ckpt.model, new.count.no = ckpt.count.no,
         new.calls = ckpt.calls, CallsAgree', Steady',
         \A c \in Calls : StatusIn(new, c) # "running", new.status # "prepared",
         \A c \in Calls : ledger'[c].status # "outcome_unknown" /\ MadeFor(ledger'[c], Current + 1),
         \A c \in Calls : ledger'[c].status = "prepared" => new.by = Current + 1 \/ MadeFor(ledger'[c], Current)
  PROVE  Agreement'
<1>1. /\ Going /\ Bounded /\ RunShaped /\ (\A a \in Attempts : exec[a].pc = "gone")
      /\ Current \in DOMAIN attempts /\ Current \in Nat \ {0}
  BY Awaiting
<1>2. RowsShaped' /\ RunShaped'
  BY DEF LedgerInv, Shaped
<1>3. /\ Queued \in [status : AttemptStatus, epoch : Nat]
  BY <1>1 DEF Queued, RunShaped, AttemptStatus
<1>4. Len(attempts') = Current + 1 /\ DOMAIN attempts' = 1 .. Current + 1 /\ Current' = Current + 1
  BY <1>1, <1>3 DEF RunShaped, Current
<1>5. Current + 1 \in 1 .. MaxAttempts
  BY <1>1, LedgerAssumption DEF MayRequeue, Current
<1>6. /\ Live' /\ run'.epoch = run.epoch
      /\ run'.status = "interrupted" => run.status = "interrupted"
  BY <1>1 DEF Live, Restarted, Terminal, RunShaped
<1>7. ModelsBounded'
  BY <1>1, <1>5 DEF Bounded, ModelsBounded
<1>8. TriesBounded'
  BY <1>4 DEF TriesBounded, MadeFor
<1>9. RunBounded'
  BY <1>1, <1>4, <1>5, <1>6 DEF Bounded, RunBounded, NoWait, Active
<1>10. InProgress'
  <2>1. PreparedFits'
    <3> SUFFICES ASSUME NEW c \in Calls, ledger'[c].status = "prepared", LastTry(c)'.by = Current + 1
                 PROVE  new.by = Current + 1
      BY <1>4 DEF PreparedFits
    <3>1. ledger'[c] \in CallRow /\ LastTry(c)' = ledger'[c].tries[Len(ledger'[c].tries)]
      BY <1>2 DEF RowsShaped, LastTry, LatestTry
    <3>2. RowAgrees(ledger'[c])
      BY DEF CallsAgree, Agrees
    <3>3. Len(ledger'[c].tries) \in DOMAIN ledger'[c].tries
      BY <3>1, <3>2 DEF RowAgrees, CallRow
    <3>4. MadeFor(ledger'[c], Current) => LastTry(c)'.by \in 1 .. Current
      BY <3>1, <3>3 DEF MadeFor
    <3> QED BY <1>1, <3>4
  <2> QED BY <2>1 DEF InProgress, SentFits, ModelFits
<1>11. WaitFits'
  BY DEF WaitFits, NoWait
<1>12. Finished'
  BY <1>1, <1>6 DEF Finished, Going
<1>13. NoneLate' /\ \A a \in Attempts : StepFits(a)'
  BY <1>1 DEF NoneLate, StepFits
<1> QED BY <1>6, <1>7, <1>8, <1>9, <1>10, <1>11, <1>12, <1>13 DEF Agreement, Going, Bounded

\* All calls of the batch get a new status, and those of nothing else.
LEMMA BatchSays ==
  ASSUME Agreement, Going, NEW new, NEW batch, DOMAIN batch = DOMAIN ckpt.batch,
         new.model = ckpt.model, new.status = ckpt.status, new.count = ckpt.count, new.batch = batch
  PROVE  \A c \in Calls : StatusIn(new, c) = IF Batched(c) THEN batch[c[2]] ELSE StatusIn(ckpt, c)
BY DEF StatusIn, Batched, IsTool

\* What the rows of an untouched batch are.
LEMMA UntriedRows ==
  ASSUME Agreement, Going, Untried({"validated", "awaiting_approval"}), NEW c \in Calls, Batched(c)
  PROVE  /\ ledger[c].status \in {"validated", "awaiting_approval"} /\ ledger[c].effect = "none"
         /\ ledger[c].tries = <<>> /\ ledger[c].class \in Classes /\ ledger[c] \in CallRow
         /\ c[2] \in DOMAIN ckpt.batch /\ ckpt.batch # <<>>
<1>1. ledger[c].status \in {"validated", "awaiting_approval"}
  BY DEF Untried
<1>2. ledger[c] \in CallRow /\ Fitting(ledger[c])
  BY Shapes, RowFacts
<1>3. ledger[c].tries = <<>> /\ ledger[c].class \in Classes
  BY <1>1, <1>2 DEF Fitting, CallRow
<1>4. ledger[c].effect = "none"
  BY <1>1 DEF Going, CallsAgree, Agrees, RowAgrees
<1>5. c[2] \in DOMAIN ckpt.batch /\ ckpt.batch # <<>>
  BY Shapes DEF Batched
<1> QED BY <1>1, <1>2, <1>3, <1>4, <1>5

\* The row of a call before and after a decision about its batch, which has no effects yet.
DecidedRow(r, s, a) ==
    /\ RowAgrees(s) /\ s.status \notin {"absent", "requested", "running", "outcome_unknown"}
    /\ MadeFor(s, a) /\ r.status \in {"validated", "awaiting_approval"}
\* A batch is decided, and a new attempt gets what is left of it.
LEMMA BatchDecided ==
  ASSUME Agreement, LedgerInv', Live, wait.kind # "none", Delivered, MayRequeue,
         NEW batch, DOMAIN batch = DOMAIN ckpt.batch, NEW new, ckpt' = new,
         new.by = Current + 1, new.model = ckpt.model, new.status = ckpt.status, new.count = ckpt.count,
         new.batch = batch, new.calls = ckpt.calls, new.repairing = ckpt.repairing, wait.kind # "effect",
         \A c \in Calls : IF Batched(c) THEN DecidedRow(ledger[c], ledger'[c], Current + 1)
                                             /\ ledger'[c].status = batch[c[2]]
                          ELSE ledger'[c] = ledger[c]
  PROVE  Agreement'
<1>1. /\ Going /\ Bounded /\ RunShaped /\ Current \in Nat \ {0}
      /\ \A c \in Calls : StatusIn(ckpt, c) # "running"
      /\ ckpt.status # "prepared" /\ \A c \in Calls : MadeFor(ledger[c], Current)
  BY Awaiting, AreMadeFor DEF Current
<1>2. \A c \in Calls : StatusIn(new, c) = IF Batched(c) THEN batch[c[2]] ELSE StatusIn(ckpt, c)
  BY <1>1, BatchSays
<1>3. CallsAgree'
  <2> SUFFICES ASSUME NEW c \in Calls PROVE Agrees(StatusIn(new, c), ledger'[c])
    BY DEF CallsAgree
  <2>1. CASE Batched(c)
    BY <1>2, <2>1 DEF Agrees, Says, DecidedRow, OpenStatus
  <2>2. CASE ~Batched(c)
    BY <1>1, <1>2, <2>2 DEF Going, CallsAgree
  <2> QED BY <2>1, <2>2
<1>4. Steady'
  <2>1. new.batch \in Seq(CallStatus) /\ ckpt.batch \in Seq(CallStatus)
    BY Shapes DEF LedgerInv, Shaped, CheckpointsShaped, IsCheckpoint
  <2>2. ckpt.batch = <<>> => new.batch = <<>>
    <3>1. \A q \in Seq(CallStatus) : q = <<>> <=> DOMAIN q = {}
      OBVIOUS
    <3> QED BY <2>1, <3>1
  <2>3. new.by # 0
    BY <1>1
  <2> QED BY <1>1, <2>2, <2>3 DEF Going, Steady
<1>5. \A c \in Calls : StatusIn(new, c) # "running"
  BY <1>1, <1>2 DEF DecidedRow
<1>6. \A c \in Calls : ledger'[c].status # "outcome_unknown" /\ MadeFor(ledger'[c], Current + 1)
  <2> SUFFICES ASSUME NEW c \in Calls
               PROVE  ledger'[c].status # "outcome_unknown" /\ MadeFor(ledger'[c], Current + 1)
    OBVIOUS
  <2>1. CASE Batched(c)
    BY <2>1 DEF DecidedRow
  <2>2. CASE ~Batched(c)
    <3>1. MadeFor(ledger[c], Current + 1)
      BY <1>1 DEF MadeFor
    <3>2. ledger[c].status # "outcome_unknown"
      BY <1>1 DEF Going, WaitFits
    <3> QED BY <2>2, <3>1, <3>2
  <2> QED BY <2>1, <2>2
<1>7. /\ attempts' = Append(attempts, Queued) /\ node' = "ready" /\ wait' = NoWait /\ run' \in {run, Restarted}
      /\ wakeups' \in {wakeups, wakeups \cup {"ready"}} /\ UNCHANGED <<other, exec>>
  BY DEF Delivered, Requeued
<1>8. new.by \in {ckpt.by, Current + 1} /\ new.count.no = ckpt.count.no /\ new.status # "prepared"
  BY <1>1
<1> QED BY <1>3, <1>4, <1>5, <1>6, <1>7, <1>8, TakenUp

\* The calls of a batch are approved, but for some.
LEMMA ApproveAgrees ==
  ASSUME Agreement, LedgerInv', NEW rejected, Approve(rejected)
  PROVE  Agreement'
<1>1. /\ Live /\ wait.kind = "approval" /\ Delivered /\ MayRequeue
      /\ Untried({"validated", "awaiting_approval"})
  BY DEF Approve, Answerable, Live
<1>2. Going /\ IsCheckpoint(ckpt) /\ Current \in Nat
  BY <1>1, Awaiting, Shapes
<1>3. PICK batch : batch = [i \in DOMAIN ckpt.batch |-> IF i \in rejected THEN "denied" ELSE "prepared"]
  OBVIOUS
<1>4. PICK new, mark : ckpt' = new /\ new = [ckpt EXCEPT !.by = Current + 1, !.batch = batch, !.mark = mark]
  <2>1. PICK mark : mark = IF DOMAIN ckpt.batch \ rejected = {} THEN <<"delivery">>
                           ELSE <<ckpt.model, Max(DOMAIN ckpt.batch \ rejected), 1>>
    OBVIOUS
  <2> QED BY <1>2, <1>3, <2>1 DEF Approve
<1>5. /\ new.by = Current + 1 /\ new.model = ckpt.model /\ new.status = ckpt.status /\ new.count = ckpt.count
      /\ new.batch = batch /\ new.calls = ckpt.calls /\ new.repairing = ckpt.repairing
  BY <1>2, <1>4 DEF IsCheckpoint
<1>6. ASSUME NEW c \in Calls
      PROVE  IF Batched(c) THEN DecidedRow(ledger[c], ledger'[c], Current + 1) /\ ledger'[c].status = batch[c[2]]
             ELSE ledger'[c] = ledger[c]
  <2>1. ledger'[c] = IF ~Batched(c) THEN ledger[c]
                     ELSE IF c[2] \in rejected THEN [ledger[c] EXCEPT !.status = "denied"]
                     ELSE Prepared(ledger[c].class, Current + 1)
    BY DEF Approve
  <2>2. CASE ~Batched(c)
    BY <2>1, <2>2
  <2>3. CASE Batched(c)
    <3>1. /\ ledger[c].status \in {"validated", "awaiting_approval"} /\ ledger[c].effect = "none"
          /\ ledger[c].tries = <<>> /\ ledger[c].class \in Classes /\ ledger[c] \in CallRow
          /\ c[2] \in DOMAIN ckpt.batch
      BY <1>1, <1>2, <2>3, UntriedRows
    <3>2. CASE c[2] \in rejected
      <4>1. PICK s : s = [ledger[c] EXCEPT !.status = "denied"]
        OBVIOUS
      <4>2. s.status = "denied" /\ s.effect = "none" /\ s.tries = <<>>
        BY <3>1, <4>1 DEF CallRow
      <4>3. RowAgrees(s) /\ MadeFor(s, Current + 1)
        BY <4>2, UntriedAgrees
      <4> QED BY <1>3, <2>1, <2>3, <3>1, <3>2, <4>1, <4>2, <4>3 DEF DecidedRow
    <3>3. CASE c[2] \notin rejected
      <4>1. PICK s, k : s = Prepared(ledger[c].class, k) /\ k = Current + 1
        OBVIOUS
      <4>2. k \in Nat /\ k \in 1 .. k
        BY <1>2, <4>1
      <4>3. s.status = "prepared" /\ RowAgrees(s) /\ MadeFor(s, k)
        BY <3>1, <4>1, <4>2, PreparedAgrees
      <4> QED BY <1>3, <2>1, <2>3, <3>1, <3>3, <4>1, <4>3 DEF DecidedRow
    <3> QED BY <3>2, <3>3
  <2> QED BY <2>2, <2>3
<1>7. DOMAIN batch = DOMAIN ckpt.batch
  BY <1>3
<1>8. wait.kind # "none" /\ wait.kind # "effect" /\ Live /\ Delivered /\ MayRequeue
  BY <1>1
<1>9. ckpt' = new
  BY <1>4
<1> HIDE DEF Live
<1> QED BY <1>5, <1>6, <1>7, <1>8, <1>9, BatchDecided

\* The proposals of a batch are decided.
LEMMA ProposalsAgree ==
  ASSUME Agreement, LedgerInv', DecideProposals
  PROVE  Agreement'
<1>1. /\ Live /\ wait.kind = "memory" /\ Delivered /\ MayRequeue
      /\ Untried({"validated", "awaiting_approval"})
  BY DEF DecideProposals, Live, Untried
<1>2. Going /\ IsCheckpoint(ckpt) /\ Current \in Nat
  BY <1>1, Awaiting, Shapes
<1>3. PICK batch : batch = [i \in DOMAIN ckpt.batch |-> "completed"]
  OBVIOUS
<1>4. PICK new : ckpt' = new /\ new = [ckpt EXCEPT !.by = Current + 1, !.mark = <<"delivery">>, !.batch = batch]
  BY <1>2, <1>3 DEF DecideProposals
<1>5. /\ new.by = Current + 1 /\ new.model = ckpt.model /\ new.status = ckpt.status /\ new.count = ckpt.count
      /\ new.batch = batch /\ new.calls = ckpt.calls /\ new.repairing = ckpt.repairing
  BY <1>2, <1>4 DEF IsCheckpoint
<1>6. ASSUME NEW c \in Calls
      PROVE  IF Batched(c) THEN DecidedRow(ledger[c], ledger'[c], Current + 1) /\ ledger'[c].status = batch[c[2]]
             ELSE ledger'[c] = ledger[c]
  <2>1. ledger'[c] = IF Batched(c) THEN [ledger[c] EXCEPT !.status = "completed"] ELSE ledger[c]
    BY DEF DecideProposals
  <2>2. CASE ~Batched(c)
    BY <2>1, <2>2
  <2>3. CASE Batched(c)
    <3>1. /\ ledger[c].status \in {"validated", "awaiting_approval"} /\ ledger[c].effect = "none"
          /\ ledger[c].tries = <<>> /\ ledger[c] \in CallRow /\ c[2] \in DOMAIN ckpt.batch
      BY <1>1, <1>2, <2>3, UntriedRows
    <3>2. PICK s : s = [ledger[c] EXCEPT !.status = "completed"]
      OBVIOUS
    <3>3. s.status = "completed" /\ s.effect = "none" /\ s.tries = <<>>
      BY <3>1, <3>2 DEF CallRow
    <3>4. RowAgrees(s) /\ MadeFor(s, Current + 1)
      BY <3>3, UntriedAgrees
    <3> QED BY <1>3, <2>1, <2>3, <3>1, <3>2, <3>3, <3>4 DEF DecidedRow
  <2> QED BY <2>2, <2>3
<1>7. DOMAIN batch = DOMAIN ckpt.batch
  BY <1>3
<1> QED BY <1>1, <1>4, <1>5, <1>6, <1>7, BatchDecided

\* A batch is rejected, and the run fails for it.
LEMMA RejectAgrees ==
  ASSUME Agreement, LedgerInv', ~LateExecutors, NEW rejected, Reject(rejected)
  PROVE  Agreement'
<1>1. /\ Live /\ wait.kind = "approval" /\ Untried({"validated", "awaiting_approval"}) /\ LapseAll
      /\ run' = [status |-> "failed", epoch |-> run.epoch + 1]
      /\ node' = "failed" /\ other' = FALSE /\ wakeups' = {} /\ wait' = NoWait
  BY DEF Reject, Answerable, Live
<1>2. Going /\ IsCheckpoint(ckpt) /\ RunShaped /\ Current \in DOMAIN attempts
  BY <1>1, Awaiting, Shapes
<1>3. PICK batch : batch = [i \in DOMAIN ckpt.batch |-> IF i \in rejected THEN "denied" ELSE "cancelled_before_start"]
  OBVIOUS
<1>4. PICK new : ckpt' = new /\ new = [ckpt EXCEPT !.batch = batch, !.mark = <<"rejected">>]
  BY <1>2, <1>3 DEF Reject
<1>5. /\ new.by = ckpt.by /\ new.model = ckpt.model /\ new.status = ckpt.status /\ new.count = ckpt.count
      /\ new.batch = batch /\ new.calls = ckpt.calls
  BY <1>2, <1>4 DEF IsCheckpoint
<1>6. ckpt.status = "completed" /\ ckpt.count.status \notin OpenStatus
  <2>1. ckpt.status = "completed"
    BY <1>1, <1>2 DEF Going, WaitFits
  <2>2. ckpt.model # 0 /\ ckpt.model \in 0 .. MaxModelCalls
    BY <1>2, <2>1, Shapes DEF Going, Steady
  <2> QED BY <1>2, <2>1, <2>2, LedgerAssumption DEF Going, Steady
<1>7. \A c \in Calls : StatusIn(new, c) = IF Batched(c) THEN batch[c[2]] ELSE StatusIn(ckpt, c)
  BY <1>2, <1>3, <1>5, BatchSays
<1>8. ASSUME NEW c \in Calls PROVE DeadRow(StatusIn(ckpt', c), ledger'[c])
  <2>1. ledger'[c] = IF Batched(c)
                       THEN [ledger[c] EXCEPT !.status = IF c[2] \in rejected THEN "denied" ELSE "cancelled_before_start"]
                       ELSE ledger[c]
    BY DEF Reject
  <2>2. CASE Batched(c)
    <3>1. /\ ledger[c].effect = "none" /\ ledger[c].tries = <<>> /\ ledger[c] \in CallRow /\ c[2] \in DOMAIN ckpt.batch
      BY <1>1, <1>2, <2>2, UntriedRows
    <3>2. /\ ledger'[c].effect = "none" /\ ledger'[c].tries = <<>>
          /\ ledger'[c].status = IF c[2] \in rejected THEN "denied" ELSE "cancelled_before_start"
      BY <2>1, <2>2, <3>1 DEF CallRow
    <3>3. StatusIn(ckpt', c) = ledger'[c].status
      BY <1>3, <1>4, <1>7, <2>2, <3>1, <3>2
    <3> QED BY <3>2, <3>3 DEF DeadRow, Says, MadeFor
  <2>3. CASE ~Batched(c)
    <3>1. StatusIn(ckpt, c) \notin OpenStatus
      BY <1>6, <2>3 DEF StatusIn, Batched, IsTool, OpenStatus
    <3>2. ledger[c].status \notin OpenStatus
      BY <1>2, <3>1, NotOpen
    <3>3. Agrees(StatusIn(ckpt, c), ledger[c]) /\ MadeFor(ledger[c], Len(attempts))
      BY <1>2, AreMadeFor DEF Going, CallsAgree
    <3>4. StatusIn(ckpt', c) = StatusIn(ckpt, c) /\ ledger'[c] = ledger[c]
      BY <1>4, <1>7, <2>1, <2>3
    <3> QED BY <3>2, <3>3, <3>4 DEF DeadRow, Agrees, RowAgrees, OpenStatus
  <2> QED BY <2>2, <2>3
<1>9. Len(attempts') = Len(attempts)
  <2>1. attempts' = WithStatus(Current, "cancelled")
    BY DEF Reject, WithStatus
  <2>2. "cancelled" \in AttemptStatus
    BY DEF AttemptStatus
  <2> QED BY <1>2, <2>1, <2>2, WithStatusForm
<1>10. ~Live' /\ run'.epoch = run.epoch + 1
  BY <1>1 DEF Live, Terminal
<1> QED BY <1>1, <1>4, <1>5, <1>8, <1>9, <1>10, AllLapse, Dies

(***************************************************************************)
(* What a person says of a call nobody knows of.                           *)
(***************************************************************************)
\* The one call the node waits for.
LEMMA UnknownCall ==
  ASSUME Agreement, Resolvable
  PROVE  /\ Live /\ Going /\ wait.kind # "none" /\ Unknown \in Calls
         /\ ledger[Unknown].status = "outcome_unknown" /\ StatusIn(ckpt, Unknown) = "outcome_unknown"
         /\ \A c \in Calls : c # Unknown => ledger[c].status # "outcome_unknown"
<1>1. Live /\ wait.kind = "effect" /\ wait.kind # "none"
  BY DEF Resolvable, Live
<1>2. Going /\ Bounded
  BY <1>1 DEF Agreement
<1>3. wait.blockers # {} /\ wait.blockers \subseteq Calls
  BY <1>1, <1>2 DEF Going, WaitFits, Bounded, RunBounded
<1>4. Unknown \in wait.blockers
  BY <1>3 DEF Unknown
<1>5. \A c \in Calls : ledger[c].status = "outcome_unknown" => wait.blockers = {c}
  BY <1>2 DEF Going, WaitFits
<1>6. ledger[Unknown].status = "outcome_unknown" /\ StatusIn(ckpt, Unknown) = "outcome_unknown"
  BY DEF Resolvable
<1> QED BY <1>1, <1>2, <1>3, <1>4, <1>5, <1>6

\* What the answers make of the call.
Answers == {<<"completed", "succeeded", "confirm_succeeded">>,
            <<"retry_ready", "pending", "confirm_failed_retry_safe">>,
            <<"abandoned_unknown", "abandoned_unknown", "abort_run">>}

\* Its row.
LEMMA ResolvedAgrees ==
  ASSUME Agreement, Resolvable, NEW status, NEW effect, NEW resolution, <<status, effect, resolution>> \in Answers,
         NEW s, s = Resolved(status, effect, resolution)
  PROVE  RowAgrees(s) /\ MadeFor(s, Len(attempts)) /\ s.status = status /\ s.effect = effect
<1>1. Unknown \in Calls
  BY UnknownCall
<1>2. ledger[Unknown] \in CallRow /\ Fitting(ledger[Unknown]) /\ LatestTry(Unknown) \in Nat
  BY <1>1, Shapes, RowFacts
<1>3. /\ status \in {"completed", "retry_ready", "abandoned_unknown"} /\ effect \in EffectStatus
      /\ resolution \in Resolutions /\ (status = "retry_ready" => resolution = "confirm_failed_retry_safe")
      /\ effect = "pending" <=> status = "retry_ready"
      /\ effect # "outcome_unknown"
  BY DEF Answers, EffectStatus, Resolutions
<1>4. PICK counted : counted
  OBVIOUS
<1>5. /\ Lawful(counted, ledger[Unknown], s) /\ Len(s.tries) = LatestTry(Unknown)
      /\ LatestTry(Unknown) > 0 => s.tries[LatestTry(Unknown)].status = LastTry(Unknown).status
  BY <1>2, <1>3, <1>4, ResolvedRow
<1>6. s.status = status /\ s.effect = effect
  BY <1>2 DEF Resolved, CallRow
<1>7. s \in CallRow /\ Keeps(ledger[Unknown], s)
  BY <1>5 DEF Lawful
<1>8. s.tries # <<>> => LastOf(s).status = "outcome_unknown"
  <2>1. s.tries # <<>> => LatestTry(Unknown) > 0
    BY <1>5, <1>7 DEF CallRow
  <2>2. LastTry(Unknown).status = "outcome_unknown"
    BY DEF Resolvable
  <2> QED BY <1>5, <2>1, <2>2 DEF LastOf
<1>9. RowAgrees(s)
  BY <1>3, <1>6, <1>8 DEF RowAgrees
<1>10. MadeFor(s, Len(attempts))
  <2>1. MadeFor(ledger[Unknown], Len(attempts))
    BY <1>1, AreMadeFor
  <2>2. DOMAIN s.tries = DOMAIN ledger[Unknown].tries
    BY <1>2, <1>5, <1>7 DEF CallRow, LatestTry
  <2> QED BY <1>7, <2>1, <2>2 DEF Keeps, MadeFor
<1> QED BY <1>6, <1>9, <1>10

\* The node goes on with what was said.
LEMMA AnswerAgrees ==
  ASSUME Agreement, LedgerInv', Resolvable, GoesOn, NEW status \in {"completed", "retry_ready"},
         NEW effect, NEW resolution, <<status, effect, resolution>> \in Answers,
         ledger' = [ledger EXCEPT ![Unknown] = Resolved(status, effect, resolution)],
         ckpt' = Marked(ckpt, Unknown, status)
  PROVE  Agreement'
<1>1. PICK c, s, new : c = Unknown /\ s = Resolved(status, effect, resolution) /\ new = Marked(ckpt, c, status)
  OBVIOUS
<1>2. /\ Live /\ Going /\ wait.kind # "none" /\ c \in Calls /\ StatusIn(ckpt, c) = "outcome_unknown"
      /\ \A d \in Calls : d # c => ledger[d].status # "outcome_unknown"
  BY <1>1, UnknownCall
<1>3. RowAgrees(s) /\ MadeFor(s, Len(attempts)) /\ s.status = status
  BY <1>1, ResolvedAgrees
<1>4. MarkedTo(new, c, status)
  BY <1>1, <1>2, MarkedSays
<1>5. ckpt' = new /\ ledger' = [ledger EXCEPT ![c] = s] /\ RowsShaped
  BY <1>1, Shapes
<1>6. \A d \in Calls : ledger'[d] = IF d = c THEN s ELSE ledger[d]
  BY <1>5 DEF RowsShaped
<1>7. /\ \A d \in Calls : StatusIn(new, d) = IF d = c THEN status ELSE StatusIn(ckpt, d)
      /\ new.by = ckpt.by /\ new.model = ckpt.model /\ new.calls = ckpt.calls
      /\ new.repairing = ckpt.repairing /\ new.count.no = ckpt.count.no /\ DOMAIN new.batch = DOMAIN ckpt.batch
      /\ new.status \in {ckpt.status, status}
  BY <1>4 DEF MarkedTo
<1>8. /\ \A d \in Calls : StatusIn(ckpt, d) # "running"
      /\ ckpt.status # "prepared" /\ Current \in Nat
  BY <1>2, Awaiting
<1>9. CallsAgree'
  <2>1. s.status \notin {"absent", "requested"} /\ StatusIn(ckpt', c) = s.status /\ RowsShaped
    BY <1>2, <1>3, <1>5, <1>7, Shapes
  <2>2. \A d \in Calls : d # c => StatusIn(ckpt', d) = StatusIn(ckpt, d)
    BY <1>5, <1>7
  <2>3. CallsAgree
    BY <1>2 DEF Going
  <2> QED BY <1>2, <1>3, <1>5, <2>1, <2>2, <2>3, OneAgrees
<1>10. Steady'
  <2>1. Steady /\ 0 \notin Models /\ 0 \notin 1 .. MaxCounts /\ status \notin {"validated", "awaiting_approval"}
    BY <1>2, LedgerAssumption DEF Going, Models
  <2>2. CASE IsModel(c)
    <3>1. ckpt.model \in Models /\ new.status = status /\ new.batch = ckpt.batch
      BY <1>4, <2>2 DEF MarkedTo
    <3>2. new.count = ckpt.count
      BY <1>2, <1>4, <2>2, Names DEF MarkedTo
    <3>3. ckpt.status = "outcome_unknown"
      BY <1>2, <2>2 DEF StatusIn
    <3> QED BY <1>5, <1>7, <2>1, <3>1, <3>2, <3>3 DEF Steady
  <2>3. CASE ~IsModel(c) /\ IsCount(c)
    <3>1. new.count.status = status /\ ckpt.count.no \in 1 .. MaxCounts /\ new.status = ckpt.status
      BY <1>4, <2>3 DEF MarkedTo
    <3>2. ckpt.count.status = "outcome_unknown"
      BY <1>2, <2>3 DEF StatusIn
    <3>3. ~(ckpt.model > 0)
      BY <2>1, <3>2 DEF Steady, OpenStatus
    <3>4. new.batch = <<>> <=> ckpt.batch = <<>>
      <4>1. \A q \in Seq(CallStatus) : q = <<>> <=> DOMAIN q = {}
        OBVIOUS
      <4>2. ckpt.batch \in Seq(CallStatus) /\ new.batch \in Seq(CallStatus)
        BY <1>5, Shapes DEF LedgerInv, Shaped, CheckpointsShaped, IsCheckpoint
      <4> QED BY <1>7, <4>1, <4>2
    <3> QED BY <1>5, <1>7, <2>1, <3>1, <3>3, <3>4 DEF Steady
  <2>4. CASE ~IsModel(c) /\ ~IsCount(c)
    <3>1. new.status = ckpt.status /\ new.count = ckpt.count /\ ckpt.batch # <<>> /\ ckpt.model \in Models
      BY <1>4, <2>4 DEF MarkedTo
    <3> QED BY <1>5, <1>7, <2>1, <3>1 DEF Steady
  <2> QED BY <2>2, <2>3, <2>4
<1>11. \A d \in Calls : StatusIn(new, d) # "running"
  BY <1>7, <1>8
<1>12. new.status # "prepared" /\ new.by \in {ckpt.by, Current + 1}
  BY <1>7, <1>8
<1>13. \A d \in Calls : /\ ledger'[d].status # "outcome_unknown"
                        /\ MadeFor(ledger'[d], Current + 1) /\ MadeFor(ledger'[d], Current)
  <2> SUFFICES ASSUME NEW d \in Calls
               PROVE  /\ ledger'[d].status # "outcome_unknown"
                      /\ MadeFor(ledger'[d], Current + 1) /\ MadeFor(ledger'[d], Current)
    OBVIOUS
  <2>1. MadeFor(ledger'[d], Current) /\ ledger'[d].status # "outcome_unknown"
    BY <1>2, <1>3, <1>6, AreMadeFor DEF Current
  <2>2. MadeFor(ledger'[d], Current + 1)
    BY <1>8, <2>1 DEF MadeFor
  <2> QED BY <2>1, <2>2
<1>14. /\ attempts' = Append(attempts, Queued) /\ MayRequeue /\ node' = "ready" /\ wait' = NoWait
       /\ run' \in {run, Restarted} /\ wakeups' \in {wakeups, wakeups \cup {"ready"}} /\ UNCHANGED <<other, exec>>
  BY DEF GoesOn, Requeued
<1>15. ckpt' = new /\ new.model = ckpt.model /\ new.count.no = ckpt.count.no /\ new.calls = ckpt.calls
  BY <1>5, <1>7
<1>16. Live /\ wait.kind # "none"
  BY <1>2
<1> HIDE DEF Live
<1> QED BY <1>9, <1>10, <1>11, <1>12, <1>13, <1>14, <1>15, <1>16, TakenUp

\* A person says that the call happened, or that it may be made again.
LEMMA ConfirmAgrees ==
  ASSUME Agreement, LedgerInv', ConfirmSucceeded \/ ConfirmFailed
  PROVE  Agreement'
<1>1. CASE ConfirmSucceeded
  <2>1. /\ Resolvable /\ GoesOn /\ ckpt' = Marked(ckpt, Unknown, "completed")
        /\ ledger' = [ledger EXCEPT ![Unknown] = Resolved("completed", "succeeded", "confirm_succeeded")]
    BY <1>1 DEF ConfirmSucceeded
  <2>2. <<"completed", "succeeded", "confirm_succeeded">> \in Answers
    BY DEF Answers
  <2> QED BY <2>1, <2>2, AnswerAgrees
<1>2. CASE ConfirmFailed
  <2>1. /\ Resolvable /\ GoesOn /\ ckpt' = Marked(ckpt, Unknown, "retry_ready")
        /\ ledger' = [ledger EXCEPT ![Unknown] = Resolved("retry_ready", "pending", "confirm_failed_retry_safe")]
    BY <1>2 DEF ConfirmFailed
  <2>2. <<"retry_ready", "pending", "confirm_failed_retry_safe">> \in Answers
    BY DEF Answers
  <2> QED BY <2>1, <2>2, AnswerAgrees
<1> QED BY <1>1, <1>2

\* A checkpoint with the call c in another status.
LEMMA MarkedIn ==
  ASSUME NEW ck, IsCheckpoint(ck), NEW c \in Calls, StatusIn(ck, c) # "absent", NEW status,
         NEW new, new = Marked(ck, c, status)
  PROVE  /\ \A d \in Calls : StatusIn(new, d) = IF d = c THEN status ELSE StatusIn(ck, d)
         /\ new.by = ck.by /\ new.model = ck.model /\ new.count.no = ck.count.no /\ new.calls = ck.calls
<1>1. CASE IsModel(c)
  <2>1. c[1] = ck.model /\ c[1] \in Models /\ c = <<c[1]>>
    BY <1>1, CallForms DEF StatusIn
  <2>2. new = [ck EXCEPT !.status = status]
    BY <1>1 DEF Marked
  <2>3. /\ new.status = status /\ new.by = ck.by /\ new.model = ck.model /\ new.calls = ck.calls
        /\ new.count = ck.count /\ new.batch = ck.batch
    BY <2>2 DEF IsCheckpoint
  <2> QED BY <2>1, <2>3, ModelSays
<1>2. CASE ~IsModel(c) /\ IsCount(c)
  <2>1. c[2] = ck.count.no /\ c[2] \in 1 .. MaxCounts /\ c = <<0, c[2]>>
    BY <1>2, CallForms, Names DEF StatusIn
  <2>2. new = [ck EXCEPT !.count.status = status]
    BY <1>2 DEF Marked
  <2>3. /\ new.status = ck.status /\ new.by = ck.by /\ new.model = ck.model /\ new.calls = ck.calls
        /\ new.batch = ck.batch /\ new.count.no = ck.count.no /\ new.count.status = status
    BY <2>2 DEF IsCheckpoint, CountState
  <2> QED BY <2>1, <2>3, CountSays
<1>3. CASE ~IsModel(c) /\ ~IsCount(c)
  <2>1. c[1] = ck.model /\ c[2] \in DOMAIN ck.batch
    BY <1>3 DEF StatusIn
  <2>2. new = [ck EXCEPT !.batch = [ck.batch EXCEPT ![c[2]] = status]]
    BY <1>3 DEF Marked, IsCheckpoint
  <2>3. /\ new.status = ck.status /\ new.by = ck.by /\ new.model = ck.model /\ new.calls = ck.calls
        /\ new.count = ck.count /\ new.batch = [ck.batch EXCEPT ![c[2]] = status]
    BY <2>2 DEF IsCheckpoint
  <2>4. ck.batch \in Seq(CallStatus)
    BY DEF IsCheckpoint
  <2>5. /\ DOMAIN new.batch = DOMAIN ck.batch /\ new.batch[c[2]] = status
        /\ \A j \in DOMAIN ck.batch : j # c[2] => new.batch[j] = ck.batch[j]
    BY <2>1, <2>3, <2>4
  <2>6. new.count.no = ck.count.no /\ new.count.status = ck.count.status
    BY <2>3
  <2> QED BY <1>3, <2>1, <2>3, <2>5, <2>6, ToolSays
<1> QED BY <1>1, <1>2, <1>3

\* A person gives up the call, and the run with it.
LEMMA AbortAgrees ==
  ASSUME Agreement, LedgerInv', ~LateExecutors, AbortRun
  PROVE  Agreement'
<1>1. /\ Resolvable /\ LapseAll /\ run' = [status |-> "cancelled", epoch |-> run.epoch + 1]
      /\ node' = "cancelled" /\ other' = FALSE /\ wakeups' = {} /\ wait' = NoWait
  BY DEF AbortRun
<1>2. PICK c, s, fenced, new :
         /\ c = Unknown /\ s = Resolved("abandoned_unknown", "abandoned_unknown", "abort_run")
         /\ fenced = FencedCheckpoint /\ new = Marked(fenced, c, "abandoned_unknown")
  OBVIOUS
<1>3. /\ Live /\ Going /\ c \in Calls /\ ledger[c].status = "outcome_unknown"
      /\ StatusIn(ckpt, c) = "outcome_unknown"
  BY <1>1, <1>2, UnknownCall
<1>4. ckpt' = new /\ ledger' = [d \in Calls |-> IF d = c THEN s ELSE Fenced(d)]
  BY <1>2 DEF AbortRun
<1>5. /\ \A d \in Calls : StatusIn(fenced, d) = FencedStatus(d, StatusIn(ckpt, d))
      /\ fenced.by = ckpt.by /\ fenced.model = ckpt.model /\ fenced.count.no = ckpt.count.no
      /\ fenced.calls = ckpt.calls /\ IsCheckpoint(fenced)
  BY <1>2, <1>3, FencedSays
<1>6. StatusIn(fenced, c) # "absent"
  <2>1. ledger[c] \in CallRow
    BY <1>3, Shapes, RowFacts
  <2>2. FencedStatus(c, "outcome_unknown") # "absent"
    <3>1. RowsShaped
      BY Shapes
    <3> QED BY <3>1, FencedStatuses
  <2> QED BY <1>3, <1>5, <2>2
<1>7. /\ \A d \in Calls : StatusIn(new, d) = IF d = c THEN "abandoned_unknown" ELSE StatusIn(fenced, d)
      /\ new.by = ckpt.by /\ new.model = ckpt.model /\ new.count.no = ckpt.count.no /\ new.calls = ckpt.calls
  BY <1>2, <1>3, <1>5, <1>6, MarkedIn
<1>8. ASSUME NEW d \in Calls PROVE DeadRow(StatusIn(ckpt', d), ledger'[d])
  <2>1. CASE d = c
    <3>1. <<"abandoned_unknown", "abandoned_unknown", "abort_run">> \in Answers
      BY DEF Answers
    <3>2. MadeFor(s, Len(attempts)) /\ s.status = "abandoned_unknown" /\ s.effect = "abandoned_unknown"
      BY <1>1, <1>2, <3>1, ResolvedAgrees
    <3> QED BY <1>4, <1>7, <2>1, <3>2 DEF DeadRow, Says
  <2>2. CASE d # c
    <3>1. DeadRow(FencedStatus(d, StatusIn(ckpt, d)), Fenced(d))
      BY <1>3, FencedIsDead
    <3>2. StatusIn(ckpt', d) = FencedStatus(d, StatusIn(ckpt, d)) /\ ledger'[d] = Fenced(d)
      BY <1>4, <1>5, <1>7, <2>2
    <3> QED BY <3>1, <3>2
  <2> QED BY <2>1, <2>2
<1>9. Len(attempts') = Len(attempts)
  <2>1. DOMAIN attempts' = DOMAIN attempts
    BY DEF AbortRun
  <2>2. /\ attempts \in Seq([status : AttemptStatus, epoch : Nat])
        /\ attempts' \in Seq([status : AttemptStatus, epoch : Nat])
    BY Shapes DEF LedgerInv, Shaped, RunShaped
  <2> QED BY <2>1, <2>2
<1>10. ~Live' /\ run'.epoch = run.epoch + 1
  BY <1>1 DEF Live, Terminal
<1>11. ckpt'.by = ckpt.by /\ ckpt'.model = ckpt.model /\ ckpt'.count.no = ckpt.count.no /\ ckpt'.calls = ckpt.calls
  BY <1>4, <1>7
<1> QED BY <1>1, <1>3, <1>8, <1>9, <1>10, <1>11, AllLapse, Dies

\* What people decide.
LEMMA PeopleAgree ==
  ASSUME Agreement, LedgerInv', ~LateExecutors, PeopleStep
  PROVE  Agreement'
<1>1. ASSUME NEW rejected \in SUBSET Rejectable, Approve(rejected) \/ Reject(rejected) PROVE Agreement'
  BY <1>1, ApproveAgrees, RejectAgrees
<1>2. CASE DecideProposals
  BY <1>2, ProposalsAgree
<1>3. CASE ExpireApproval
  BY <1>3, RunEndsAgree
<1>4. CASE ConfirmSucceeded \/ ConfirmFailed
  BY <1>4, ConfirmAgrees
<1>5. CASE AbortRun
  BY <1>5, AbortAgrees
<1> QED BY <1>1, <1>2, <1>3, <1>4, <1>5 DEF PeopleStep

(***************************************************************************)
(* The lease of an attempt lapses, and nothing of it needs a person.       *)
(***************************************************************************)
\* What an attempt leaves behind: what it has sent, and what it has prepared.
LEMMA LeftBehind ==
  ASSUME Agreement, NEW a \in Attempts, Held(a), Live, NEW S, S = Started(a) \cup Pending(a)
  PROVE  /\ S \subseteq Calls
         /\ \A c \in S : ledger[c].status \in {"prepared", "running"}
         /\ \A c \in S : StatusIn(ckpt, c) = ledger[c].status
         /\ \A c \in S : LastTry(c).status # "started" => ledger[c].status = "prepared"
         /\ \A c \in Calls : StatusIn(ckpt, c) = "running" => c \in S
         /\ ckpt.status = "prepared" => <<ckpt.model>> \in S
<1>1. Going /\ a = Current
  BY HeldFacts
<1>2. ASSUME NEW c \in S
      PROVE  /\ c \in Calls /\ ledger[c].status \in {"prepared", "running"}
             /\ StatusIn(ckpt, c) = ledger[c].status
             /\ LastTry(c).status # "started" => ledger[c].status = "prepared"
  <2>1. c \in Calls /\ LatestTry(c) > 0 /\ LastTry(c).status \in {"started", "prepared"}
    BY DEF Started, Pending, TriedBy
  <2>2. ledger[c].tries # <<>> /\ LastOf(ledger[c]) = LastTry(c)
    BY <2>1 DEF LastOf, LastTry, LatestTry
  <2>3. RowAgrees(ledger[c])
    BY <1>1, <2>1 DEF Going, CallsAgree, Agrees
  <2>4. /\ ledger[c].status \in {"prepared", "running"}
        /\ LastTry(c).status # "started" => ledger[c].status = "prepared"
    BY <2>1, <2>2, <2>3 DEF RowAgrees
  <2> QED BY <1>1, <2>1, <2>4, OpenIsSaid DEF OpenStatus
<1>3. ASSUME NEW c \in Calls, NEW t, ledger[c].status = t, t \in {"prepared", "running"}, LastTry(c).by = a
      PROVE  c \in S
  <2>1. RowAgrees(ledger[c])
    BY <1>1 DEF Going, CallsAgree, Agrees
  <2>2. LastTry(c) = LastOf(ledger[c])
    BY DEF LastOf, LastTry, LatestTry
  <2>3. ledger[c].tries # <<>> /\ LastTry(c).status \in {"started", "prepared"}
    BY <1>3, <2>1, <2>2 DEF RowAgrees
  <2>4. LatestTry(c) > 0
    BY <2>3, Shapes, RowFacts
  <2> QED BY <1>3, <2>3, <2>4 DEF Started, Pending, TriedBy
<1>4. ASSUME NEW c \in Calls, StatusIn(ckpt, c) = "running" PROVE c \in S
  <2>1. ledger[c].status = "running"
    BY <1>1, <1>4, SaidIsSo
  <2>2. LastTry(c).by = a
    BY <1>1, <1>4 DEF Going, InProgress, SentFits
  <2> QED BY <1>3, <2>1, <2>2
<1>5. ASSUME ckpt.status = "prepared" PROVE <<ckpt.model>> \in S
  <2>1. ckpt.model \in Models
    <3>1. ckpt.model # 0
      BY <1>1, <1>5 DEF Going, Steady
    <3> QED BY <3>1, Shapes, LedgerAssumption DEF Models
  <2>2. PICK c : c = <<ckpt.model>>
    OBVIOUS
  <2>3. c \in Calls /\ IsModel(c) /\ c[1] = ckpt.model
    BY <2>1, <2>2, Names
  <2>4. StatusIn(ckpt, c) = "prepared"
    BY <1>5, <2>3 DEF StatusIn
  <2>5. ledger[c].status = "prepared"
    BY <1>1, <2>3, <2>4, SaidIsSo
  <2>6. LastTry(c).by = a
    BY <1>1, <1>5, <2>2 DEF Going, InProgress, ModelFits
  <2> QED BY <1>3, <2>2, <2>3, <2>5, <2>6
<1> QED BY <1>2, <1>4, <1>5

\* The checkpoint with some calls to be made again.
LEMMA ReopenedSays ==
  ASSUME Agreement, NEW S, S \subseteq Calls, \A c \in S : StatusIn(ckpt, c) # "absent",
         NEW new, new = ReopenedIn(ckpt, S)
  PROVE  /\ \A c \in Calls : StatusIn(new, c) = IF c \in S THEN "retry_ready" ELSE StatusIn(ckpt, c)
         /\ new.by = ckpt.by /\ new.model = ckpt.model /\ new.count.no = ckpt.count.no /\ new.calls = ckpt.calls
         /\ new.repairing = ckpt.repairing /\ DOMAIN new.batch = DOMAIN ckpt.batch
         /\ new.count.status = IF <<0, ckpt.count.no>> \in S THEN "retry_ready" ELSE ckpt.count.status
         /\ new.status = IF <<ckpt.model>> \in S THEN "retry_ready" ELSE ckpt.status
<1>1. IsCheckpoint(ckpt)
  BY Shapes
<1> DEFINE count == IF <<0, ckpt.count.no>> \in S THEN "retry_ready" ELSE ckpt.count.status
           status == IF <<ckpt.model>> \in S THEN "retry_ready" ELSE ckpt.status
           batch == [i \in DOMAIN ckpt.batch |-> IF Tool(ckpt, i) \in S THEN "retry_ready" ELSE ckpt.batch[i]]
<1>2. new = [ckpt EXCEPT !.count.status = count, !.status = status, !.batch = batch]
  BY <1>1 DEF ReopenedIn, IsCheckpoint, CountState
<1>3. /\ new.by = ckpt.by /\ new.model = ckpt.model /\ new.count.no = ckpt.count.no /\ new.calls = ckpt.calls
      /\ new.repairing = ckpt.repairing /\ new.count.status = count /\ new.status = status /\ new.batch = batch
  BY <1>1, <1>2 DEF IsCheckpoint, CountState
<1>4. ASSUME NEW c \in Calls PROVE StatusIn(new, c) = IF c \in S THEN "retry_ready" ELSE StatusIn(ckpt, c)
  <2>1. StatusIn(ckpt, c) = "absent" => c \notin S
    OBVIOUS
  <2>2. CASE IsModel(c)
    <3>1. c = <<c[1]>>
      BY <2>2, CallForms
    <3>2. CASE c[1] = ckpt.model
      BY <1>3, <2>2, <3>1, <3>2 DEF StatusIn
    <3>3. CASE c[1] # ckpt.model
      BY <1>3, <2>1, <2>2, <3>3 DEF StatusIn
    <3> QED BY <3>2, <3>3
  <2>3. CASE ~IsModel(c) /\ IsCount(c)
    <3>1. c = <<0, c[2]>>
      BY <2>3, CallForms
    <3>2. CASE c[2] = ckpt.count.no
      BY <1>3, <2>3, <3>1, <3>2 DEF StatusIn
    <3>3. CASE c[2] # ckpt.count.no
      BY <1>3, <2>1, <2>3, <3>3 DEF StatusIn
    <3> QED BY <3>2, <3>3
  <2>4. CASE ~IsModel(c) /\ ~IsCount(c)
    <3>1. c = <<c[1], c[2]>>
      BY <2>4, CallForms DEF IsTool
    <3>2. CASE c[1] = ckpt.model /\ c[2] \in DOMAIN ckpt.batch
      <4>1. Tool(ckpt, c[2]) = c
        BY <3>1, <3>2 DEF Tool
      <4> QED BY <1>3, <2>4, <3>2, <4>1 DEF StatusIn
    <3>3. CASE ~(c[1] = ckpt.model /\ c[2] \in DOMAIN ckpt.batch)
      BY <1>3, <2>1, <2>4, <3>3 DEF StatusIn
    <3> QED BY <3>2, <3>3
  <2> QED BY <2>2, <2>3, <2>4
<1> QED BY <1>3, <1>4

\* What may be repeated is left to the next attempt.
LEMMA RecoverLeaseAgrees ==
  ASSUME Agreement, LedgerInv', ~LateExecutors, NEW a \in Attempts, RecoverLease(a)
  PROVE  Agreement'
<1>1. PICK S, new : S = Started(a) \cup Pending(a) /\ new = ReopenedIn(ckpt, S)
  OBVIOUS
<1>2. /\ Held(a) /\ Live /\ a < MaxAttempts /\ run.status \in {"running", "interrupting"}
      /\ ledger' = [c \in Calls |-> IF c \in S THEN Reopened(c) ELSE ledger[c]] /\ ckpt' = new
      /\ attempts' = Append(WithStatus(a, "failed"), Queued) /\ node' = "ready"
      /\ wakeups' = (wakeups \ {"claimed"}) \cup {"ready"} /\ run' = Drained /\ Lapse(a) /\ UNCHANGED <<other, wait>>
  BY <1>1 DEF RecoverLease, Expired, Live, Terminal
<1>3. /\ Going /\ a = Current /\ a \in DOMAIN attempts /\ wait = NoWait /\ RunShaped /\ Bounded
      /\ \A c \in Calls : ledger[c].status # "outcome_unknown"
  BY <1>2, HeldFacts, Shapes DEF Agreement
<1>4. /\ S \subseteq Calls
      /\ \A c \in S : ledger[c].status \in {"prepared", "running"}
      /\ \A c \in S : StatusIn(ckpt, c) = ledger[c].status
      /\ \A c \in S : LastTry(c).status # "started" => ledger[c].status = "prepared"
      /\ \A c \in Calls : StatusIn(ckpt, c) = "running" => c \in S
      /\ ckpt.status = "prepared" => <<ckpt.model>> \in S
  BY <1>1, <1>2, LeftBehind
<1>5. /\ \A c \in Calls : StatusIn(new, c) = IF c \in S THEN "retry_ready" ELSE StatusIn(ckpt, c)
      /\ new.by = ckpt.by /\ new.model = ckpt.model /\ new.count.no = ckpt.count.no /\ new.calls = ckpt.calls
      /\ new.repairing = ckpt.repairing /\ DOMAIN new.batch = DOMAIN ckpt.batch
      /\ new.count.status = IF <<0, ckpt.count.no>> \in S THEN "retry_ready" ELSE ckpt.count.status
      /\ new.status = IF <<ckpt.model>> \in S THEN "retry_ready" ELSE ckpt.status
  BY <1>1, <1>4, ReopenedSays
<1>6. Len(attempts') = a + 1 /\ DOMAIN attempts' = 1 .. a + 1 /\ Current' = a + 1 /\ a \in Nat \ {0}
  <2>1. PICK A : A = WithStatus(a, "failed")
    OBVIOUS
  <2>2. A \in Seq([status : AttemptStatus, epoch : Nat]) /\ Len(A) = Len(attempts)
    BY <1>3, <2>1, WithStatusForm DEF AttemptStatus
  <2>3. Queued \in [status : AttemptStatus, epoch : Nat]
    BY <1>3 DEF Queued, RunShaped, AttemptStatus
  <2>4. attempts' = Append(A, Queued) /\ a = Len(attempts)
    BY <1>2, <1>3, <2>1 DEF Current
  <2>5. a \in Nat \ {0}
    BY <1>3, IsThere
  <2> QED BY <2>2, <2>3, <2>4, <2>5 DEF Current
<1>7. ASSUME NEW c \in Calls
      PROVE  /\ c \in S => ledger'[c].status = "retry_ready" /\ RowAgrees(ledger'[c])
             /\ c \notin S => ledger'[c] = ledger[c]
             /\ MadeFor(ledger'[c], a)
  <2>1. CASE c \in S
    <3>1. PICK t : t = IF LastTry(c).status = "started" THEN "outcome_unknown" ELSE "superseded_before_start"
      OBVIOUS
    <3>2. PICK s : s = Moved(c, "retry_ready", "pending", t)
      OBVIOUS
    <3>3. ledger'[c] = s
      BY <1>2, <2>1, <3>1, <3>2 DEF Reopened
    <3>5. <<"retry_ready", "pending", t>> \in Moves
      BY <3>1 DEF Moves
    <3>6. t # "superseded_before_start" \/ ledger[c].status = "prepared"
      BY <1>4, <2>1, <3>1
    <3>7. RowAgrees(s) /\ MadeFor(s, Len(attempts)) /\ s.status = "retry_ready"
      BY <1>3, <1>4, <2>1, <3>2, <3>5, <3>6, MovesOn
    <3> QED BY <1>3, <2>1, <3>3, <3>7 DEF Current
  <2>2. CASE c \notin S
    BY <1>2, <1>3, <2>2, AreMadeFor DEF Current
  <2> QED BY <2>1, <2>2
<1>8. CallsAgree'
  <2> SUFFICES ASSUME NEW c \in Calls PROVE Agrees(StatusIn(new, c), ledger'[c])
    BY <1>2 DEF CallsAgree
  <2>1. CASE c \in S
    BY <1>5, <1>7, <2>1 DEF Agrees, Says
  <2>2. CASE c \notin S
    BY <1>3, <1>5, <1>7, <2>2 DEF Going, CallsAgree
  <2> QED BY <2>1, <2>2
<1>9. Steady'
  <2>1. Steady /\ 0 \notin Models /\ 0 \notin 1 .. MaxCounts
    BY <1>3, LedgerAssumption DEF Going, Models
  <2>2. <<0, ckpt.count.no>> \in S => ckpt.count.no # 0 /\ ckpt.count.status \in OpenStatus
    <3> SUFFICES ASSUME <<0, ckpt.count.no>> \in S PROVE ckpt.count.no # 0 /\ ckpt.count.status \in OpenStatus
      OBVIOUS
    <3>1. PICK c : c = <<0, ckpt.count.no>>
      OBVIOUS
    <3>2. c \in Calls /\ IsCount(c) /\ c[2] = ckpt.count.no /\ StatusIn(ckpt, c) \in OpenStatus
      BY <1>4, <3>1 DEF IsCount, OpenStatus
    <3>3. ~IsModel(c) /\ c[2] \in 1 .. MaxCounts
      BY <3>2, Names
    <3> QED BY <2>1, <3>2, <3>3 DEF StatusIn
  <2>3. <<ckpt.model>> \in S => ckpt.model # 0 /\ ckpt.status \in {"prepared", "running"}
    <3> SUFFICES ASSUME <<ckpt.model>> \in S PROVE ckpt.model # 0 /\ ckpt.status \in {"prepared", "running"}
      OBVIOUS
    <3>1. PICK c : c = <<ckpt.model>>
      OBVIOUS
    <3>2. c \in Calls /\ IsModel(c) /\ c[1] = ckpt.model /\ StatusIn(ckpt, c) \in {"prepared", "running"}
      BY <1>4, <3>1 DEF IsModel
    <3>3. c[1] \in Models
      BY <3>2, Names
    <3> QED BY <2>1, <3>2, <3>3 DEF StatusIn
  <2>4. new.batch = <<>> <=> ckpt.batch = <<>>
    <3>1. \A q \in Seq(CallStatus) : q = <<>> <=> DOMAIN q = {}
      OBVIOUS
    <3>2. ckpt.batch \in Seq(CallStatus) /\ new.batch \in Seq(CallStatus)
      BY <1>2, Shapes DEF LedgerInv, Shaped, CheckpointsShaped, IsCheckpoint
    <3> QED BY <1>5, <3>1, <3>2
  <2> QED BY <1>2, <1>5, <2>1, <2>2, <2>3, <2>4 DEF Steady
<1>10. InProgress'
  <2>1. (\A c \in Calls : StatusIn(ckpt', c) # "running") /\ ckpt'.status # "prepared"
    BY <1>2, <1>4, <1>5
  <2>2. PreparedFits'
    <3> SUFFICES ASSUME NEW c \in Calls, ledger'[c].status = "prepared", LastTry(c)'.by = a + 1
                 PROVE  FALSE
      BY <1>6 DEF PreparedFits
    <3>1. ledger'[c] \in CallRow /\ LastTry(c)' = ledger'[c].tries[Len(ledger'[c].tries)]
      BY DEF LedgerInv, Shaped, RowsShaped, LastTry, LatestTry
    <3>2. RowAgrees(ledger'[c])
      BY <1>8 DEF CallsAgree, Agrees
    <3>3. Len(ledger'[c].tries) \in DOMAIN ledger'[c].tries
      BY <3>1, <3>2 DEF RowAgrees, CallRow
    <3>4. LastTry(c)'.by \in 1 .. a
      BY <1>7, <3>1, <3>3 DEF MadeFor
    <3> QED BY <1>6, <3>4
  <2> QED BY <2>1, <2>2 DEF InProgress, SentFits, ModelFits
<1>11. \A b \in Attempts : exec'[b].pc = "gone"
  BY <1>2, Lapsed
<1>12. WaitFits'
  <2>1. \A c \in Calls : ledger'[c].status # "outcome_unknown"
    BY <1>3, <1>7
  <2> QED BY <1>2, <1>3, <2>1 DEF WaitFits, NoWait
<1>13. Live' /\ run'.epoch = run.epoch /\ (run'.status = "interrupted" => ~other)
  BY <1>2, <1>3 DEF Live, Drained, Terminal, RunShaped
<1>14. Finished'
  BY <1>2, <1>3, <1>13 DEF Finished, Going
<1>15. Bounded'
  <2>1. ModelsBounded'
    BY <1>2, <1>3, <1>5 DEF Bounded, ModelsBounded
  <2>2. TriesBounded'
    BY <1>6, <1>7 DEF TriesBounded, MadeFor
  <2>3. RunBounded'
    <3>1. a + 1 \in 1 .. MaxAttempts
      BY <1>2, <1>6, LedgerAssumption
    <3> QED BY <1>2, <1>3, <1>6, <1>13, <3>1 DEF Bounded, RunBounded, Active
  <2> QED BY <2>1, <2>2, <2>3 DEF Bounded
<1>16. NoneLate' /\ \A b \in Attempts : StepFits(b)'
  BY <1>11 DEF NoneLate, StepFits
<1> QED BY <1>8, <1>9, <1>10, <1>12, <1>13, <1>14, <1>15, <1>16 DEF Agreement, Going

(***************************************************************************)
(* The run around the node.                                                *)
(***************************************************************************)
\* The node, its calls and its executors stay as they are.
Quiet == UNCHANGED <<attempts, ledger, ckpt, wait, exec>>

\* ... and so does what is said of them.
LEMMA QuietAgrees ==
  ASSUME Agreement, Quiet
  PROVE  /\ ModelsBounded' /\ TriesBounded' /\ NoneLate'
         /\ Going => CallsAgree' /\ Steady' /\ (\A a \in Attempts : StepFits(a)') /\ InProgress' /\ WaitFits'
<1> USE DEF Quiet
<1>1. ModelsBounded' /\ TriesBounded'
  BY DEF Agreement, Bounded, ModelsBounded, TriesBounded
<1>2. NoneLate'
  BY DEF Agreement, NoneLate, Held
<1>3. ASSUME Going PROVE CallsAgree' /\ Steady'
  BY <1>3 DEF Going, CallsAgree, Steady
<1>4. ASSUME Going, NEW a \in Attempts PROVE StepFits(a)'
  <2>1. StepFits(a)
    BY <1>4 DEF Going
  <2>2. \A c : Watermark(c)' = Watermark(c)
    BY DEF Watermark, LatestTry
  <2> QED BY <2>1, <2>2 DEF StepFits, Plans, Tool, Watermark, LatestTry
<1>5. ASSUME Going PROVE InProgress'
  <2>1. SentFits'
    BY <1>5 DEF Going, InProgress, SentFits, Held, Current, LastTry, Watermark, LatestTry
  <2>2. ModelFits'
    BY <1>5 DEF Going, InProgress, ModelFits, Held, Current, LastTry, LatestTry
  <2>3. PreparedFits'
    BY <1>5 DEF Going, InProgress, PreparedFits, Current, LastTry, LatestTry
  <2> QED BY <2>1, <2>2, <2>3 DEF InProgress
<1>6. ASSUME Going PROVE WaitFits'
  BY <1>6 DEF Going, WaitFits
<1> QED BY <1>1, <1>2, <1>3, <1>4, <1>5, <1>6

\* The run goes on beside them.
LEMMA RunGoesOn ==
  ASSUME Agreement, LedgerInv', Quiet, Live, Live', UNCHANGED node, run'.epoch \in 0 .. MaxEpoch,
         other' \in BOOLEAN, wakeups' \subseteq {"ready", "claimed", "settle"},
         "settle" \in wakeups' \/ run'.status = "interrupted" => ~other',
         node = "completed" => wakeups' \subseteq {"settle"}
  PROVE  Agreement'
<1>1. Going /\ Bounded /\ MaxEpoch \in Nat
  BY LedgerAssumption DEF Agreement
<1>2. RunBounded'
  BY <1>1 DEF Bounded, RunBounded, Quiet
<1>3. Finished'
  <2>1. node = "completed" =>
          /\ \A c \in Calls : ledger[c].status \notin OpenStatus
          /\ wait = NoWait /\ attempts[Current].status = "completed"
    BY <1>1 DEF Going, Finished
  <2> QED BY <2>1 DEF Finished, Quiet, Current
<1>4. ModelsBounded' /\ TriesBounded' /\ NoneLate' /\ CallsAgree' /\ Steady' /\ InProgress' /\ WaitFits'
  BY <1>1, QuietAgrees
<1>5. \A a \in Attempts : StepFits(a)'
  BY <1>1, QuietAgrees
<1> QED BY <1>2, <1>3, <1>4, <1>5 DEF Agreement, Going, Bounded

\* The run is completed when the node is and nothing else is at work.
LEMMA RunCompletes ==
  ASSUME Agreement, LedgerInv', Quiet, Live, node = "completed", UNCHANGED node,
         run' = [run EXCEPT !.status = "completed"], other' \in BOOLEAN, wakeups' = {}
  PROVE  Agreement'
<1>1. /\ Going /\ Bounded /\ MaxEpoch \in Nat /\ RunShaped /\ NoneLate
  BY Shapes, LedgerAssumption DEF Agreement
<1>2. /\ \A c \in Calls : ledger[c].status \notin OpenStatus
      /\ wait = NoWait /\ attempts[Current].status = "completed"
  BY <1>1 DEF Going, Finished
<1>3. ~Live' /\ run'.epoch = run.epoch
  BY <1>1 DEF Live, Terminal, RunShaped
<1>4. RunBounded'
  BY <1>1, <1>3 DEF Bounded, RunBounded, Quiet
<1>5. TerminalIsFenced'
  <2>1. \A c \in Calls : /\ ledger[c].effect \notin {"pending", "outcome_unknown"}
                         /\ ledger[c].status \notin {"validated", "awaiting_approval", "prepared", "running"}
    BY <1>1, <1>2 DEF Going, CallsAgree, Agrees, RowAgrees, OpenStatus
  <2> QED BY <1>2, <2>1 DEF TerminalIsFenced, Quiet, Active
<1>6. CheckpointMatchesLedger'
  BY <1>1 DEF Going, CallsAgree, Agrees, Says, CheckpointMatchesLedger, Quiet
<1>7. \A a \in Attempts : exec'[a].pc = "gone"
  <2>1. \A a : ~Held(a)
    <3>1. OneAtWork /\ RunShaped
      BY Shapes
    <3> QED BY <1>2, <3>1 DEF OneAtWork, RunShaped, Held, Current
  <2> QED BY <1>1, <2>1 DEF NoneLate, Quiet
<1>8. ModelsBounded' /\ TriesBounded' /\ NoneLate'
  BY QuietAgrees
<1> QED BY <1>3, <1>4, <1>5, <1>6, <1>7, <1>8 DEF Agreement, AtRest, Bounded

\* The run settles.
LEMMA SettleAgrees ==
  ASSUME Agreement, LedgerInv', Settle
  PROVE  Agreement'
<1>1. /\ Live /\ run.status = "running" /\ "settle" \in wakeups /\ wakeups' = wakeups \ {"settle"} /\ Quiet
      /\ UNCHANGED <<node, other>>
  BY DEF Settle, Live, Terminal, Quiet
<1>2. Going /\ Bounded /\ RunShaped /\ ~other /\ other \in BOOLEAN /\ wakeups \subseteq {"ready", "claimed", "settle"}
      /\ run.epoch \in 0 .. MaxEpoch
  BY <1>1, Shapes DEF Agreement, Going, Finished, Bounded, RunBounded
<1>3. node = "completed" => wakeups \subseteq {"settle"}
  BY <1>2 DEF Going, Finished
<1>4. CASE node = "completed"
  <2>1. run' = [run EXCEPT !.status = "completed"]
    BY <1>1, <1>2, <1>4 DEF Settle
  <2>2. wakeups' = {}
    BY <1>1, <1>3, <1>4
  <2> QED BY <1>1, <1>2, <1>4, <2>1, <2>2, RunCompletes
<1>5. CASE node # "completed"
  <2>1. run'.status \in {"running", "waiting"} /\ run'.epoch = run.epoch
    BY <1>1, <1>2, <1>5 DEF Settle, Idled, RunShaped
  <2>2. Live'
    BY <2>1 DEF Live, Terminal
  <2> QED BY <1>1, <1>2, <1>5, <2>1, <2>2, RunGoesOn
<1> QED BY <1>4, <1>5

\* The other nodes of the run are over.
LEMMA OthersFinishAgrees ==
  ASSUME Agreement, LedgerInv', OthersFinish
  PROVE  Agreement'
<1>1. /\ Live /\ run.status \in {"running", "interrupting"} /\ other /\ other' = FALSE /\ Quiet
      /\ UNCHANGED <<node, wakeups>>
  BY DEF OthersFinish, Live, Terminal, Quiet
<1>2. Going /\ Bounded /\ RunShaped /\ "settle" \notin wakeups /\ wakeups \subseteq {"ready", "claimed", "settle"}
      /\ run.epoch \in 0 .. MaxEpoch
  BY <1>1, Shapes DEF Agreement, Going, Finished, Bounded, RunBounded
<1>3. node = "completed" => wakeups \subseteq {"settle"}
  BY <1>2 DEF Going, Finished
<1>4. CASE run.status = "running" /\ node = "completed"
  <2>1. run' = [run EXCEPT !.status = "completed"]
    BY <1>4 DEF OthersFinish
  <2>2. wakeups' = {}
    BY <1>1, <1>2, <1>3, <1>4
  <2> QED BY <1>1, <1>4, <2>1, <2>2, RunCompletes
<1>5. CASE ~(run.status = "running" /\ node = "completed")
  <2>1. run'.status \in {"running", "waiting", "interrupting", "interrupted"} /\ run'.epoch = run.epoch
    BY <1>1, <1>2, <1>5 DEF OthersFinish, RunShaped
  <2>2. Live'
    BY <2>1 DEF Live, Terminal
  <2> QED BY <1>1, <1>2, <1>3, <2>1, <2>2, RunGoesOn
<1> QED BY <1>4, <1>5

\* The run is interrupted, or taken up again.
LEMMA InterruptAgrees ==
  ASSUME Agreement, LedgerInv', Interrupt \/ Resume
  PROVE  Agreement'
<1>1. Live /\ Quiet /\ UNCHANGED <<node, other>> /\ run.epoch < MaxEpoch /\ run'.epoch = run.epoch + 1
  BY DEF Interrupt, Resume, Live, Terminal, Quiet
<1>2. /\ Going /\ Bounded /\ RunShaped /\ wakeups \subseteq {"ready", "claimed", "settle"} /\ other \in BOOLEAN
      /\ run.epoch \in 0 .. MaxEpoch
  BY <1>1, Shapes DEF Agreement, Bounded, RunBounded
<1>3. /\ "settle" \in wakeups \/ run.status = "interrupted" => ~other
      /\ node = "completed" => wakeups \subseteq {"settle"} /\ attempts[Current].status = "completed"
  BY <1>2 DEF Going, Finished
<1>4. run'.epoch \in 0 .. MaxEpoch
  BY <1>1, <1>2, LedgerAssumption
<1>5. CASE Interrupt
  <2>1. wakeups' = wakeups /\ run'.status \in {"interrupting", "interrupted"} /\ (run'.status = "interrupted" => ~other)
    BY <1>5 DEF Interrupt
  <2>2. Live'
    BY <2>1 DEF Live, Terminal
  <2> QED BY <1>1, <1>2, <1>3, <1>4, <2>1, <2>2, RunGoesOn
<1>6. CASE Resume
  <2>1. /\ run.status = "interrupted" /\ run'.status = "running"
        /\ wakeups' = wakeups \cup {"settle"} \cup (IF attempts[Current].status = "queued" THEN {"ready"} ELSE {})
    BY <1>6 DEF Resume
  <2>2. Live'
    BY <2>1 DEF Live, Terminal
  <2>3. wakeups' \subseteq {"ready", "claimed", "settle"} /\ (node = "completed" => wakeups' \subseteq {"settle"})
    BY <1>2, <1>3, <2>1
  <2> QED BY <1>1, <1>2, <1>3, <1>4, <2>1, <2>2, <2>3, RunGoesOn
<1> QED BY <1>5, <1>6

\* An attempt is claimed and its executor begins.
LEMMA BeginAgrees ==
  ASSUME Agreement, LedgerInv', Begin
  PROVE  Agreement'
<1>1. PICK a : a = Current
  OBVIOUS
<1>2. /\ run.status = "running" /\ attempts[a].status = "queued" /\ node' = "running"
      /\ attempts' = [attempts EXCEPT ![a] = [status |-> "running", epoch |-> run.epoch]]
      /\ wakeups' = (wakeups \ {"ready"}) \cup {"claimed"} /\ Step(a, "resume", NoCheckpoint)
      /\ UNCHANGED <<run, other, ledger, ckpt, wait>>
  BY <1>1 DEF Begin
<1>3. /\ Live /\ Going /\ Bounded /\ RunShaped /\ OneAtWork /\ NoneLate /\ CheckpointsShaped
  BY <1>2, Shapes DEF Agreement, Live, Terminal
<1>4. a \in DOMAIN attempts /\ a \in Attempts /\ a = Len(attempts)
  BY <1>1, <1>3 DEF OneAtWork, RunShaped, Current, Bounded, RunBounded, Attempts
<1>5. \A b : ~Held(b)
  BY <1>2, <1>3, <1>4 DEF OneAtWork, Held
<1>6. /\ DOMAIN attempts' = DOMAIN attempts /\ Len(attempts') = Len(attempts) /\ Current' = Current
      /\ Held(a)'
  BY <1>2, <1>3, <1>4 DEF RunShaped, Current, Held
<1>7. /\ exec'[a].pc = "resume" /\ \A b \in Attempts : b # a => exec'[b].pc = "gone"
  BY <1>2, <1>3, <1>4, <1>5 DEF Step, NoneLate, CheckpointsShaped, IsExecutor
<1>8. CallsAgree' /\ Steady' /\ WaitFits'
  BY <1>2, <1>3 DEF Going, CallsAgree, Steady, WaitFits
<1>9. InProgress'
  <2>1. (\A c \in Calls : StatusIn(ckpt, c) # "running") /\ ckpt.status # "prepared"
    BY <1>3, <1>5 DEF Going, InProgress, SentFits, ModelFits
  <2>2. PreparedFits'
    BY <1>2, <1>3, <1>6 DEF Going, InProgress, PreparedFits, LastTry, LatestTry
  <2> QED BY <1>2, <2>1, <2>2 DEF InProgress, SentFits, ModelFits
<1>10. Finished'
  BY <1>2, <1>3 DEF Going, Finished
<1>11. Bounded'
  <2>1. ModelsBounded' /\ TriesBounded'
    BY <1>2, <1>3, <1>6 DEF Bounded, ModelsBounded, TriesBounded
  <2>2. RunBounded'
    BY <1>2, <1>3, <1>6 DEF Bounded, RunBounded, Live, Active
  <2> QED BY <2>1, <2>2 DEF Bounded
<1>12. NoneLate' /\ \A b \in Attempts : StepFits(b)'
  BY <1>6, <1>7 DEF NoneLate, StepFits
<1>13. Live'
  BY <1>2, <1>3 DEF Live
<1> QED BY <1>8, <1>9, <1>10, <1>11, <1>12, <1>13 DEF Agreement, Going

\* Nothing happens.
LEMMA StutterAgrees ==
  ASSUME Agreement, LedgerInv', UNCHANGED vars
  PROVE  Agreement'
<1>1. /\ Quiet /\ UNCHANGED <<run, node, other, wakeups>>
  BY DEF vars, Quiet
<1>2. CASE Live
  <2>1. Live'
    BY <1>1, <1>2 DEF Live
  <2>2. /\ run.epoch \in 0 .. MaxEpoch /\ other \in BOOLEAN /\ wakeups \subseteq {"ready", "claimed", "settle"}
        /\ "settle" \in wakeups \/ run.status = "interrupted" => ~other
        /\ node = "completed" => wakeups \subseteq {"settle"}
    BY <1>2 DEF Agreement, Bounded, RunBounded, Going, Finished
  <2> QED BY <1>1, <1>2, <2>1, <2>2, RunGoesOn
<1>3. CASE ~Live
  <2>1. ~Live'
    BY <1>1, <1>3 DEF Live
  <2>2. AtRest'
    BY <1>1, <1>3 DEF Agreement, AtRest, TerminalIsFenced, CheckpointMatchesLedger, Quiet
  <2>3. RunBounded'
    BY <1>1 DEF Agreement, Bounded, RunBounded, Quiet, Live
  <2>4. ModelsBounded' /\ TriesBounded' /\ NoneLate'
    BY <1>1, QuietAgrees
  <2> QED BY <2>1, <2>2, <2>3, <2>4 DEF Agreement, Bounded
<1> QED BY <1>2, <1>3

(***************************************************************************)
(* The specification.                                                      *)
(***************************************************************************)
\* A node starts with nothing to agree on.
LEMMA InitAgrees ==
  ASSUME Init
  PROVE  Agreement
<1> USE DEF Init
<1>1. LedgerInv
  BY InitLedger
<1>2. Live
  BY DEF Live, Terminal
<1>3. \A c \in Calls : StatusIn(ckpt, c) = "absent"
  BY DEF StatusIn, NoCheckpoint, NoCount
<1>4. \A c \in Calls : ledger[c] = Absent
  OBVIOUS
<1>5. Absent.status = "absent" /\ Absent.effect = "none" /\ Absent.tries = <<>>
  BY DEF Absent
<1>6. CallsAgree
  <2>1. RowAgrees(Absent)
    BY <1>5 DEF RowAgrees
  <2> QED BY <1>3, <1>4, <1>5, <2>1 DEF CallsAgree, Agrees, Says, OpenStatus
<1>7. Steady
  BY DEF Steady, NoCheckpoint, NoCount, OpenStatus
<1>8. \A a \in Attempts : exec[a].pc = "gone"
  BY DEF Gone
<1>9. NoneLate /\ \A a \in Attempts : StepFits(a)
  BY <1>8 DEF NoneLate, StepFits
<1>10. InProgress
  BY <1>3, <1>4, <1>5 DEF InProgress, SentFits, ModelFits, PreparedFits, NoCheckpoint
<1>11. WaitFits
  BY <1>4, <1>5 DEF WaitFits, NoWait
<1>12. Finished
  BY DEF Finished
<1>13. Bounded
  <2>1. ModelsBounded
    BY LedgerAssumption DEF ModelsBounded, NoCheckpoint, NoCount
  <2>2. TriesBounded
    BY <1>4, <1>5 DEF TriesBounded
  <2>3. RunBounded
    <3>1. Len(attempts) = 1
      OBVIOUS
    <3> QED BY <3>1, LedgerAssumption DEF RunBounded, NoWait, Active
  <2> QED BY <2>1, <2>2, <2>3 DEF Bounded
<1> QED BY <1>1, <1>2, <1>6, <1>7, <1>9, <1>10, <1>11, <1>12, <1>13 DEF Agreement, Going

\* Every step keeps the agreement.
LEMMA StepAgrees ==
  ASSUME Agreement, ~LateExecutors, ~RetryTimeouts, [Next]_vars
  PROVE  Agreement'
<1>1. LedgerInv'
  BY StepLedger DEF Agreement
<1>2. CASE RunStep
  <2>1. ~FireRetry
    <3>1. "retry" \notin wakeups
      BY DEF Agreement, Bounded, RunBounded
    <3> QED BY <3>1 DEF FireRetry
  <2> QED BY <1>1, <1>2, <2>1, BeginAgrees, SettleAgrees, OthersFinishAgrees DEF RunStep
<1>3. CASE ControlStep
  BY <1>1, <1>3, InterruptAgrees, RunEndsAgree DEF ControlStep
<1>4. CASE PeopleStep
  BY <1>1, <1>4, PeopleAgree
<1>5. ASSUME NEW a \in Attempts, ExecutorStep(a) PROVE Agreement'
  <2>1. CASE ModelStep(a)
    BY <1>1, <2>1, ModelStepAgrees, LoseModelAgrees
  <2>2. CASE ~ModelStep(a)
    BY <1>1, <1>5, <2>2, ResumeAgrees, CountAgrees, PlanStepAgrees, ToolStepAgrees, SucceedNodeAgrees, RunEndsAgree
       DEF ExecutorStep
  <2> QED BY <2>1, <2>2
<1>6. ASSUME NEW a \in Attempts, LeaseStep(a) PROVE Agreement'
  BY <1>1, <1>6, RunEndsAgree, RecoverUnknownAgrees, RecoverLeaseAgrees DEF LeaseStep
<1>7. ASSUME NEW a \in Attempts, DeadlineStep(a) PROVE Agreement'
  <2>1. ~TimeOutAndRetry(a)
    BY DEF TimeOutAndRetry
  <2> QED BY <1>1, <1>7, <2>1, RunEndsAgree DEF DeadlineStep
<1>8. ASSUME NEW a \in Attempts, Quit(a) PROVE Agreement'
  BY <1>1, <1>8, QuitAgrees
<1>9. CASE UNCHANGED vars
  BY <1>1, <1>9, StutterAgrees
<1> QED BY <1>2, <1>3, <1>4, <1>5, <1>6, <1>7, <1>8, <1>9 DEF Next

\* The agreement holds at all times where executors end with their attempts and no policy
\* repeats what ran into its deadline.
THEOREM AgreementHolds ==
  ASSUME ~LateExecutors, ~RetryTimeouts
  PROVE  Spec => []Agreement
<1>1. Init => Agreement
  BY InitAgrees
<1>2. Agreement /\ [Next]_vars => Agreement'
  BY StepAgrees
<1> QED BY <1>1, <1>2, PTL DEF Spec

\* The rows, the checkpoint and the wait agree.
LEMMA AgreementSays ==
  ASSUME Agreement
  PROVE  LedgerIsConsistent
<1>1. RowsShaped /\ CheckpointsShaped /\ RunShaped /\ Bounded
  BY Shapes DEF Agreement
<1>2. TypeOK
  <2>1. \A c \in Calls :
          /\ ledger[c].status \in CallStatus /\ ledger[c].effect \in EffectStatus
          /\ \A t \in DOMAIN ledger[c].tries :
               ledger[c].tries[t].status \in TryStatus /\ ledger[c].tries[t].resolved \in Resolutions
    <3> SUFFICES ASSUME NEW c \in Calls
                 PROVE  /\ ledger[c].status \in CallStatus /\ ledger[c].effect \in EffectStatus
                        /\ \A t \in DOMAIN ledger[c].tries :
                             ledger[c].tries[t].status \in TryStatus /\ ledger[c].tries[t].resolved \in Resolutions
      OBVIOUS
    <3>1. ledger[c] \in CallRow
      BY <1>1 DEF RowsShaped
    <3>2. ledger[c].status \in CallStatus /\ ledger[c].effect \in EffectStatus /\ ledger[c].tries \in Seq(TryRow)
      BY <3>1 DEF CallRow
    <3>3. ASSUME NEW t \in DOMAIN ledger[c].tries
          PROVE  ledger[c].tries[t].status \in TryStatus /\ ledger[c].tries[t].resolved \in Resolutions
      <4>1. ledger[c].tries[t] \in TryRow
        BY <3>2
      <4> QED BY <4>1 DEF TryRow
    <3> QED BY <3>2, <3>3
  <2>2. /\ run.status \in RunStatus /\ run.epoch \in 0 .. MaxEpoch + 1
        /\ node \in Active \cup {"waiting", "completed", "failed", "cancelled"}
        /\ other \in BOOLEAN /\ wakeups \subseteq {"ready", "claimed", "settle", "retry"}
        /\ Len(attempts) \in 1 .. MaxAttempts
        /\ wait.kind \in {"none", "approval", "memory", "effect"} /\ wait.blockers \subseteq Calls
    BY <1>1 DEF Bounded, RunBounded, RunShaped
  <2>3. ckpt.model \in 0 .. MaxModelCalls /\ ckpt.by \in 0 .. MaxAttempts
    BY <1>1 DEF Bounded, ModelsBounded
  <2>4. \A c \in Calls : \A t \in DOMAIN ledger[c].tries : ledger[c].tries[t].by \in DOMAIN attempts
    BY <1>1 DEF Bounded, TriesBounded
  <2> QED BY <2>1, <2>2, <2>3, <2>4 DEF TypeOK
<1>3. CheckpointMatchesLedger
  <2>1. CASE Live
    BY <2>1 DEF Agreement, Going, CallsAgree, Agrees, Says, CheckpointMatchesLedger
  <2>2. CASE ~Live
    BY <2>2 DEF Agreement, AtRest
  <2> QED BY <2>1, <2>2
<1>4. UnknownIsAwaited
  <2> SUFFICES ASSUME Live, NEW c \in Calls
               PROVE  /\ LatestTry(c) > 0 /\ LastTry(c).status = "started" => Held(LastTry(c).by)
                      /\ ledger[c].effect = "outcome_unknown" => wait.kind = "effect" /\ c \in wait.blockers
    BY DEF UnknownIsAwaited, Live
  <2>1. Going /\ RowAgrees(ledger[c])
    BY DEF Agreement, Going, CallsAgree, Agrees
  <2>2. ASSUME LatestTry(c) > 0, LastTry(c).status = "started" PROVE Held(LastTry(c).by)
    <3>1. ledger[c].tries # <<>> /\ LastOf(ledger[c]) = LastTry(c)
      BY <2>2 DEF LastOf, LastTry, LatestTry
    <3>2. ledger[c].status = "running"
      BY <2>1, <2>2, <3>1 DEF RowAgrees
    <3>3. StatusIn(ckpt, c) = "running"
      BY <2>1, <3>2, OpenIsSaid DEF OpenStatus
    <3> QED BY <2>1, <3>3 DEF Going, InProgress, SentFits
  <2>3. ledger[c].effect = "outcome_unknown" => wait.kind = "effect" /\ c \in wait.blockers
    BY <2>1 DEF RowAgrees, Going, WaitFits
  <2> QED BY <2>2, <2>3
<1>5. TerminalIsFenced
  BY DEF Agreement, AtRest, TerminalIsFenced, Live
<1> QED BY <1>2, <1>3, <1>4, <1>5 DEF LedgerIsConsistent

\* No recovery and no end of a run is refused.
LEMMA AgreementServes ==
  ASSUME Agreement
  PROVE  NeverRefused
<1>1. Live => Fenceable
  BY IsFenceable
<1>2. ASSUME NEW a \in Attempts, Expired(a) PROVE StartedFits(a) /\ PendingFits(a)
  <2>1. Live /\ Held(a)
    BY <1>2 DEF Expired, Live, Terminal
  <2>2. Going /\ a = Current
    BY <2>1, HeldFacts
  <2>3. PICK S : S = Started(a) \cup Pending(a)
    OBVIOUS
  <2>4. /\ S \subseteq Calls /\ \A c \in S : StatusIn(ckpt, c) = ledger[c].status
        /\ \A c \in S : LastTry(c).status # "started" => ledger[c].status = "prepared"
    BY <2>1, <2>3, LeftBehind
  <2>5. ASSUME NEW c \in Started(a) PROVE StatusIn(ckpt, c) = "running" /\ ckpt.mark = Watermark(c)
    <3>1. c \in Calls /\ c \in S /\ LatestTry(c) > 0 /\ LastTry(c).status = "started"
      BY <2>3 DEF Started, TriedBy
    <3>2. ledger[c].tries # <<>> /\ LastOf(ledger[c]) = LastTry(c)
      BY <3>1 DEF LastOf, LastTry, LatestTry
    <3>3. RowAgrees(ledger[c])
      BY <2>2, <3>1 DEF Going, CallsAgree, Agrees
    <3>4. StatusIn(ckpt, c) = "running"
      BY <2>4, <3>1, <3>2, <3>3 DEF RowAgrees
    <3> QED BY <2>2, <3>1, <3>4 DEF Going, InProgress, SentFits
  <2>6. ASSUME NEW c \in Pending(a) PROVE StatusIn(ckpt, c) = "prepared" /\ ckpt.by = a
    <3>1. c \in Calls /\ c \in S /\ LastTry(c).by = a /\ LastTry(c).status = "prepared"
      BY <2>3 DEF Pending, TriedBy
    <3>2. ledger[c].status = "prepared" /\ StatusIn(ckpt, c) = "prepared"
      BY <2>4, <3>1
    <3> QED BY <2>2, <3>1, <3>2 DEF Going, InProgress, PreparedFits
  <2> QED BY <2>5, <2>6 DEF StartedFits, PendingFits
<1> QED BY <1>1, <1>2 DEF NeverRefused, Live

\* The checkpoint an attempt resumes from says of every call what its row says, a call that
\* was sent is in the hands of a held attempt or waits for a person, and the end of a run
\* closes them all (update_owner_and_checkpoint, fence_run_effects): in any order of crashes,
\* lapsed leases, interrupts and decisions.
THEOREM LedgerAgrees ==
  ASSUME ~LateExecutors, ~RetryTimeouts
  PROVE  Spec => []LedgerIsConsistent
<1>1. Agreement => LedgerIsConsistent
  BY AgreementSays
<1> QED BY <1>1, AgreementHolds, PTL

\* Lease recovery finds what was sent at the mark of the checkpoint, and what was prepared
\* under its attempt, and the fencing of a run finds every open call: neither is ever refused
\* (recover_started_effects, supersede_prepared_effect_attempts, fence_run_effects).
THEOREM NothingRefused ==
  ASSUME ~LateExecutors, ~RetryTimeouts
  PROVE  Spec => []NeverRefused
<1>1. Agreement => NeverRefused
  BY AgreementServes
<1> QED BY <1>1, AgreementHolds, PTL
=============================================================================
