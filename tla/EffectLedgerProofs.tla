-------------------------- MODULE EffectLedgerProofs --------------------------
(***************************************************************************)
(* What the effect ledger keeps for every value of the limits, every batch *)
(* a model may ask for, and however long a dead executor lives on: nothing *)
(* that was tried is forgotten, a call with effects outside is not blindly *)
(* repeated, and only the attempt that holds the node sends.               *)
(*                                                                         *)
(* The inductive invariant has three parts: the shape of the rows and the  *)
(* checkpoints (Shaped), that at most one attempt is at work and it is the *)
(* last (OneAtWork), and that a held executor has the call in hand that it *)
(* prepared or started itself (InTheirHands).  The repetition of calls     *)
(* rests on a part of its own (Repeatable).                                *)
(***************************************************************************)
EXTENDS EffectLedger, WellFoundedInduction, TLAPS

AttemptStatus == {"queued", "running", "waiting", "completed", "failed", "timed_out", "cancelled"}
Pcs == {"gone", "resume", "count", "counting", "counted", "trim", "call", "again", "send", "receive",
        "plan", "dispatch", "redispatch", "tool", "retool", "fail"}

TryRow == [status : TryStatus, by : Nat, resolved : Resolutions]
CallRow == [status : CallStatus, class : Classes, effect : EffectStatus, tries : Seq(TryRow)]
CountState == [no : Nat, status : CallStatus, trim : Nat, fits : BOOLEAN]
\* The mark is whatever the last transition left.
IsCheckpoint(ck) ==
    ck \in [by : Nat, count : CountState, model : Nat, status : CallStatus, calls : Seq(Tools),
            answered : BOOLEAN, valid : BOOLEAN, batch : Seq(CallStatus), filled : BOOLEAN,
            repairs : Nat, repairing : BOOLEAN, mark : {ck.mark}]
IsExecutor(e) == e \in [pc : Pcs, ck : {e.ck}, trim : Nat] /\ IsCheckpoint(e.ck)

(***************************************************************************)
(* Shapes.                                                                 *)
(***************************************************************************)
\* The batch of a checkpoint is that of its response, and there is none before the response.
Fits(ck) ==
    /\ ck.batch # <<>> => Len(ck.batch) = Len(ck.calls)
    /\ ck.status \in {"prepared", "running", "retry_ready", "outcome_unknown"} => ck.batch = <<>>

\* Where an executor stands says how far its model call is.
Stands(e) ==
    /\ e.pc = "again" => e.ck.status = "retry_ready"
    /\ e.pc = "send" => e.ck.status = "prepared"
    /\ e.pc = "receive" => e.ck.status = "running"
    /\ e.pc = "plan" => e.ck.status = "completed"

RowsShaped == ledger \in [Calls -> CallRow]
CheckpointsShaped ==
    /\ IsCheckpoint(ckpt) /\ Fits(ckpt)
    /\ exec = [a \in Attempts |-> exec[a]]
    /\ \A a \in Attempts : IsExecutor(exec[a]) /\ Fits(exec[a].ck) /\ Stands(exec[a])
RunShaped ==
    /\ run \in [status : RunStatus, epoch : Nat]
    /\ attempts \in Seq([status : AttemptStatus, epoch : Nat])
Shaped == RowsShaped /\ CheckpointsShaped /\ RunShaped

(***************************************************************************)
(* One attempt at work.                                                    *)
(***************************************************************************)
\* Only the last attempt may be queued or held, and it is neither while the node waits for
\* somebody or for its retry timer.
OneAtWork ==
    /\ attempts # <<>>
    /\ \A a \in DOMAIN attempts : attempts[a].status \in {"queued", "running"} => a = Len(attempts)
    /\ wait.kind # "none" => attempts[Len(attempts)].status = "waiting"
    /\ "retry" \in wakeups => attempts[Len(attempts)].status = "timed_out"

(***************************************************************************)
(* Rows.                                                                   *)
(***************************************************************************)
\* A call that was not prepared yet has no try, and a try that was not started is not
\* resolved.
TriesFit ==
    \A c \in Calls :
       /\ ledger[c].status \in {"absent", "validated", "awaiting_approval"} => ledger[c].tries = <<>>
       /\ \A t \in DOMAIN ledger[c].tries :
            ledger[c].tries[t].status = "prepared" => ledger[c].tries[t].resolved = "none"

\* The call an executor has prepared, or started, and not finished.
InHand(e) ==
    IF e.pc \in {"counting", "counted"} THEN <<0, e.ck.count.no>>
    ELSE IF e.pc \in {"send", "receive"} THEN <<e.ck.model>>
    ELSE <<e.ck.mark[1], e.ck.mark[2]>>
Busy == {"counting", "counted", "send", "receive", "tool", "retool"}
\* The executor that holds the node has made the last try of the call it has in hand.
InTheirHands ==
    \A a \in Attempts : \A c \in Calls :
       exec[a].pc \in Busy /\ Held(a) /\ c = InHand(exec[a]) =>
         /\ ledger[c].status # "absent"
         /\ ledger[c].status \in {"prepared", "running"} /\ LatestTry(c) > 0 => LastTry(c).by = a

\* What may be sent again: the last try of a call with effects outside did not go out, or a
\* person said that it failed.
Repeatable ==
    \A c \in Calls :
       (ledger[c].class = "non_idempotent" /\ ~IsCount(c) /\ ledger[c].status = "retry_ready"
          /\ LatestTry(c) > 0) =>
         (Sent(LastTry(c)) => LastTry(c).resolved = "confirm_failed_retry_safe")

LedgerInv == Shaped /\ OneAtWork /\ TriesFit /\ InTheirHands
RepeatInv == LedgerInv /\ Repeatable /\ NoBlindRepeat

(***************************************************************************)
(* Least and greatest members.                                             *)
(***************************************************************************)
\* Some naturals have a least one.
LEMMA Least ==
  ASSUME NEW S, S \subseteq Nat, S # {}
  PROVE  \E x \in S : \A y \in S : x =< y
<1> DEFINE Less == {ss \in Nat \X Nat : ss[1] < ss[2]}
<1>1. PICK x \in S : \A y \in S : ~(<<y, x>> \in Less)
  <2>1. IsWellFoundedOn(Less, Nat)
    BY NatLessThanWellFounded, Zenon DEF OpToRel
  <2> HIDE DEF Less
  <2> QED BY <2>1, WFMin
<1>2. ASSUME NEW y \in S PROVE x =< y
  <2>1. y \in Nat /\ x \in Nat
    OBVIOUS
  <2>2. ~(y < x)
    BY <1>1, <2>1
  <2> HIDE DEF Less
  <2> QED BY <2>1, <2>2
<1> QED BY <1>2

\* The least of some naturals is one of them.
LEMMA MinIsIn ==
  ASSUME NEW S, S \subseteq Nat, S # {}
  PROVE  Min(S) \in S
BY Least DEF Min

\* The greatest of some numbers up to n is one of them.
LEMMA MaxIsIn ==
  ASSUME NEW n \in Nat, NEW S, S \subseteq 1 .. n, S # {}
  PROVE  Max(S) \in S
<1> DEFINE T == {n - x : x \in S}
<1>1. T \subseteq Nat /\ T # {}
  <2>1. ASSUME NEW x \in S PROVE n - x \in Nat
    <3>1. x \in 1 .. n
      OBVIOUS
    <3> QED BY <3>1
  <2> QED BY <2>1
<1>2. PICK z \in T : \A y \in T : z =< y
  <2> HIDE DEF T
  <2> QED BY <1>1, Least
<1>3. PICK x \in S : z = n - x
  OBVIOUS
<1>4. ASSUME NEW y \in S PROVE x >= y
  <2>1. n - y \in T /\ x \in 1 .. n /\ y \in 1 .. n
    OBVIOUS
  <2>2. n - x =< n - y
    BY <1>2, <1>3, <2>1
  <2> HIDE DEF T
  <2> QED BY <2>1, <2>2
<1>5. \E u \in S : \A y \in S : u >= y
  BY <1>4
<1> QED BY <1>5 DEF Max

(***************************************************************************)
(* What one step may do to the row of one call.                            *)
(***************************************************************************)
\* Every try is still there, is what it was, and what was said of it stands.
Keeps(r, s) ==
    \A t \in DOMAIN r.tries :
       /\ t \in DOMAIN s.tries /\ s.tries[t].by = r.tries[t].by
       /\ Sent(r.tries[t]) => Sent(s.tries[t])
       /\ r.tries[t].resolved # "none" => s.tries[t].resolved = r.tries[t].resolved
Fitting(r) ==
    /\ r.status \in {"absent", "validated", "awaiting_approval"} => r.tries = <<>>
    /\ \A t \in DOMAIN r.tries : r.tries[t].status = "prepared" => r.tries[t].resolved = "none"
Failed(t) == Sent(t) => t.resolved = "confirm_failed_retry_safe"
Safe(r) ==
    r.class = "non_idempotent" =>
      /\ \A t \in 1 .. Len(r.tries) - 1 : Failed(r.tries[t])
      /\ r.status = "retry_ready" /\ Len(r.tries) > 0 => Failed(r.tries[Len(r.tries)])
\* A count may be repeated whatever became of it.
Lawful(counted, r, s) ==
    /\ s \in CallRow /\ Fitting(s) /\ Keeps(r, s)
    /\ s.status = "absent" => r.status = "absent"
    /\ counted \/ (Safe(r) => Safe(s))

\* A row that stays as it is.
LEMMA SameRow ==
  ASSUME NEW counted, NEW r \in CallRow, Fitting(r)
  PROVE  Lawful(counted, r, r)
BY DEF Lawful, Keeps

\* A row without tries gets its first one.
LEMMA NewRow ==
  ASSUME NEW counted, NEW r \in CallRow, r.tries = <<>>, NEW class \in Classes, NEW a \in Nat
  PROVE  Lawful(counted, r, Prepared(class, a))
<1>1. NewTry(a) \in TryRow
  BY DEF NewTry, TryRow, TryStatus, Resolutions
<1> DEFINE s == Prepared(class, a)
<1>2. s = [status |-> "prepared", class |-> class, effect |-> "pending", tries |-> <<NewTry(a)>>]
  BY DEF Prepared
<1>3. s.tries = <<NewTry(a)>> /\ Len(s.tries) = 1 /\ s.tries[1] = NewTry(a)
  BY <1>2
<1>4. s \in CallRow
  BY <1>1, <1>2 DEF CallRow, CallStatus, EffectStatus
<1>5. Fitting(s)
  BY <1>2, <1>3 DEF Fitting, NewTry
<1>6. Keeps(r, s)
  BY DEF Keeps
<1>7. Safe(s)
  BY <1>2, <1>3 DEF Safe
<1> QED BY <1>2, <1>4, <1>5, <1>6, <1>7 DEF Lawful

\* A row without tries changes its status only.
LEMMA StatusRow ==
  ASSUME NEW counted, NEW r \in CallRow, r.tries = <<>>, NEW status \in CallStatus \ {"absent"},
         NEW class \in Classes, NEW s,
         s = [r EXCEPT !.status = status] \/ s = [Absent EXCEPT !.status = status, !.class = class]
  PROVE  Lawful(counted, r, s)
<1>1. s \in CallRow /\ s.tries = <<>> /\ s.status = status
  BY DEF CallRow, Absent, CallStatus, EffectStatus, Classes
<1> QED BY <1>1 DEF Lawful, Fitting, Keeps, Safe

\* A row whose latest try takes another status, before or after it went out.
LEMMA MovedRow ==
  ASSUME NEW counted, NEW c, ledger[c] \in CallRow, Fitting(ledger[c]),
         NEW status \in CallStatus, NEW effect \in EffectStatus, NEW t \in TryStatus,
         t # "prepared", status \notin {"absent", "validated", "awaiting_approval"},
         t = "superseded_before_start" => ~Sent(LastTry(c)),
         status = "retry_ready" => \/ t = "superseded_before_start"
                                   \/ counted \/ ledger[c].class # "non_idempotent"
  PROVE  /\ Lawful(counted, ledger[c], Moved(c, status, effect, t))
         /\ Len(Moved(c, status, effect, t).tries) = LatestTry(c)
         /\ LatestTry(c) > 0 => Moved(c, status, effect, t).tries[LatestTry(c)] = [LastTry(c) EXCEPT !.status = t]
<1> DEFINE r == ledger[c]
           s == Moved(c, status, effect, t)
           n == LatestTry(c)
<1>1. /\ r.tries \in Seq(TryRow) /\ n \in Nat /\ n = Len(r.tries) /\ DOMAIN r.tries = 1 .. n
      /\ \A u \in 1 .. n : r.tries[u] \in TryRow
  BY DEF CallRow, LatestTry
<1>2. /\ s.tries = [u \in 1 .. n |-> IF u = n THEN [r.tries[u] EXCEPT !.status = t] ELSE r.tries[u]]
      /\ s.status = status /\ s.effect = effect /\ s.class = r.class
  <2>1. s.tries = [r.tries EXCEPT ![n] = [r.tries[n] EXCEPT !.status = t]]
    BY DEF Moved, CallRow
  <2> QED BY <1>1, <2>1 DEF Moved, CallRow
<1>3. \A u \in 1 .. n : [r.tries[u] EXCEPT !.status = t] \in TryRow
  BY <1>1 DEF TryRow
<1>4. s.tries \in Seq(TryRow) /\ Len(s.tries) = n /\ DOMAIN s.tries = 1 .. n
  BY <1>1, <1>2, <1>3
<1>5. s \in CallRow
  BY <1>2, <1>4 DEF Moved, CallRow
<1>6. \A u \in 1 .. n : /\ s.tries[u].by = r.tries[u].by /\ s.tries[u].resolved = r.tries[u].resolved
                        /\ s.tries[u].status = IF u = n THEN t ELSE r.tries[u].status
  BY <1>1, <1>2 DEF TryRow
<1>7. n > 0 => LastTry(c) = r.tries[n]
  BY DEF LastTry
<1> HIDE DEF s, r, n
<1>8. Fitting(s)
  BY <1>1, <1>2, <1>4, <1>6 DEF Fitting, r
<1>9. Keeps(r, s)
  BY <1>1, <1>4, <1>6, <1>7 DEF Keeps, Sent, TryStatus, r
<1>10. counted \/ (Safe(r) => Safe(s))
  BY <1>1, <1>2, <1>4, <1>6 DEF Safe, Failed, Sent, r
<1> QED BY <1>1, <1>2, <1>4, <1>5, <1>7, <1>8, <1>9, <1>10 DEF Lawful, r, s, n

\* A row that is prepared again.
LEMMA RetriedRow ==
  ASSUME NEW counted, NEW c, ledger[c] \in CallRow, Fitting(ledger[c]),
         ledger[c].status = "retry_ready", NEW a \in Nat
  PROVE  /\ Lawful(counted, ledger[c], Retried(c, a))
         /\ Len(Retried(c, a).tries) = LatestTry(c) + 1
         /\ Retried(c, a).tries[LatestTry(c) + 1] = NewTry(a)
         /\ LatestTry(c) > 0 => Retried(c, a).tries[LatestTry(c)] = LastTry(c)
<1> DEFINE r == ledger[c]
           s == Retried(c, a)
           n == LatestTry(c)
<1>1. /\ r.tries \in Seq(TryRow) /\ n \in Nat /\ n = Len(r.tries) /\ DOMAIN r.tries = 1 .. n
  BY DEF CallRow, LatestTry
<1>2. NewTry(a) \in TryRow
  BY DEF NewTry, TryRow, TryStatus, Resolutions
<1>3. s.tries = Append(r.tries, NewTry(a)) /\ s.status = "prepared" /\ s.class = r.class
  BY DEF Retried, CallRow
<1>4. /\ s.tries \in Seq(TryRow) /\ Len(s.tries) = n + 1 /\ DOMAIN s.tries = 1 .. n + 1
      /\ s.tries[n + 1] = NewTry(a) /\ \A u \in 1 .. n : s.tries[u] = r.tries[u]
  BY <1>1, <1>2, <1>3
<1>5. s \in CallRow
  BY <1>4 DEF Retried, CallRow, CallStatus
<1>6. LastTry(c) = r.tries[n]
  BY DEF LastTry
<1> HIDE DEF s, r, n
<1>7. Fitting(s)
  BY <1>1, <1>3, <1>4 DEF Fitting, NewTry, r
<1>8. Keeps(r, s)
  BY <1>1, <1>4 DEF Keeps
<1>9. Safe(r) => Safe(s)
  BY <1>1, <1>3, <1>4 DEF Safe, r
<1>10. n > 0 => s.tries[n] = LastTry(c)
  BY <1>1, <1>4, <1>6
<1> QED BY <1>3, <1>4, <1>5, <1>7, <1>8, <1>9, <1>10 DEF Lawful, r, s, n

\* A row of which a person said what became of its last try.
LEMMA ResolvedRow ==
  ASSUME NEW counted, ledger[Unknown] \in CallRow, Fitting(ledger[Unknown]), Resolvable,
         NEW status \in {"completed", "retry_ready", "abandoned_unknown"}, NEW effect \in EffectStatus,
         NEW resolution \in Resolutions,
         status = "retry_ready" => resolution = "confirm_failed_retry_safe"
  PROVE  /\ Lawful(counted, ledger[Unknown], Resolved(status, effect, resolution))
         /\ Len(Resolved(status, effect, resolution).tries) = LatestTry(Unknown)
         /\ LatestTry(Unknown) > 0 =>
              Resolved(status, effect, resolution).tries[LatestTry(Unknown)].status = LastTry(Unknown).status
<1> DEFINE r == ledger[Unknown]
           s == Resolved(status, effect, resolution)
           n == LatestTry(Unknown)
<1>1. /\ r.tries \in Seq(TryRow) /\ n \in Nat /\ n = Len(r.tries) /\ DOMAIN r.tries = 1 .. n
      /\ \A u \in 1 .. n : r.tries[u] \in TryRow
  BY DEF CallRow, LatestTry
<1>2. s.tries = [u \in 1 .. n |-> IF u = n THEN [r.tries[u] EXCEPT !.resolved = resolution] ELSE r.tries[u]]
  <2>1. s.tries = [r.tries EXCEPT ![n] = [r.tries[n] EXCEPT !.resolved = resolution]]
    BY DEF Resolved, CallRow
  <2> QED BY <1>1, <2>1
<1>3. s.status = status /\ s.effect = effect /\ s.class = r.class
  BY DEF Resolved, CallRow
<1>4. \A u \in 1 .. n : [r.tries[u] EXCEPT !.resolved = resolution] \in TryRow
  BY <1>1 DEF TryRow
<1>5. s.tries \in Seq(TryRow) /\ Len(s.tries) = n /\ DOMAIN s.tries = 1 .. n
  BY <1>1, <1>2, <1>4
<1>6. s \in CallRow
  BY <1>3, <1>5 DEF Resolved, CallRow, CallStatus
<1>7. \A u \in 1 .. n : /\ s.tries[u].by = r.tries[u].by /\ s.tries[u].status = r.tries[u].status
                        /\ s.tries[u].resolved = IF u = n THEN resolution ELSE r.tries[u].resolved
  BY <1>1, <1>2 DEF TryRow
<1>8. LastTry(Unknown) = r.tries[n]
  BY DEF LastTry
<1>9. LastTry(Unknown).status = "outcome_unknown" /\ LastTry(Unknown).resolved = "none"
  BY DEF Resolvable
<1> HIDE DEF s, r, n
<1>10. Fitting(s)
  BY <1>1, <1>3, <1>5, <1>7, <1>8, <1>9 DEF Fitting, r
<1>11. Keeps(r, s)
  BY <1>1, <1>5, <1>7, <1>8, <1>9 DEF Keeps, Sent
<1>12. Safe(r) => Safe(s)
  BY <1>1, <1>3, <1>5, <1>7 DEF Safe, Failed, Sent, r
<1> QED BY <1>1, <1>3, <1>5, <1>6, <1>7, <1>8, <1>10, <1>11, <1>12 DEF Lawful, r, s, n

\* A row of a run that ends.
LEMMA FencedRow ==
  ASSUME NEW counted, NEW c, ledger[c] \in CallRow, Fitting(ledger[c])
  PROVE  /\ Lawful(counted, ledger[c], Fenced(c))
         /\ Len(Fenced(c).tries) = LatestTry(c)
         /\ LatestTry(c) > 0 =>
              Fenced(c).tries[LatestTry(c)].status \in
                {LastTry(c).status, "outcome_unknown", "superseded_before_start"}
<1> DEFINE r == ledger[c]
           n == LatestTry(c)
<1>1. /\ r.tries \in Seq(TryRow) /\ n \in Nat /\ n = Len(r.tries) /\ DOMAIN r.tries = 1 .. n
      /\ \A u \in 1 .. n : r.tries[u] \in TryRow
  BY DEF CallRow, LatestTry
<1>2. LastTry(c) = r.tries[n]
  BY DEF LastTry
<1>3. CASE c \in Unfinished /\ Unresolved(c) # {}
  <2> DEFINE last == Max(Unresolved(c))
             s == Abandoned(c)
  <2>1. last \in Unresolved(c)
    <3>1. Unresolved(c) \subseteq 1 .. n
      BY <1>1 DEF Unresolved
    <3> QED BY <1>1, <1>3, <3>1, MaxIsIn
  <2>2. /\ last \in 1 .. n /\ r.tries[last].resolved = "none"
        /\ r.tries[last].status \in {"started", "outcome_unknown"}
    BY <1>1, <2>1 DEF Unresolved
  <2> DEFINE end == [r.tries[last] EXCEPT !.status = "outcome_unknown", !.resolved = "run_terminal_abandon"]
  <2>3. s = [r EXCEPT !.status = "abandoned_unknown", !.effect = "abandoned_unknown",
                      !.tries[last].status = "outcome_unknown",
                      !.tries[last].resolved = "run_terminal_abandon"]
    BY DEF Abandoned
  <2> HIDE DEF last
  <2>4. s.tries = [u \in 1 .. n |-> IF u = last THEN end ELSE r.tries[u]]
    <3>1. s.tries = [[r.tries EXCEPT ![last] = [r.tries[last] EXCEPT !.status = "outcome_unknown"]]
                      EXCEPT ![last].resolved = "run_terminal_abandon"]
      BY <2>3 DEF CallRow
    <3> QED BY <1>1, <2>2, <3>1 DEF TryRow
  <2>5. s.status = "abandoned_unknown" /\ s.effect = "abandoned_unknown" /\ s.class = r.class
    BY <2>3 DEF CallRow
  <2>6. end \in TryRow
    BY <1>1, <2>2 DEF TryRow, TryStatus, Resolutions
  <2>7. /\ end.by = r.tries[last].by /\ end.status = "outcome_unknown"
        /\ end.resolved = "run_terminal_abandon"
    BY <1>1, <2>2 DEF TryRow
  <2> HIDE DEF end
  <2>8. s.tries \in Seq(TryRow) /\ Len(s.tries) = n /\ DOMAIN s.tries = 1 .. n
    BY <1>1, <2>4, <2>6
  <2>9. s \in CallRow
    <3>1. s = [status |-> s.status, class |-> s.class, effect |-> s.effect, tries |-> s.tries]
      BY <2>3 DEF CallRow
    <3> HIDE DEF s
    <3> QED BY <2>5, <2>8, <3>1 DEF CallRow, CallStatus, EffectStatus
  <2> HIDE DEF s, r, n
  <2>10. Fitting(s)
    BY <1>1, <2>2, <2>4, <2>5, <2>7, <2>8 DEF Fitting, r
  <2>11. Keeps(r, s)
    BY <1>1, <2>2, <2>4, <2>7, <2>8 DEF Keeps, Sent
  <2>12. Safe(r) => Safe(s)
    BY <1>1, <2>2, <2>4, <2>5, <2>7, <2>8 DEF Safe, Failed, Sent, r
  <2>13. n > 0 => s.tries[n].status \in {LastTry(c).status, "outcome_unknown"}
    BY <1>1, <1>2, <2>4, <2>7
  <2>14. Fenced(c) = s
    BY <1>3 DEF Fenced, s
  <2> QED BY <2>5, <2>8, <2>9, <2>10, <2>11, <2>12, <2>13, <2>14 DEF Lawful, r, n
<1>4. CASE c \in Unfinished /\ Unresolved(c) = {}
  <2> DEFINE s == Withdrawn(c)
             gone(x) == [x EXCEPT !.status = "superseded_before_start",
                                  !.resolved = "run_terminal_cancel_before_start"]
  <2>1. s.tries = [u \in 1 .. n |-> IF r.tries[u].status = "prepared" THEN gone(r.tries[u]) ELSE r.tries[u]]
    BY <1>1 DEF Withdrawn, CallRow
  <2>2. s.status = "cancelled_before_start" /\ s.effect = "cancelled_before_start" /\ s.class = r.class
    BY DEF Withdrawn, CallRow
  <2>3. \A u \in 1 .. n : /\ gone(r.tries[u]) \in TryRow /\ gone(r.tries[u]).by = r.tries[u].by
                          /\ gone(r.tries[u]).status = "superseded_before_start"
    BY <1>1 DEF TryRow, TryStatus, Resolutions
  <2> HIDE DEF gone
  <2>4. s.tries \in Seq(TryRow) /\ Len(s.tries) = n /\ DOMAIN s.tries = 1 .. n
    BY <1>1, <2>1, <2>3
  <2>5. s \in CallRow
    BY <2>2, <2>4 DEF Withdrawn, CallRow, CallStatus, EffectStatus
  <2>6. \A u \in DOMAIN r.tries : r.tries[u].status = "prepared" => r.tries[u].resolved = "none"
    BY DEF Fitting
  <2> HIDE DEF s, r, n
  <2>7. Fitting(s)
    BY <1>1, <2>1, <2>2, <2>3, <2>4, <2>6 DEF Fitting
  <2>8. Keeps(r, s)
    BY <1>1, <2>1, <2>3, <2>4, <2>6 DEF Keeps, Sent
  <2>9. Safe(r) => Safe(s)
    BY <1>1, <2>1, <2>2, <2>3, <2>4 DEF Safe, Failed, Sent, r
  <2>10. n > 0 => s.tries[n].status \in {LastTry(c).status, "superseded_before_start"}
    BY <1>1, <1>2, <2>1, <2>3
  <2>11. Fenced(c) = s
    BY <1>4 DEF Fenced, s
  <2> QED BY <2>2, <2>4, <2>5, <2>7, <2>8, <2>9, <2>10, <2>11 DEF Lawful, r, n
<1>5. CASE c \notin Unfinished /\ c \in Unmaterialized
  <2>1. r.tries = <<>>
    BY <1>5 DEF Unmaterialized, Fitting
  <2>2. Fenced(c) = [r EXCEPT !.status = "cancelled_before_start"]
    BY <1>5 DEF Fenced
  <2>3. "cancelled_before_start" \in CallStatus \ {"absent"} /\ r.class \in Classes
    BY DEF CallStatus, CallRow
  <2>4. Lawful(counted, r, Fenced(c))
    BY <2>1, <2>2, <2>3, StatusRow
  <2>5. Fenced(c).tries = r.tries
    BY <2>2 DEF CallRow
  <2> QED BY <1>1, <1>2, <2>4, <2>5
<1>6. CASE c \notin Unfinished /\ c \notin Unmaterialized
  <2>1. Fenced(c) = r
    BY <1>6 DEF Fenced
  <2> QED BY <1>1, <1>2, <2>1, SameRow
<1> QED BY <1>3, <1>4, <1>5, <1>6

(***************************************************************************)
(* What every step does to the rows.                                       *)
(***************************************************************************)
\* A send or a result that the row s records of the call c is its owner's.
Owned(c, s) ==
    LatestTry(c) > 0 =>
      LET was == LastTry(c)
          now == s.tries[LatestTry(c)]
      IN  /\ was.status = "prepared" /\ now.status = "started" => Holds(was.by)
          /\ was.status = "started" /\ now.status \in {"succeeded", "failed"} => Holds(was.by)
Proper(c, s) == Lawful(IsCount(c), ledger[c], s) /\ Owned(c, s)
RowsProper ==
    /\ ledger' = [c \in Calls |-> ledger'[c]]
    /\ \A c \in Calls : Proper(c, ledger'[c])

\* What a row is known to be.
LEMMA RowFacts ==
  ASSUME RowsShaped, TriesFit, NEW c \in Calls
  PROVE  /\ ledger[c] \in CallRow /\ Fitting(ledger[c]) /\ LatestTry(c) \in Nat
         /\ LatestTry(c) = 0 => ledger[c].tries = <<>>
         /\ ledger[c].tries = <<>> => LatestTry(c) = 0
<1>1. ledger[c] \in CallRow
  BY DEF RowsShaped
<1> QED BY <1>1 DEF TriesFit, Fitting, LatestTry, CallRow

\* A call is a model call, a tool call or a count.
LEMMA CallForms ==
  ASSUME NEW c \in Calls
  PROVE  /\ IsTool(c) => c = <<c[1], c[2]>> /\ c[1] \in Models /\ c[2] \in 1 .. MaxBatch
         /\ IsModel(c) => c = <<c[1]>> /\ c[1] \in Models
         /\ IsCount(c) => c = <<0, c[2]>>
<1>1. Models \subseteq Nat \ {0}
  BY LedgerAssumption DEF Models
<1>2. CASE \E m \in Models : c = <<m>>
  BY <1>1, <1>2 DEF IsTool, IsModel, IsCount
<1>3. CASE \E m \in Models, i \in 1 .. MaxBatch : c = <<m, i>>
  BY <1>1, <1>3 DEF IsTool, IsModel, IsCount
<1>4. CASE \E k \in 1 .. MaxCounts : c = <<0, k>>
  BY <1>4 DEF IsTool, IsModel, IsCount
<1> QED BY <1>2, <1>3, <1>4 DEF Calls

\* A row that stays as it is, that gets its first try, or changes its status only.
LEMMA PlainRows ==
  ASSUME RowsShaped, TriesFit, NEW c \in Calls
  PROVE  /\ Proper(c, ledger[c])
         /\ ledger[c].tries = <<>> =>
              /\ \A class \in Classes, a \in Nat : Proper(c, Prepared(class, a))
              /\ \A status \in CallStatus \ {"absent"} :
                    /\ Proper(c, [ledger[c] EXCEPT !.status = status])
                    /\ \A class \in Classes : Proper(c, [Absent EXCEPT !.status = status, !.class = class])
<1>1. /\ ledger[c] \in CallRow /\ Fitting(ledger[c])
      /\ ledger[c].tries = <<>> => LatestTry(c) = 0
  BY RowFacts
<1>2. Owned(c, ledger[c])
  BY DEF Owned, LastTry, LatestTry
<1>3. Proper(c, ledger[c])
  BY <1>1, <1>2, SameRow DEF Proper
<1>4. ASSUME ledger[c].tries = <<>>, NEW s PROVE Owned(c, s)
  BY <1>1, <1>4 DEF Owned
<1>5. ASSUME ledger[c].tries = <<>>, NEW class \in Classes, NEW a \in Nat
      PROVE  Proper(c, Prepared(class, a))
  BY <1>1, <1>4, <1>5, NewRow DEF Proper
<1>6. ASSUME ledger[c].tries = <<>>, NEW status \in CallStatus \ {"absent"}
      PROVE  Proper(c, [ledger[c] EXCEPT !.status = status])
  <2>1. ledger[c].class \in Classes
    BY <1>1 DEF CallRow
  <2>2. Lawful(IsCount(c), ledger[c], [ledger[c] EXCEPT !.status = status])
    BY <1>1, <1>6, <2>1, StatusRow
  <2> QED BY <1>4, <1>6, <2>2 DEF Proper
<1>7. ASSUME ledger[c].tries = <<>>, NEW status \in CallStatus \ {"absent"}, NEW class \in Classes
      PROVE  Proper(c, [Absent EXCEPT !.status = status, !.class = class])
  <2>1. Lawful(IsCount(c), ledger[c], [Absent EXCEPT !.status = status, !.class = class])
    BY <1>1, <1>7, StatusRow
  <2> QED BY <1>4, <1>7, <2>1 DEF Proper
<1> QED BY <1>3, <1>5, <1>6, <1>7

\* One row changes.
LEMMA OneRow ==
  ASSUME RowsShaped, TriesFit, NEW c, NEW s, ledger' = [ledger EXCEPT ![c] = s],
         c \in Calls => Proper(c, s)
  PROVE  RowsProper
<1>1. ledger' = [d \in Calls |-> IF d = c THEN s ELSE ledger[d]]
  BY DEF RowsShaped
<1>2. \A d \in Calls : ledger'[d] = IF d = c THEN s ELSE ledger[d]
  BY <1>1
<1>3. \A d \in Calls : Proper(d, ledger[d])
  BY PlainRows
<1>4. ledger' = [d \in Calls |-> ledger'[d]]
  BY <1>1
<1> QED BY <1>2, <1>3, <1>4 DEF RowsProper

\* No row changes.
LEMMA NoRow ==
  ASSUME RowsShaped, TriesFit, UNCHANGED ledger
  PROVE  RowsProper
<1>1. \A d \in Calls : Proper(d, ledger[d])
  BY PlainRows
<1>2. ledger = [d \in Calls |-> ledger[d]]
  BY DEF RowsShaped
<1> QED BY <1>1, <1>2 DEF RowsProper

\* The owner of a node sends a call or records what became of it.
LEMMA OwnerMoves ==
  ASSUME RowsShaped, TriesFit, NEW a, IsOwner(a), NEW c, c \in Calls /\ LatestTry(c) > 0 => LastTry(c).by = a,
         NEW status \in {"running", "completed", "failed", "outcome_unknown"}, NEW effect \in EffectStatus,
         NEW t \in {"started", "succeeded", "failed", "outcome_unknown"},
         ledger' = [ledger EXCEPT ![c] = Moved(c, status, effect, t)]
  PROVE  RowsProper
<1>1. ASSUME c \in Calls PROVE Proper(c, Moved(c, status, effect, t))
  <2>1. ledger[c] \in CallRow /\ Fitting(ledger[c])
    BY <1>1, RowFacts
  <2>2. status \in CallStatus /\ t \in TryStatus
    BY DEF CallStatus, TryStatus
  <2>3. Lawful(IsCount(c), ledger[c], Moved(c, status, effect, t))
    BY <2>1, <2>2, MovedRow
  <2>4. Holds(a)
    BY DEF Holds, Held, IsOwner
  <2>5. Owned(c, Moved(c, status, effect, t))
    BY <1>1, <2>4 DEF Owned
  <2> QED BY <2>3, <2>5 DEF Proper
<1> QED BY <1>1, OneRow

\* The end of a run.
LEMMA EndProper ==
  ASSUME RowsShaped, TriesFit, NEW c \in Calls
  PROVE  Proper(c, Fenced(c))
<1>1. ledger[c] \in CallRow /\ Fitting(ledger[c])
  BY RowFacts
<1>2. /\ Lawful(IsCount(c), ledger[c], Fenced(c))
      /\ LatestTry(c) > 0 => Fenced(c).tries[LatestTry(c)].status \in
                               {LastTry(c).status, "outcome_unknown", "superseded_before_start"}
  BY <1>1, FencedRow
<1> QED BY <1>2 DEF Proper, Owned

\* What an executor is known to be.
LEMMA ExecutorFacts ==
  ASSUME CheckpointsShaped, NEW a \in Attempts
  PROVE  /\ a \in Nat /\ IsExecutor(exec[a])
         /\ IsCheckpoint(Local(a)) /\ Fits(Local(a)) /\ Stands(exec[a])
BY LedgerAssumption DEF CheckpointsShaped, IsExecutor, Local, Attempts

\* The call in the hands of the owner of the node.
LEMMA HandFacts ==
  ASSUME LedgerInv, NEW a \in Attempts, IsOwner(a), exec[a].pc \in Busy, NEW c, c = InHand(exec[a]),
         ledger[c].status \in {"prepared", "running"}
  PROVE  c \in Calls /\ LatestTry(c) > 0 => LastTry(c).by = a
BY DEF LedgerInv, InTheirHands, IsOwner, Held

\* Counting the tokens of the first request.
LEMMA CountRows ==
  ASSUME LedgerInv, NEW a \in Attempts, CountStep(a)
  PROVE  RowsProper
<1>1. RowsShaped /\ TriesFit /\ CheckpointsShaped
  BY DEF LedgerInv, Shaped
<1>2. a \in Nat
  BY <1>1, ExecutorFacts
<1>3. CASE PrepareCount(a)
  <2> DEFINE c == <<0, Local(a).count.no + 1>>
  <2>1. ledger' = [ledger EXCEPT ![c] = Prepared("pure", a)] /\ ledger[c].status = "absent"
    BY <1>3 DEF PrepareCount, IsNew
  <2>2. c \in Calls => Proper(c, Prepared("pure", a))
    <3> HIDE DEF c
    <3>1. "pure" \in Classes
      BY DEF Classes
    <3> QED BY <1>1, <1>2, <2>1, <3>1, PlainRows DEF TriesFit
  <2> HIDE DEF c
  <2> QED BY <1>1, <2>1, <2>2, OneRow
<1>4. CASE RetryCount(a)
  <2> DEFINE c == CountOf(Local(a))
  <2>1. ledger' = [ledger EXCEPT ![c] = Retried(c, a)] /\ ledger[c].status = "retry_ready"
    BY <1>4 DEF RetryCount
  <2> HIDE DEF c
  <2>2. ASSUME c \in Calls PROVE Proper(c, Retried(c, a))
    <3>1. /\ Lawful(IsCount(c), ledger[c], Retried(c, a))
          /\ LatestTry(c) > 0 => Retried(c, a).tries[LatestTry(c)] = LastTry(c)
      BY <1>1, <1>2, <2>1, <2>2, RowFacts, RetriedRow
    <3> QED BY <3>1 DEF Proper, Owned
  <2> QED BY <1>1, <2>1, <2>2, OneRow
<1>5. CASE StartCount(a)
  <2> DEFINE c == CountOf(Local(a))
  <2>1. /\ ledger' = [ledger EXCEPT ![c] = Moved(c, "running", "pending", "started")]
        /\ ledger[c].status = "prepared" /\ IsOwner(a) /\ exec[a].pc = "counting"
    BY <1>5 DEF StartCount, At
  <2>2. c = InHand(exec[a])
    BY <2>1 DEF InHand, CountOf, Local
  <2> HIDE DEF c
  <2>3. c \in Calls /\ LatestTry(c) > 0 => LastTry(c).by = a
    BY <2>1, <2>2, HandFacts DEF Busy
  <2> QED BY <1>1, <2>1, <2>3, OwnerMoves DEF EffectStatus
<1>6. ASSUME NEW fits \in BOOLEAN, FinishCount(a, fits) PROVE RowsProper
  <2> DEFINE c == CountOf(Local(a))
  <2>1. /\ ledger' = [ledger EXCEPT ![c] = Moved(c, "completed", "succeeded", "succeeded")]
        /\ ledger[c].status \in {"prepared", "running"} /\ IsOwner(a) /\ exec[a].pc \in {"counting", "counted"}
    BY <1>6 DEF FinishCount, At
  <2>2. c = InHand(exec[a])
    BY <2>1 DEF InHand, CountOf, Local
  <2> HIDE DEF c
  <2>3. c \in Calls /\ LatestTry(c) > 0 => LastTry(c).by = a
    BY <2>1, <2>2, HandFacts DEF Busy
  <2> QED BY <1>1, <2>1, <2>3, OwnerMoves DEF EffectStatus
<1>7. CASE ReuseCount(a) \/ \E ok \in BOOLEAN : Reassemble(a, ok)
  BY <1>1, <1>7, NoRow DEF ReuseCount, Reassemble, rows
<1> QED BY <1>3, <1>4, <1>5, <1>6, <1>7 DEF CountStep

\* A model call.
LEMMA ModelCallRows ==
  ASSUME LedgerInv, NEW a \in Attempts, ModelStep(a)
  PROVE  RowsProper
<1>1. RowsShaped /\ TriesFit /\ CheckpointsShaped
  BY DEF LedgerInv, Shaped
<1>2. a \in Nat
  BY <1>1, ExecutorFacts
<1>3. CASE PrepareModel(a)
  <2> DEFINE c == <<Local(a).model + 1>>
  <2>1. ledger' = [ledger EXCEPT ![c] = Prepared(ModelClass, a)] /\ ledger[c].status = "absent"
    BY <1>3 DEF PrepareModel, IsNew
  <2> HIDE DEF c
  <2>2. c \in Calls => Proper(c, Prepared(ModelClass, a))
    BY <1>1, <1>2, <2>1, PlainRows, LedgerAssumption DEF TriesFit
  <2> QED BY <1>1, <2>1, <2>2, OneRow
<1>4. CASE RetryModel(a)
  <2> DEFINE c == ModelOf(Local(a))
  <2>1. ledger' = [ledger EXCEPT ![c] = Retried(c, a)] /\ ledger[c].status = "retry_ready"
    BY <1>4 DEF RetryModel
  <2> HIDE DEF c
  <2>2. ASSUME c \in Calls PROVE Proper(c, Retried(c, a))
    <3>1. /\ Lawful(IsCount(c), ledger[c], Retried(c, a))
          /\ LatestTry(c) > 0 => Retried(c, a).tries[LatestTry(c)] = LastTry(c)
      BY <1>1, <1>2, <2>1, <2>2, RowFacts, RetriedRow
    <3> QED BY <3>1 DEF Proper, Owned
  <2> QED BY <1>1, <2>1, <2>2, OneRow
<1>5. CASE StartModel(a)
  <2> DEFINE c == ModelOf(Local(a))
  <2>1. /\ ledger' = [ledger EXCEPT ![c] = Moved(c, "running", "pending", "started")]
        /\ ledger[c].status = "prepared" /\ IsOwner(a) /\ exec[a].pc = "send"
    BY <1>5 DEF StartModel, At
  <2>2. c = InHand(exec[a])
    BY <2>1 DEF InHand, ModelOf, Local
  <2> HIDE DEF c
  <2>3. c \in Calls /\ LatestTry(c) > 0 => LastTry(c).by = a
    BY <2>1, <2>2, HandFacts DEF Busy
  <2> QED BY <1>1, <2>1, <2>3, OwnerMoves DEF EffectStatus
<1>6. ASSUME Receives(a), NEW status \in {"completed", "failed", "outcome_unknown"},
             NEW effect \in {"succeeded", "failed", "outcome_unknown"}, Finishes(a, ModelOf(Local(a)), status, effect)
      PROVE  RowsProper
  <2> DEFINE c == ModelOf(Local(a))
  <2>1. /\ ledger' = [ledger EXCEPT ![c] = Moved(c, status, effect, effect)]
        /\ ledger[c].status = "running" /\ IsOwner(a) /\ exec[a].pc = "receive"
    BY <1>6 DEF Receives, Finishes, At
  <2>2. c = InHand(exec[a])
    BY <2>1 DEF InHand, ModelOf, Local
  <2> HIDE DEF c
  <2>3. c \in Calls /\ LatestTry(c) > 0 => LastTry(c).by = a
    BY <2>1, <2>2, HandFacts DEF Busy
  <2>4. effect \in EffectStatus
    BY DEF EffectStatus
  <2> QED BY <1>1, <2>1, <2>3, <2>4, OwnerMoves
<1>7. ASSUME NEW calls, NEW valid, AnswerModel(a, calls, valid) PROVE RowsProper
  BY <1>6, <1>7 DEF AnswerModel
<1>8. CASE RejectModel(a) \/ FailModel(a) \/ LoseModel(a)
  BY <1>6, <1>8 DEF RejectModel, FailModel, LoseModel
<1> QED BY <1>3, <1>4, <1>5, <1>7, <1>8 DEF ModelStep

\* The rows of a batch that had none.
LEMMA BatchRows ==
  ASSUME RowsShaped, TriesFit, NEW m, Rows(m) = {}, NEW calls \in Seq(Tools), NEW status,
         \A i \in DOMAIN calls : status[i] \in CallStatus \ {"absent"},
         ledger' = WithRows(m, calls, status)
  PROVE  RowsProper
<1> DEFINE s(c) == [Absent EXCEPT !.status = status[c[2]], !.class = calls[c[2]].class]
           new(c) == IsTool(c) /\ c[1] = m /\ c[2] \in DOMAIN calls
<1>1. ledger' = [c \in Calls |-> IF new(c) THEN s(c) ELSE ledger[c]]
  BY DEF WithRows
<1>2. ASSUME NEW c \in Calls, new(c) PROVE Proper(c, s(c))
  <2>1. c = <<c[1], c[2]>> /\ c[2] \in 1 .. MaxBatch
    BY <1>2, CallForms
  <2>2. ledger[<<m, c[2]>>].status = "absent"
    BY <2>1 DEF Rows
  <2>3. ledger[c].status = "absent"
    BY <1>2, <2>1, <2>2
  <2>4. ledger[c].tries = <<>>
    BY <2>3 DEF TriesFit
  <2>5. calls[c[2]].class \in Classes /\ status[c[2]] \in CallStatus \ {"absent"}
    <3>1. calls[c[2]] \in Tools
      BY <1>2
    <3> QED BY <1>2, <3>1 DEF Tools
  <2> QED BY <2>4, <2>5, PlainRows
<1>3. \A c \in Calls : Proper(c, ledger[c])
  BY PlainRows
<1> HIDE DEF s, new
<1>4. \A c \in Calls : ledger'[c] = IF new(c) THEN s(c) ELSE ledger[c]
  BY <1>1
<1>5. \A c \in Calls : Proper(c, ledger'[c])
  BY <1>2, <1>3, <1>4
<1>6. ledger' = [c \in Calls |-> ledger'[c]]
  BY <1>1
<1> QED BY <1>5, <1>6 DEF RowsProper

\* What the response asks for.
LEMMA PlanRows ==
  ASSUME LedgerInv, NEW a \in Attempts, PlanStep(a)
  PROVE  RowsProper
<1>1. RowsShaped /\ TriesFit /\ CheckpointsShaped
  BY DEF LedgerInv, Shaped
<1>2. Asked(a) \in Seq(Tools)
  BY <1>1, ExecutorFacts DEF Asked, IsCheckpoint
<1> DEFINE m == Local(a).model
           calls == Asked(a)
<1>3. CASE PlanApproval(a)
  <2> DEFINE held == [i \in DOMAIN calls |-> IF calls[i].approval THEN "awaiting_approval" ELSE "validated"]
  <2>1. ledger' = WithRows(m, calls, held) /\ Rows(m) = {}
    BY <1>3 DEF PlanApproval
  <2>2. \A i \in DOMAIN calls : held[i] \in CallStatus \ {"absent"}
    BY DEF CallStatus
  <2> HIDE DEF held, calls, m
  <2> QED BY <1>1, <1>2, <2>1, <2>2, BatchRows DEF calls
<1>4. CASE PlanProposals(a)
  <2> DEFINE held == Batch(calls, "awaiting_approval")
  <2>1. ledger' = WithRows(m, calls, held) /\ Rows(m) = {}
    BY <1>4 DEF PlanProposals
  <2>2. \A i \in DOMAIN calls : held[i] \in CallStatus \ {"absent"}
    BY DEF CallStatus, Batch
  <2> HIDE DEF held, calls, m
  <2> QED BY <1>1, <1>2, <2>1, <2>2, BatchRows DEF calls
<1>5. CASE SearchMemory(a)
  <2> DEFINE found == Batch(calls, "completed")
  <2>1. ledger' = WithRows(m, calls, found) /\ Rows(m) = {}
    BY <1>5 DEF SearchMemory
  <2>2. \A i \in DOMAIN calls : found[i] \in CallStatus \ {"absent"}
    BY DEF CallStatus, Batch
  <2> HIDE DEF found, calls, m
  <2> QED BY <1>1, <1>2, <2>1, <2>2, BatchRows DEF calls
<1>6. CASE PlanTools(a) \/ ReplaySearch(a) \/ PlanRefused(a) \/ Repair(a) \/ RepairsSpent(a)
  <2>1. UNCHANGED ledger
    BY <1>6 DEF PlanTools, ReplaySearch, PlanRefused, Repair, RepairsSpent, rows
  <2> QED BY <1>1, <2>1, NoRow
<1> QED BY <1>3, <1>4, <1>5, <1>6 DEF PlanStep

\* The place of a call in a batch, if there is one with the given status.
LEMMA NextIsAPlace ==
  ASSUME NEW a, IsCheckpoint(Local(a)), Fits(Local(a)), NEW status, Places(Local(a), status) # {}
  PROVE  /\ NextOf(a, status) \in DOMAIN Local(a).batch /\ NextOf(a, status) \in Nat
         /\ Local(a).batch[NextOf(a, status)] = status
         /\ ClassOf(Local(a), NextOf(a, status)) \in Classes
<1> DEFINE ck == Local(a)
           S == Places(ck, status)
           i == NextOf(a, status)
<1>1. /\ ck.batch \in Seq(CallStatus) /\ ck.calls \in Seq(Tools)
      /\ DOMAIN ck.batch = 1 .. Len(ck.batch) /\ DOMAIN ck.calls = 1 .. Len(ck.calls)
      /\ Len(ck.batch) \in Nat /\ Len(ck.calls) \in Nat
  BY DEF IsCheckpoint
<1>2. S \subseteq DOMAIN ck.batch /\ S \subseteq Nat
  BY <1>1 DEF Places
<1>3. i \in S
  BY <1>2, MinIsIn DEF NextOf
<1>4. i \in DOMAIN ck.batch /\ i \in Nat /\ ck.batch[i] = status
  BY <1>2, <1>3 DEF Places
<1>5. Len(ck.batch) = Len(ck.calls)
  BY <1>1, <1>4 DEF Fits
<1>6. ck.calls[i] \in Tools
  BY <1>1, <1>4, <1>5
<1>7. ClassOf(ck, i) \in Classes
  BY <1>6 DEF ClassOf, Tools
<1> QED BY <1>4, <1>7

\* The tools of a batch.
LEMMA ToolRows ==
  ASSUME LedgerInv, NEW a \in Attempts, ToolStep(a)
  PROVE  RowsProper
<1>1. RowsShaped /\ TriesFit /\ CheckpointsShaped
  BY DEF LedgerInv, Shaped
<1>2. a \in Nat /\ IsCheckpoint(Local(a)) /\ Fits(Local(a))
  BY <1>1, ExecutorFacts
<1>3. CASE PrepareTool(a)
  <2> DEFINE i == NextOf(a, "requested")
             c == Tool(Local(a), i)
             class == ClassOf(Local(a), i)
  <2>1. ledger' = [ledger EXCEPT ![c] = Prepared(class, a)] /\ ledger[c].status = "absent"
    BY <1>3 DEF PrepareTool, IsNew
  <2>2. class \in Classes
    BY <1>2, <1>3, NextIsAPlace DEF PrepareTool
  <2> HIDE DEF c, class
  <2>3. c \in Calls => Proper(c, Prepared(class, a))
    BY <1>1, <1>2, <2>1, <2>2, PlainRows DEF TriesFit
  <2> QED BY <1>1, <2>1, <2>3, OneRow
<1>4. CASE RetryTool(a)
  <2> DEFINE c == Tool(Local(a), NextOf(a, "retry_ready"))
  <2>1. ledger' = [ledger EXCEPT ![c] = Retried(c, a)] /\ ledger[c].status = "retry_ready"
    BY <1>4 DEF RetryTool
  <2> HIDE DEF c
  <2>2. ASSUME c \in Calls PROVE Proper(c, Retried(c, a))
    <3>1. /\ Lawful(IsCount(c), ledger[c], Retried(c, a))
          /\ LatestTry(c) > 0 => Retried(c, a).tries[LatestTry(c)] = LastTry(c)
      BY <1>1, <1>2, <2>1, <2>2, RowFacts, RetriedRow
    <3> QED BY <3>1 DEF Proper, Owned
  <2> QED BY <1>1, <2>1, <2>2, OneRow
<1>5. CASE StartTool(a)
  <2> DEFINE c == Tool(Local(a), NextOf(a, "prepared"))
  <2>1. /\ ledger' = [ledger EXCEPT ![c] = Moved(c, "running", "pending", "started")]
        /\ IsOwner(a) /\ LastTry(c).by = a
    BY <1>5 DEF StartTool, LastTry
  <2> HIDE DEF c
  <2> QED BY <1>1, <2>1, OwnerMoves DEF EffectStatus
<1>6. ASSUME Returns(a), NEW status \in {"completed", "failed", "outcome_unknown"},
             NEW effect \in {"succeeded", "failed", "outcome_unknown"}, Finishes(a, Running(a), status, effect)
      PROVE  RowsProper
  <2> DEFINE c == Running(a)
  <2>1. /\ ledger' = [ledger EXCEPT ![c] = Moved(c, status, effect, effect)]
        /\ ledger[c].status = "running" /\ IsOwner(a) /\ exec[a].pc \in {"tool", "retool"}
    BY <1>6 DEF Returns, Finishes, At
  <2>2. c = InHand(exec[a])
    BY <2>1 DEF InHand, Running, Local
  <2> HIDE DEF c
  <2>3. c \in Calls /\ LatestTry(c) > 0 => LastTry(c).by = a
    BY <2>1, <2>2, HandFacts DEF Busy
  <2>4. effect \in EffectStatus
    BY DEF EffectStatus
  <2> QED BY <1>1, <2>1, <2>3, <2>4, OwnerMoves
<1>7. CASE CompleteTool(a) \/ LoseTool(a) \/ \E fatal \in BOOLEAN : FailTool(a, fatal)
  BY <1>6, <1>7 DEF CompleteTool, LoseTool, FailTool
<1>8. CASE SettleBatch(a)
  BY <1>1, <1>8, NoRow DEF SettleBatch
<1> QED BY <1>3, <1>4, <1>5, <1>7, <1>8 DEF ToolStep

\* The end of a run, whoever ends it.
LEMMA EndRows ==
  ASSUME RowsShaped, TriesFit, ledger' = [c \in Calls |-> Fenced(c)]
  PROVE  RowsProper
<1>1. \A c \in Calls : ledger'[c] = Fenced(c) /\ Proper(c, Fenced(c))
  BY EndProper
<1>2. ledger' = [c \in Calls |-> ledger'[c]]
  BY <1>1
<1> QED BY <1>1, <1>2 DEF RowsProper

\* Leases and deadlines.
LEMMA LeaseRows ==
  ASSUME LedgerInv, NEW a \in Attempts, LeaseStep(a) \/ DeadlineStep(a)
  PROVE  RowsProper
<1>1. RowsShaped /\ TriesFit
  BY DEF LedgerInv, Shaped
<1>2. CASE RecoverExhausted(a) \/ TimeOutAndFail(a)
  BY <1>1, <1>2, EndRows DEF RecoverExhausted, TimeOutAndFail, EndRun, EndsAs
<1>3. ASSUME NEW c \in Calls, RecoverUnknown(a, c) PROVE RowsProper
  <2> DEFINE s == Moved(c, "outcome_unknown", "outcome_unknown", "outcome_unknown")
  <2>1. ledger' = [ledger EXCEPT ![c] = s] /\ ledger[c] \in CallRow /\ Fitting(ledger[c])
    BY <1>1, <1>3, RowFacts DEF RecoverUnknown
  <2>2. /\ Lawful(IsCount(c), ledger[c], s)
        /\ LatestTry(c) > 0 => s.tries[LatestTry(c)] = [LastTry(c) EXCEPT !.status = "outcome_unknown"]
    BY <2>1, MovedRow DEF CallStatus, EffectStatus, TryStatus
  <2> HIDE DEF s
  <2>3. LatestTry(c) > 0 => s.tries[LatestTry(c)].status # "started"
                            /\ s.tries[LatestTry(c)].status \notin {"succeeded", "failed"}
    <3>1. LatestTry(c) > 0 => LastTry(c) \in TryRow
      BY <2>1 DEF LastTry, LatestTry, CallRow
    <3> QED BY <2>2, <3>1 DEF TryRow
  <2>4. Proper(c, s)
    BY <2>2, <2>3 DEF Proper, Owned
  <2> QED BY <1>1, <2>1, <2>4, OneRow
<1>4. CASE RecoverLease(a)
  <2> DEFINE S == Started(a) \cup Pending(a)
  <2>1. /\ ledger' = [c \in Calls |-> IF c \in S THEN Reopened(c) ELSE ledger[c]]
        /\ \A c \in Started(a) : ~Coordinated(c)
    BY <1>4 DEF RecoverLease
  <2>2. ASSUME NEW c \in Calls, c \in S PROVE Proper(c, Reopened(c))
    <3>1. ledger[c] \in CallRow /\ Fitting(ledger[c])
      BY <1>1, RowFacts
    <3>2. LatestTry(c) > 0 /\ LastTry(c).status \in {"started", "prepared"}
      BY <2>2 DEF Started, Pending, TriedBy
    <3>3. LastTry(c).status = "started" => IsCount(c) \/ ledger[c].class # "non_idempotent"
      BY <2>1, <2>2 DEF Started, Pending, TriedBy, Coordinated
    <3>4. LastTry(c) \in TryRow
      BY <3>1, <3>2 DEF LastTry, LatestTry, CallRow
    <3>5. PICK t \in {"outcome_unknown", "superseded_before_start"} :
             /\ Reopened(c) = Moved(c, "retry_ready", "pending", t)
             /\ t = "superseded_before_start" <=> LastTry(c).status = "prepared"
      BY <3>2 DEF Reopened
    <3>6. t = "superseded_before_start" => ~Sent(LastTry(c))
      BY <3>5 DEF Sent
    <3>7. t = "superseded_before_start" \/ IsCount(c) \/ ledger[c].class # "non_idempotent"
      BY <3>2, <3>3, <3>5
    <3>8. /\ Lawful(IsCount(c), ledger[c], Moved(c, "retry_ready", "pending", t))
          /\ Moved(c, "retry_ready", "pending", t).tries[LatestTry(c)] = [LastTry(c) EXCEPT !.status = t]
      <4>1. "retry_ready" \in CallStatus /\ "pending" \in EffectStatus /\ t \in TryStatus
        BY DEF CallStatus, EffectStatus, TryStatus
      <4>2. t # "prepared"
        OBVIOUS
      <4>3. "retry_ready" = "retry_ready" => \/ t = "superseded_before_start"
                                             \/ IsCount(c) \/ ledger[c].class # "non_idempotent"
        BY <3>7
      <4> DEFINE m == Moved(c, "retry_ready", "pending", t)
      <4>4. /\ Lawful(IsCount(c), ledger[c], m)
            /\ LatestTry(c) > 0 => m.tries[LatestTry(c)] = [LastTry(c) EXCEPT !.status = t]
        BY <3>1, <3>6, <4>1, <4>2, <4>3, MovedRow
      <4> QED BY <3>2, <4>4
    <3>9. Reopened(c).tries[LatestTry(c)].status = t
      BY <3>4, <3>5, <3>8 DEF TryRow
    <3> QED BY <3>5, <3>8, <3>9 DEF Proper, Owned
  <2>3. \A c \in Calls : Proper(c, ledger[c])
    BY <1>1, PlainRows
  <2> HIDE DEF S
  <2>4. \A c \in Calls : ledger'[c] = IF c \in S THEN Reopened(c) ELSE ledger[c]
    BY <2>1
  <2>5. \A c \in Calls : Proper(c, ledger'[c])
    BY <2>2, <2>3, <2>4
  <2>6. ledger' = [c \in Calls |-> ledger'[c]]
    BY <2>1
  <2> QED BY <2>5, <2>6 DEF RowsProper
<1>5. CASE TimeOutAndRetry(a)
  BY <1>1, <1>5, NoRow DEF TimeOutAndRetry
<1> QED BY <1>2, <1>3, <1>4, <1>5 DEF LeaseStep, DeadlineStep

\* What a person says of the outcome of a call.
LEMMA ResolvedProper ==
  ASSUME RowsShaped, TriesFit, Resolvable, Unknown \in Calls,
         NEW status \in {"completed", "retry_ready", "abandoned_unknown"}, NEW effect \in EffectStatus,
         NEW resolution \in Resolutions,
         status = "retry_ready" => resolution = "confirm_failed_retry_safe"
  PROVE  Proper(Unknown, Resolved(status, effect, resolution))
<1>1. ledger[Unknown] \in CallRow /\ Fitting(ledger[Unknown])
  BY RowFacts
<1>2. /\ Lawful(IsCount(Unknown), ledger[Unknown], Resolved(status, effect, resolution))
      /\ LatestTry(Unknown) > 0 =>
           Resolved(status, effect, resolution).tries[LatestTry(Unknown)].status = LastTry(Unknown).status
  BY <1>1, ResolvedRow
<1> QED BY <1>2 DEF Proper, Owned

\* What people decide.
LEMMA PeopleRows ==
  ASSUME LedgerInv, PeopleStep
  PROVE  RowsProper
<1>1. RowsShaped /\ TriesFit
  BY DEF LedgerInv, Shaped
<1>2. \A c \in Calls : Proper(c, ledger[c])
  BY <1>1, PlainRows
<1>3. ASSUME NEW rejected \in SUBSET Rejectable, Approve(rejected) PROVE RowsProper
  <2> DEFINE n == Current + 1
             s(c) == IF ~Batched(c) THEN ledger[c]
                     ELSE IF c[2] \in rejected THEN [ledger[c] EXCEPT !.status = "denied"]
                     ELSE Prepared(ledger[c].class, n)
  <2>1. ledger' = [c \in Calls |-> s(c)] /\ Answerable
    BY <1>3 DEF Approve
  <2>2. n \in Nat
    <3>1. attempts \in Seq([status : AttemptStatus, epoch : Nat])
      BY DEF LedgerInv, Shaped, RunShaped
    <3> QED BY <3>1 DEF Current
  <2> HIDE DEF n
  <2>3. ASSUME NEW c \in Calls PROVE Proper(c, s(c))
    <3>1. CASE ~Batched(c)
      BY <1>2, <3>1
    <3>2. CASE Batched(c)
      <4>1. ledger[c].tries = <<>>
        BY <1>1, <2>1, <3>2 DEF Answerable, Untried, TriesFit
      <4>2. ledger[c].class \in Classes
        BY <1>1 DEF RowsShaped, CallRow
      <4> QED BY <1>1, <2>2, <3>2, <4>1, <4>2, PlainRows DEF CallStatus
    <3> QED BY <3>1, <3>2
  <2> HIDE DEF s
  <2> QED BY <2>1, <2>3 DEF RowsProper
<1>4. CASE DecideProposals
  <2> DEFINE s(c) == IF Batched(c) THEN [ledger[c] EXCEPT !.status = "completed"] ELSE ledger[c]
  <2>1. ledger' = [c \in Calls |-> s(c)] /\ Untried({"awaiting_approval"})
    BY <1>4 DEF DecideProposals
  <2>2. ASSUME NEW c \in Calls PROVE Proper(c, s(c))
    <3>1. CASE ~Batched(c)
      BY <1>2, <3>1
    <3>2. CASE Batched(c)
      <4>1. ledger[c].tries = <<>>
        BY <1>1, <2>1, <3>2 DEF Untried, TriesFit
      <4> QED BY <1>1, <3>2, <4>1, PlainRows DEF CallStatus
    <3> QED BY <3>1, <3>2
  <2> HIDE DEF s
  <2> QED BY <2>1, <2>2 DEF RowsProper
<1>5. ASSUME NEW rejected \in SUBSET Rejectable, Reject(rejected) PROVE RowsProper
  <2> DEFINE status(i) == IF i \in rejected THEN "denied" ELSE "cancelled_before_start"
             s(c) == IF Batched(c) THEN [ledger[c] EXCEPT !.status = status(c[2])] ELSE ledger[c]
  <2>1. ledger' = [c \in Calls |-> s(c)] /\ Answerable
    BY <1>5 DEF Reject
  <2>2. \A i : status(i) \in CallStatus \ {"absent"}
    BY DEF CallStatus
  <2> HIDE DEF status
  <2>3. ASSUME NEW c \in Calls PROVE Proper(c, s(c))
    <3>1. CASE ~Batched(c)
      BY <1>2, <3>1
    <3>2. CASE Batched(c)
      <4>1. ledger[c].tries = <<>>
        BY <1>1, <2>1, <3>2 DEF Answerable, Untried, TriesFit
      <4> QED BY <1>1, <2>2, <3>2, <4>1, PlainRows
    <3> QED BY <3>1, <3>2
  <2> HIDE DEF s
  <2> QED BY <2>1, <2>3 DEF RowsProper
<1>6. CASE ExpireApproval
  BY <1>1, <1>6, EndRows DEF ExpireApproval, EndsAs
<1>7. ASSUME Resolvable, NEW status \in {"completed", "retry_ready"}, NEW effect \in EffectStatus,
             NEW resolution \in Resolutions, status = "retry_ready" => resolution = "confirm_failed_retry_safe",
             ledger' = [ledger EXCEPT ![Unknown] = Resolved(status, effect, resolution)]
      PROVE  RowsProper
  BY <1>1, <1>7, OneRow, ResolvedProper
<1>8. CASE ConfirmSucceeded \/ ConfirmFailed
  <2>1. /\ "succeeded" \in EffectStatus /\ "pending" \in EffectStatus
        /\ "confirm_succeeded" \in Resolutions /\ "confirm_failed_retry_safe" \in Resolutions
    BY DEF EffectStatus, Resolutions
  <2> QED BY <1>7, <1>8, <2>1 DEF ConfirmSucceeded, ConfirmFailed
<1>9. CASE AbortRun
  <2> DEFINE given == Resolved("abandoned_unknown", "abandoned_unknown", "abort_run")
  <2>1. ledger' = [c \in Calls |-> IF c = Unknown THEN given ELSE Fenced(c)] /\ Resolvable
    BY <1>9 DEF AbortRun
  <2>2. Unknown \in Calls => Proper(Unknown, given)
    BY <1>1, <2>1, ResolvedProper DEF EffectStatus, Resolutions
  <2>3. \A c \in Calls : Proper(c, Fenced(c))
    BY <1>1, EndProper
  <2> HIDE DEF given
  <2>4. \A c \in Calls : Proper(c, ledger'[c])
    BY <2>1, <2>2, <2>3
  <2>5. ledger' = [c \in Calls |-> ledger'[c]]
    BY <2>1
  <2> QED BY <2>4, <2>5 DEF RowsProper
<1> QED BY <1>3, <1>4, <1>5, <1>6, <1>8, <1>9 DEF PeopleStep

\* No step does more to a row than it may.
LEMMA StepRows ==
  ASSUME LedgerInv, [Next]_vars
  PROVE  RowsProper
<1>1. RowsShaped /\ TriesFit
  BY DEF LedgerInv, Shaped
<1>2. CASE RunStep \/ Interrupt \/ Resume
  BY <1>1, <1>2, NoRow DEF RunStep, Begin, FireRetry, Settle, OthersFinish, Interrupt, Resume
<1>3. CASE Cancel
  BY <1>1, <1>3, EndRows DEF Cancel, EndRun, EndsAs
<1>4. CASE PeopleStep
  BY <1>4, PeopleRows
<1>5. ASSUME NEW a \in Attempts, ExecutorStep(a) PROVE RowsProper
  <2>1. CASE CountStep(a) \/ ModelStep(a) \/ PlanStep(a) \/ ToolStep(a)
    BY <2>1, CountRows, ModelCallRows, PlanRows, ToolRows
  <2>2. CASE ResumeStep(a) \/ SucceedNode(a)
    <3>1. UNCHANGED ledger
      BY <2>2 DEF ResumeStep, ResumeFresh, ResumeCount, ResumeModel, ResumeCompleted, ResumeRepair,
                  ResumeTools, ResumeInvalid, SucceedNode, rows
    <3> QED BY <1>1, <3>1, NoRow
  <2>3. CASE FailNode(a)
    BY <1>1, <2>3, EndRows DEF FailNode, EndsAs
  <2> QED BY <1>5, <2>1, <2>2, <2>3 DEF ExecutorStep
<1>6. ASSUME NEW a \in Attempts, Quit(a) \/ LeaseStep(a) \/ DeadlineStep(a) PROVE RowsProper
  <2>1. CASE Quit(a)
    BY <1>1, <2>1, NoRow DEF Quit, rows
  <2> QED BY <1>6, <2>1, LeaseRows
<1>7. CASE UNCHANGED vars
  BY <1>1, <1>7, NoRow DEF vars
<1> QED BY <1>2, <1>3, <1>4, <1>5, <1>6, <1>7 DEF Next, ControlStep

(***************************************************************************)
(* What every step does to the checkpoints.                                *)
(***************************************************************************)
\* The rows keep their shape.
LEMMA RowsStayShaped ==
  ASSUME RowsProper
  PROVE  RowsShaped' /\ TriesFit'
<1>1. \A c \in Calls : ledger'[c] \in CallRow /\ Fitting(ledger'[c])
  BY DEF RowsProper, Proper, Lawful
<1>2. RowsShaped'
  BY <1>1 DEF RowsProper, RowsShaped
<1>3. TriesFit'
  BY <1>1 DEF TriesFit, Fitting
<1> QED BY <1>2, <1>3

\* The checkpoint a node starts with.
LEMMA NoCheckpointFits == IsCheckpoint(NoCheckpoint) /\ Fits(NoCheckpoint)
<1>1. NoCount \in CountState
  BY DEF NoCount, CountState, CallStatus
<1>2. IsCheckpoint(NoCheckpoint)
  BY <1>1 DEF NoCheckpoint, IsCheckpoint, CallStatus
<1> QED BY <1>2 DEF Fits, NoCheckpoint

\* A call of a checkpoint takes another status.
LEMMA MarkedFits ==
  ASSUME NEW ck, IsCheckpoint(ck), Fits(ck), NEW c, NEW status \in CallStatus,
         IsModel(c) /\ status \in {"prepared", "running", "retry_ready", "outcome_unknown"} => ck.batch = <<>>
  PROVE  /\ IsCheckpoint(Marked(ck, c, status)) /\ Fits(Marked(ck, c, status))
         /\ ~IsModel(c) => Marked(ck, c, status).status = ck.status
         /\ Marked(ck, c, status).model = ck.model /\ Marked(ck, c, status).mark = ck.mark
         /\ Marked(ck, c, status).count.no = ck.count.no /\ Marked(ck, c, status).calls = ck.calls
<1> DEFINE new == Marked(ck, c, status)
<1>1. CASE IsModel(c)
  <2>1. new = [ck EXCEPT !.status = status]
    BY <1>1 DEF Marked
  <2>2. IsCheckpoint(new) /\ new.status = status /\ new.batch = ck.batch /\ new.calls = ck.calls
        /\ new.model = ck.model /\ new.mark = ck.mark /\ new.count = ck.count
    BY <2>1 DEF IsCheckpoint
  <2> HIDE DEF new
  <2>3. Fits(new)
    BY <1>1, <2>2 DEF Fits
  <2> QED BY <1>1, <2>2, <2>3 DEF new
<1>2. CASE ~IsModel(c) /\ IsCount(c)
  <2>1. new = [ck EXCEPT !.count = [ck.count EXCEPT !.status = status]]
    BY <1>2 DEF Marked
  <2>2. [ck.count EXCEPT !.status = status] \in CountState /\ [ck.count EXCEPT !.status = status].no = ck.count.no
    BY DEF IsCheckpoint, CountState
  <2>3. IsCheckpoint(new) /\ new.status = ck.status /\ new.batch = ck.batch /\ new.calls = ck.calls
        /\ new.model = ck.model /\ new.mark = ck.mark /\ new.count.no = ck.count.no
    BY <2>1, <2>2 DEF IsCheckpoint
  <2> HIDE DEF new
  <2>4. Fits(new)
    BY <2>3 DEF Fits
  <2> QED BY <2>3, <2>4 DEF new
<1>3. CASE ~IsModel(c) /\ ~IsCount(c)
  <2> DEFINE batch == [ck.batch EXCEPT ![c[2]] = status]
  <2>1. new = [ck EXCEPT !.batch = batch]
    BY <1>3 DEF Marked
  <2>2. ck.batch \in Seq(CallStatus)
    BY DEF IsCheckpoint
  <2>3. batch \in Seq(CallStatus) /\ Len(batch) = Len(ck.batch)
    <3> DEFINE n == Len(ck.batch)
    <3>1. n \in Nat /\ ck.batch \in [1 .. n -> CallStatus]
      BY <2>2
    <3>2. batch = [j \in 1 .. n |-> IF j = c[2] THEN status ELSE ck.batch[j]]
      BY <3>1
    <3> HIDE DEF n, batch
    <3>3. batch \in [1 .. n -> CallStatus]
      BY <3>1, <3>2
    <3> QED BY <3>1, <3>3 DEF n
  <2> HIDE DEF batch
  <2>4. IsCheckpoint(new) /\ new.status = ck.status /\ new.batch = batch /\ new.calls = ck.calls
        /\ new.model = ck.model /\ new.mark = ck.mark /\ new.count = ck.count
    BY <2>1, <2>3 DEF IsCheckpoint
  <2> HIDE DEF new
  <2>5. ck.batch = <<>> <=> batch = <<>>
    BY <2>2, <2>3
  <2>6. Fits(new)
    BY <2>3, <2>4, <2>5 DEF Fits
  <2> QED BY <2>4, <2>6 DEF new
<1> QED BY <1>1, <1>2, <1>3

\* A checkpoint in which one call of the batch takes another status.
LEMMA PlacedFits ==
  ASSUME NEW ck, IsCheckpoint(ck), Fits(ck), NEW i \in DOMAIN ck.batch, NEW status \in CallStatus
  PROVE  /\ [ck.batch EXCEPT ![i] = status] \in Seq(CallStatus)
         /\ Len([ck.batch EXCEPT ![i] = status]) = Len(ck.calls)
         /\ ck.status \notin {"prepared", "running", "retry_ready", "outcome_unknown"}
<1>1. ck.batch \in Seq(CallStatus) /\ ck.calls \in Seq(Tools)
  BY DEF IsCheckpoint
<1>2. ck.batch # <<>>
  BY <1>1
<1> QED BY <1>1, <1>2 DEF Fits

\* An executor goes on with the checkpoint ck.
LEMMA Stepped ==
  ASSUME CheckpointsShaped, NEW a \in Attempts, NEW pc \in Pcs, NEW ck, IsCheckpoint(ck), Fits(ck),
         Stands([pc |-> pc, ck |-> ck]), Step(a, pc, ck), IsCheckpoint(ckpt'), Fits(ckpt')
  PROVE  CheckpointsShaped'
<1>1. exec = [b \in Attempts |-> exec[b]] /\ \A b \in Attempts : IsExecutor(exec[b])
  BY DEF CheckpointsShaped
<1> DEFINE e == [[exec[a] EXCEPT !.pc = pc] EXCEPT !.ck = ck]
<1>2. IsExecutor(exec[a])
  BY <1>1
<1>3. exec' = [exec EXCEPT ![a] = e]
  BY <1>1 DEF Step
<1>4. IsExecutor(e) /\ e.pc = pc /\ e.ck = ck
  BY <1>2 DEF IsExecutor
<1>5. Fits(e.ck) /\ Stands(e)
  BY <1>4 DEF Stands
<1> HIDE DEF e
<1>6. exec' = [b \in Attempts |-> exec'[b]] /\ \A b \in Attempts : IsExecutor(exec'[b])
  BY <1>1, <1>3, <1>4
<1>7. \A b \in Attempts : exec'[b] = IF b = a THEN e ELSE exec[b]
  BY <1>1, <1>3
<1>8. \A b \in Attempts : Fits(exec'[b].ck) /\ Stands(exec'[b])
  BY <1>5, <1>7 DEF CheckpointsShaped
<1> QED BY <1>6, <1>8 DEF CheckpointsShaped

\* Some executors end, and the others stay where they are.
LEMMA Ended ==
  ASSUME CheckpointsShaped, IsCheckpoint(ckpt'), Fits(ckpt'),
         \/ UNCHANGED exec
         \/ \E a : Leave(a) \/ Lapse(a)
         \/ LapseAll
  PROVE  CheckpointsShaped'
<1>1. exec = [b \in Attempts |-> exec[b]] /\ \A b \in Attempts : IsExecutor(exec[b])
  BY DEF CheckpointsShaped
<1>2. IsExecutor(Gone) /\ Fits(Gone.ck) /\ Stands(Gone)
  BY NoCheckpointFits DEF Gone, IsExecutor, Pcs, Stands
<1>3. /\ exec' = [a \in Attempts |-> exec'[a]]
      /\ \A a \in Attempts : exec'[a] = exec[a] \/ exec'[a] = Gone
  BY <1>1 DEF Leave, Lapse, LapseAll
<1>4. \A a \in Attempts : IsExecutor(exec'[a])
  BY <1>1, <1>2, <1>3
<1>5. \A a \in Attempts : Fits(exec'[a].ck) /\ Stands(exec'[a])
  BY <1>2, <1>3 DEF CheckpointsShaped
<1>6. exec' = [b \in Attempts |-> exec'[b]] /\ \A b \in Attempts : IsExecutor(exec'[b])
  BY <1>3, <1>4
<1> QED BY <1>5, <1>6 DEF CheckpointsShaped

\* An attempt takes the checkpoint up.
LEMMA ResumeCheckpoints ==
  ASSUME CheckpointsShaped, NEW a \in Attempts, ResumeStep(a)
  PROVE  CheckpointsShaped'
<1>1. UNCHANGED ckpt
  BY DEF ResumeStep, ResumeFresh, ResumeCount, ResumeModel, ResumeCompleted, ResumeRepair, ResumeTools,
         ResumeInvalid, rows
<1>2. PICK pc \in Pcs : /\ Step(a, pc, ckpt)
                        /\ pc = "again" => ckpt.status = "retry_ready"
                        /\ pc = "plan" => ckpt.status = "completed"
                        /\ pc \notin {"send", "receive"}
  BY DEF ResumeStep, ResumeFresh, ResumeCount, ResumeModel, ResumeCompleted, ResumeRepair, ResumeTools,
         ResumeInvalid, Pcs
<1>3. Stands([pc |-> pc, ck |-> ckpt])
  BY <1>2 DEF Stands
<1>4. IsCheckpoint(ckpt) /\ Fits(ckpt)
  BY DEF CheckpointsShaped
<1> QED BY <1>1, <1>2, <1>3, <1>4, Stepped

\* An executor stores its checkpoint and goes on with it.
LEMMA Saved ==
  ASSUME CheckpointsShaped, NEW a \in Attempts, NEW pc \in Pcs, NEW ck, IsCheckpoint(ck), Fits(ck),
         pc = "send" => ck.status = "prepared", pc = "receive" => ck.status = "running",
         pc = "plan" => ck.status = "completed", pc # "again",
         Saves(a, pc, ck) \/ (Step(a, pc, ck) /\ UNCHANGED ckpt)
  PROVE  CheckpointsShaped'
<1>1. Stands([pc |-> pc, ck |-> ck])
  BY DEF Stands
<1>2. Step(a, pc, ck) /\ IsCheckpoint(ckpt') /\ Fits(ckpt')
  BY DEF Saves, CheckpointsShaped
<1> QED BY <1>1, <1>2, Stepped

\* Counting the tokens of the first request.
LEMMA CountCheckpoints ==
  ASSUME CheckpointsShaped, NEW a \in Attempts, CountStep(a)
  PROVE  CheckpointsShaped'
<1>1. /\ a \in Nat /\ IsCheckpoint(Local(a)) /\ Fits(Local(a))
      /\ IsExecutor(exec[a])
  BY ExecutorFacts
<1> DEFINE ck == Local(a)
<1>2. /\ ck.count \in CountState /\ ck.count.no \in Nat /\ exec[a].trim \in Nat
  BY <1>1 DEF IsExecutor, IsCheckpoint, CountState
<1>3. CASE PrepareCount(a)
  <2> DEFINE k == ck.count.no + 1
             count == [no |-> k, status |-> "prepared", trim |-> exec[a].trim, fits |-> FALSE]
             new == [ck EXCEPT !.by = a, !.mark = <<0, k, 1>>, !.count = count]
  <2>1. Saves(a, "counting", new)
    BY <1>3 DEF PrepareCount
  <2>2. k \in Nat /\ count \in CountState
    BY <1>2 DEF CountState, CallStatus
  <2> HIDE DEF count, k
  <2>4. IsCheckpoint(new) /\ new.status = ck.status /\ new.batch = ck.batch /\ new.calls = ck.calls
    BY <1>1, <2>2 DEF IsCheckpoint
  <2> HIDE DEF new
  <2>5. Fits(new)
    BY <1>1, <2>4 DEF Fits
  <2> QED BY <2>1, <2>4, <2>5, Saved DEF Pcs
<1>4. CASE RetryCount(a)
  <2> DEFINE c == CountOf(ck)
             old == Marked(ck, c, "prepared")
             new == [old EXCEPT !.by = a, !.mark = Append(c, LatestTry(c) + 1)]
  <2>1. Saves(a, "counting", new)
    BY <1>4 DEF RetryCount
  <2>2. ~IsModel(c) /\ c = <<0, ck.count.no>>
    BY DEF CountOf, IsModel
  <2>3. IsCheckpoint(old) /\ Fits(old)
    BY <1>1, <2>2, MarkedFits DEF CallStatus
  <2> HIDE DEF c, old
  <2>5. IsCheckpoint(new) /\ new.status = old.status /\ new.batch = old.batch /\ new.calls = old.calls
    BY <1>1, <2>3 DEF IsCheckpoint
  <2> HIDE DEF new
  <2>6. Fits(new)
    BY <2>3, <2>5 DEF Fits
  <2> QED BY <2>1, <2>5, <2>6, Saved DEF Pcs
<1>5. CASE ReuseCount(a)
  <2>1. Step(a, AfterCount(ck), ck) /\ UNCHANGED ckpt
    BY <1>5 DEF ReuseCount, rows
  <2>2. AfterCount(ck) \in Pcs /\ AfterCount(ck) \in {"call", "fail", "trim"}
    BY DEF AfterCount, Pcs
  <2> HIDE DEF ck
  <2> QED BY <1>1, <2>1, <2>2, Saved DEF ck
<1>6. CASE StartCount(a)
  <2> DEFINE c == CountOf(ck)
             new == Marked(ck, c, "running")
  <2>1. Saves(a, "counted", new)
    BY <1>6 DEF StartCount
  <2>2. ~IsModel(c)
    BY DEF CountOf, IsModel
  <2>3. IsCheckpoint(new) /\ Fits(new)
    BY <1>1, <2>2, MarkedFits DEF CallStatus
  <2> HIDE DEF new
  <2> QED BY <2>1, <2>3, Saved DEF Pcs
<1>7. ASSUME NEW fits \in BOOLEAN, FinishCount(a, fits) PROVE CheckpointsShaped'
  <2> DEFINE c == CountOf(ck)
             old == Marked(ck, c, "completed")
             new == [old EXCEPT !.count.fits = fits]
  <2>1. Saves(a, AfterCount(new), new)
    BY <1>7 DEF FinishCount
  <2>2. ~IsModel(c)
    BY DEF CountOf, IsModel
  <2>3. IsCheckpoint(old) /\ Fits(old)
    BY <1>1, <2>2, MarkedFits DEF CallStatus
  <2> HIDE DEF old
  <2>4. IsCheckpoint(new) /\ new.status = old.status /\ new.batch = old.batch /\ new.calls = old.calls
    BY <2>3 DEF IsCheckpoint, CountState
  <2>5. AfterCount(new) \in Pcs /\ AfterCount(new) \in {"call", "fail", "trim"}
    BY DEF AfterCount, Pcs
  <2> HIDE DEF new
  <2>6. Fits(new)
    BY <2>3, <2>4 DEF Fits
  <2> QED BY <2>1, <2>4, <2>5, <2>6, Saved
<1>8. ASSUME NEW ok \in BOOLEAN, Reassemble(a, ok) PROVE CheckpointsShaped'
  <2> DEFINE pc == IF ok THEN "count" ELSE "fail"
             e == [exec[a] EXCEPT !.pc = pc, !.trim = @ + 1]
  <2>1. UNCHANGED ckpt /\ exec' = [exec EXCEPT ![a] = e]
    BY <1>8 DEF Reassemble, rows, CheckpointsShaped
  <2>2. pc \in Pcs /\ pc \in {"count", "fail"}
    BY DEF Pcs
  <2> HIDE DEF pc
  <2>3. e.pc = pc /\ e.ck = exec[a].ck /\ IsExecutor(e)
    <3>1. exec[a] \in [pc : Pcs, ck : {exec[a].ck}, trim : Nat] /\ exec[a].trim + 1 \in Nat
      BY <1>1 DEF IsExecutor
    <3>2. e \in [pc : Pcs, ck : {exec[a].ck}, trim : Nat] /\ e.pc = pc /\ e.ck = exec[a].ck
      BY <2>2, <3>1
    <3> HIDE DEF e
    <3> QED BY <1>1, <3>2 DEF IsExecutor
  <2>4. Fits(e.ck) /\ Stands(e)
    BY <1>1, <2>2, <2>3 DEF Stands, Local
  <2> HIDE DEF e
  <2> QED BY <2>1, <2>3, <2>4 DEF CheckpointsShaped
<1> QED BY <1>3, <1>4, <1>5, <1>6, <1>7, <1>8 DEF CountStep

\* A model call.
LEMMA ModelCheckpoints ==
  ASSUME CheckpointsShaped, NEW a \in Attempts, ModelStep(a)
  PROVE  CheckpointsShaped'
<1>1. a \in Nat /\ IsCheckpoint(Local(a)) /\ Fits(Local(a)) /\ Stands(exec[a])
  BY ExecutorFacts
<1> DEFINE ck == Local(a)
<1>2. ck.model + 1 \in Nat
  BY <1>1 DEF IsCheckpoint
<1>3. CASE PrepareModel(a)
  <2> DEFINE m == ck.model + 1
             new == [ck EXCEPT !.by = a, !.model = m, !.status = "prepared", !.mark = <<m, 1>>,
                       !.calls = <<>>, !.answered = FALSE, !.valid = FALSE, !.batch = <<>>,
                       !.filled = FALSE, !.repairing = FALSE]
  <2>1. Saves(a, "send", new)
    BY <1>3 DEF PrepareModel
  <2>2. m \in Nat
    BY <1>2
  <2> HIDE DEF m
  <2>3. IsCheckpoint(new) /\ new.status = "prepared" /\ new.batch = <<>>
    <3>1. <<>> \in Seq(Tools) /\ <<>> \in Seq(CallStatus) /\ "prepared" \in CallStatus
      BY DEF CallStatus
    <3>2. [ck EXCEPT !.by = a, !.model = m, !.status = "prepared", !.mark = <<m, 1>>]
            \in [by : Nat, count : CountState, model : Nat, status : CallStatus, calls : Seq(Tools),
                 answered : BOOLEAN, valid : BOOLEAN, batch : Seq(CallStatus), filled : BOOLEAN,
                 repairs : Nat, repairing : BOOLEAN, mark : {<<m, 1>>}]
      BY <1>1, <2>2, <3>1 DEF IsCheckpoint
    <3> DEFINE mid == [ck EXCEPT !.by = a, !.model = m, !.status = "prepared", !.mark = <<m, 1>>]
    <3>3. new = [mid EXCEPT !.calls = <<>>, !.answered = FALSE, !.valid = FALSE, !.batch = <<>>,
                            !.filled = FALSE, !.repairing = FALSE]
      OBVIOUS
    <3>4. mid.status = "prepared" /\ mid.mark = <<m, 1>>
      BY <1>1 DEF IsCheckpoint
    <3> HIDE DEF mid, new
    <3> QED BY <3>1, <3>2, <3>3, <3>4 DEF IsCheckpoint, mid
  <2> HIDE DEF new
  <2>4. Fits(new)
    BY <2>3 DEF Fits
  <2> QED BY <2>1, <2>3, <2>4, Saved DEF Pcs
<1>4. CASE RetryModel(a)
  <2> DEFINE c == ModelOf(ck)
             new == [ck EXCEPT !.by = a, !.status = "prepared", !.mark = Append(c, LatestTry(c) + 1)]
  <2>1. Saves(a, "send", new) /\ exec[a].pc = "again"
    BY <1>4 DEF RetryModel, At
  <2>2. ck.batch = <<>>
    BY <1>1, <2>1 DEF Stands, Fits, Local
  <2>3. IsCheckpoint(new) /\ new.status = "prepared" /\ new.batch = <<>>
    BY <1>1, <2>2 DEF IsCheckpoint, CallStatus
  <2> HIDE DEF new
  <2>4. Fits(new)
    BY <2>3 DEF Fits
  <2> QED BY <2>1, <2>3, <2>4, Saved DEF Pcs
<1>5. CASE StartModel(a)
  <2> DEFINE new == [ck EXCEPT !.status = "running"]
  <2>1. Saves(a, "receive", new) /\ exec[a].pc = "send"
    BY <1>5 DEF StartModel, At
  <2>2. ck.batch = <<>>
    BY <1>1, <2>1 DEF Stands, Fits, Local
  <2>3. IsCheckpoint(new) /\ new.status = "running" /\ new.batch = <<>>
    BY <1>1, <2>2 DEF IsCheckpoint, CallStatus
  <2> HIDE DEF new
  <2>4. Fits(new)
    BY <2>3 DEF Fits
  <2> QED BY <2>1, <2>3, <2>4, Saved DEF Pcs
<1>6. Receives(a) => ck.batch = <<>>
  BY <1>1 DEF Receives, At, Stands, Fits, Local
<1>7. ASSUME NEW calls \in Seq(Tools), NEW valid \in BOOLEAN, AnswerModel(a, calls, valid)
      PROVE  CheckpointsShaped'
  <2> DEFINE new == [ck EXCEPT !.status = "completed", !.calls = calls, !.valid = valid, !.answered = TRUE]
  <2>1. Saves(a, "plan", new) /\ ck.batch = <<>>
    BY <1>6, <1>7 DEF AnswerModel
  <2>2. IsCheckpoint(new) /\ new.status = "completed" /\ new.batch = <<>>
    BY <1>1, <2>1 DEF IsCheckpoint, CallStatus
  <2> HIDE DEF new
  <2>3. Fits(new)
    BY <2>2 DEF Fits
  <2> QED BY <2>1, <2>2, <2>3, Saved DEF Pcs
<1>8. ASSUME Receives(a), NEW status \in {"completed", "failed", "outcome_unknown"}
      PROVE  IsCheckpoint([ck EXCEPT !.status = status]) /\ Fits([ck EXCEPT !.status = status])
  <2> DEFINE new == [ck EXCEPT !.status = status]
  <2>1. IsCheckpoint(new) /\ new.batch = <<>>
    BY <1>1, <1>6, <1>8 DEF IsCheckpoint, CallStatus
  <2> HIDE DEF new
  <2>2. Fits(new)
    BY <2>1 DEF Fits
  <2> QED BY <2>1, <2>2 DEF new
<1>9. CASE RejectModel(a) \/ FailModel(a)
  <2>1. PICK status \in {"completed", "failed"} : Receives(a) /\ Saves(a, "fail", [ck EXCEPT !.status = status])
    BY <1>9 DEF RejectModel, FailModel
  <2> DEFINE new == [ck EXCEPT !.status = status]
  <2>2. IsCheckpoint(new) /\ Fits(new)
    BY <1>8, <2>1
  <2> HIDE DEF new
  <2>3. Saves(a, "fail", new)
    BY <2>1 DEF new
  <2> QED BY <2>2, <2>3, Saved DEF Pcs
<1>10. CASE LoseModel(a)
  <2>1. ckpt' = [ck EXCEPT !.status = "outcome_unknown"] /\ Receives(a) /\ Leave(a)
    BY <1>10 DEF LoseModel
  <2>2. IsCheckpoint(ckpt') /\ Fits(ckpt')
    BY <1>8, <2>1
  <2> QED BY <2>1, <2>2, Ended
<1>11. ASSUME NEW calls \in Batches, AnswerModel(a, calls, calls = <<>>) PROVE CheckpointsShaped'
  <2>1. calls \in Seq(Tools) /\ (calls = <<>>) \in BOOLEAN
    BY LedgerAssumption
  <2> QED BY <1>7, <1>11, <2>1
<1>12. CASE MaxRepairs > 0 /\ AnswerModel(a, <<>>, FALSE)
  <2>1. <<>> \in Seq(Tools)
    OBVIOUS
  <2> QED BY <1>7, <1>12, <2>1
<1> QED BY <1>3, <1>4, <1>5, <1>9, <1>10, <1>11, <1>12 DEF ModelStep

\* A batch of the length of what was asked for.
LEMMA BatchFits ==
  ASSUME NEW calls \in Seq(Tools), NEW batch, batch = [i \in DOMAIN calls |-> batch[i]],
         \A i \in DOMAIN calls : batch[i] \in CallStatus
  PROVE  batch \in Seq(CallStatus) /\ Len(batch) = Len(calls)
<1> DEFINE n == Len(calls)
<1>1. n \in Nat /\ DOMAIN calls = 1 .. n
  OBVIOUS
<1> HIDE DEF n
<1>2. batch \in [1 .. n -> CallStatus]
  BY <1>1
<1> QED BY <1>1, <1>2 DEF n

\* What the response asks for.
LEMMA PlanCheckpoints ==
  ASSUME CheckpointsShaped, NEW a \in Attempts, PlanStep(a)
  PROVE  CheckpointsShaped'
<1>1. a \in Nat /\ IsCheckpoint(Local(a)) /\ Fits(Local(a)) /\ Stands(exec[a])
  BY ExecutorFacts
<1> DEFINE ck == Local(a)
           calls == Asked(a)
<1>2. exec[a].pc = "plan" /\ ck.status = "completed"
  BY <1>1 DEF PlanStep, PlanTools, PlanApproval, PlanProposals, SearchMemory, ReplaySearch, PlanRefused,
              Repair, RepairsSpent, At, Stands, Local
<1>3. calls \in Seq(Tools) /\ calls = ck.calls
  BY <1>1 DEF IsCheckpoint, Asked
<1>4. ASSUME NEW batch, batch = [i \in DOMAIN calls |-> batch[i]], \A i \in DOMAIN calls : batch[i] \in CallStatus,
             NEW new, \/ new = [ck EXCEPT !.batch = batch]
                      \/ new = [ck EXCEPT !.by = a, !.batch = batch]
                      \/ \E mark : new = [ck EXCEPT !.by = a, !.mark = mark, !.batch = batch]
      PROVE  IsCheckpoint(new) /\ Fits(new)
  <2>1. batch \in Seq(CallStatus) /\ Len(batch) = Len(calls)
    BY <1>3, <1>4, BatchFits
  <2>2. IsCheckpoint(new) /\ new.status = ck.status /\ new.batch = batch /\ new.calls = calls
    BY <1>1, <1>3, <1>4, <2>1 DEF IsCheckpoint
  <2> QED BY <1>2, <2>1, <2>2 DEF Fits
<1>5. \A status \in CallStatus : /\ Batch(calls, status) = [i \in DOMAIN calls |-> Batch(calls, status)[i]]
                                 /\ \A i \in DOMAIN calls : Batch(calls, status)[i] \in CallStatus
  BY DEF Batch
<1>6. "requested" \in CallStatus /\ "completed" \in CallStatus /\ "awaiting_approval" \in CallStatus
  BY DEF CallStatus
<1>7. CASE PlanTools(a)
  <2> DEFINE new == [ck EXCEPT !.batch = Batch(calls, "requested")]
  <2>1. Step(a, "dispatch", new) /\ UNCHANGED ckpt
    BY <1>7 DEF PlanTools, rows
  <2>2. IsCheckpoint(new) /\ Fits(new)
    BY <1>4, <1>5, <1>6
  <2> HIDE DEF new
  <2> QED BY <2>1, <2>2, Saved DEF Pcs
<1>8. CASE PlanApproval(a)
  <2> DEFINE held == [i \in DOMAIN calls |-> IF calls[i].approval THEN "awaiting_approval" ELSE "validated"]
  <2>1. ckpt' = [ck EXCEPT !.by = a, !.batch = held] /\ Leave(a)
    BY <1>8 DEF PlanApproval, HandsOver
  <2>2. held = [i \in DOMAIN calls |-> held[i]] /\ \A i \in DOMAIN calls : held[i] \in CallStatus
    BY DEF CallStatus
  <2> HIDE DEF held
  <2>3. IsCheckpoint(ckpt') /\ Fits(ckpt')
    BY <1>4, <2>1, <2>2
  <2> QED BY <2>1, <2>3, Ended
<1>9. CASE PlanProposals(a)
  <2>1. /\ ckpt' = [ck EXCEPT !.by = a, !.mark = <<ck.model, Len(calls)>>,
                              !.batch = Batch(calls, "awaiting_approval")]
        /\ Leave(a)
    BY <1>9 DEF PlanProposals, HandsOver
  <2>2. IsCheckpoint(ckpt') /\ Fits(ckpt')
    BY <1>4, <1>5, <1>6, <2>1
  <2> QED BY <2>1, <2>2, Ended
<1>10. CASE SearchMemory(a)
  <2> DEFINE new == [ck EXCEPT !.by = a, !.mark = <<ck.model, Len(calls)>>, !.batch = Batch(calls, "completed")]
  <2>1. Saves(a, "dispatch", new)
    BY <1>10 DEF SearchMemory
  <2>2. IsCheckpoint(new) /\ Fits(new)
    BY <1>4, <1>5, <1>6
  <2> HIDE DEF new
  <2> QED BY <2>1, <2>2, Saved DEF Pcs
<1>11. CASE ReplaySearch(a)
  <2>1. Step(a, "dispatch", ckpt) /\ UNCHANGED ckpt
    BY <1>11 DEF ReplaySearch, rows
  <2>2. IsCheckpoint(ckpt) /\ Fits(ckpt)
    BY DEF CheckpointsShaped
  <2> QED BY <2>1, <2>2, Saved DEF Pcs
<1>12. CASE PlanRefused(a) \/ RepairsSpent(a)
  <2>1. Step(a, "fail", ck) /\ UNCHANGED ckpt
    BY <1>12 DEF PlanRefused, RepairsSpent, rows
  <2> QED BY <1>1, <2>1, Saved DEF Pcs
<1>13. CASE Repair(a)
  <2> DEFINE new == [ck EXCEPT !.repairing = TRUE, !.repairs = @ + 1, !.mark = <<"repair">>]
  <2>1. Saves(a, "call", new)
    BY <1>13 DEF Repair
  <2>2. IsCheckpoint(new) /\ new.status = ck.status /\ new.batch = ck.batch /\ new.calls = ck.calls
    <3>1. ck.repairs + 1 \in Nat
      BY <1>1 DEF IsCheckpoint
    <3> QED BY <1>1, <3>1 DEF IsCheckpoint
  <2> HIDE DEF new
  <2>3. Fits(new)
    BY <1>1, <2>2 DEF Fits
  <2> QED BY <2>1, <2>2, <2>3, Saved DEF Pcs
<1> QED BY <1>7, <1>8, <1>9, <1>10, <1>11, <1>12, <1>13 DEF PlanStep

\* The tools of a batch.
LEMMA ToolCheckpoints ==
  ASSUME CheckpointsShaped, NEW a \in Attempts, ToolStep(a)
  PROVE  CheckpointsShaped'
<1>1. a \in Nat /\ IsCheckpoint(Local(a)) /\ Fits(Local(a))
  BY ExecutorFacts
<1> DEFINE ck == Local(a)
<1>2. ASSUME NEW from, NEW status \in CallStatus, Places(ck, from) # {}, NEW by \in Nat, NEW mark, NEW new,
             new = [ck EXCEPT !.by = by, !.batch[NextOf(a, from)] = status, !.mark = mark]
      PROVE  IsCheckpoint(new) /\ Fits(new)
  <2> DEFINE batch == [ck.batch EXCEPT ![NextOf(a, from)] = status]
  <2>1. NextOf(a, from) \in DOMAIN ck.batch
    BY <1>1, <1>2, NextIsAPlace
  <2>2. /\ batch \in Seq(CallStatus) /\ Len(batch) = Len(ck.calls)
        /\ ck.status \notin {"prepared", "running", "retry_ready", "outcome_unknown"}
    BY <1>1, <2>1, PlacedFits
  <2>3. new = [ck EXCEPT !.by = by, !.batch = batch, !.mark = mark]
    BY <1>2
  <2> HIDE DEF batch
  <2>4. IsCheckpoint(new) /\ new.status = ck.status /\ new.batch = batch /\ new.calls = ck.calls
    BY <1>1, <2>2, <2>3 DEF IsCheckpoint
  <2> QED BY <2>2, <2>4 DEF Fits
<1>3. /\ "prepared" \in CallStatus /\ "running" \in CallStatus /\ "completed" \in CallStatus
      /\ "failed" \in CallStatus /\ "outcome_unknown" \in CallStatus
  BY DEF CallStatus
<1>4. CASE PrepareTool(a)
  <2> DEFINE c == Tool(ck, NextOf(a, "requested"))
             new == [ck EXCEPT !.by = a, !.batch[NextOf(a, "requested")] = "prepared", !.mark = Append(c, 1)]
  <2>1. Saves(a, "dispatch", new) /\ Places(ck, "requested") # {}
    BY <1>4 DEF PrepareTool
  <2>2. IsCheckpoint(new) /\ Fits(new)
    BY <1>1, <1>2, <1>3, <2>1
  <2> HIDE DEF new
  <2> QED BY <2>1, <2>2, Saved DEF Pcs
<1>5. CASE RetryTool(a)
  <2> DEFINE c == Tool(ck, NextOf(a, "retry_ready"))
             new == [ck EXCEPT !.by = a, !.batch[NextOf(a, "retry_ready")] = "prepared",
                               !.mark = Append(c, LatestTry(c) + 1)]
  <2>1. Saves(a, "redispatch", new) /\ Places(ck, "retry_ready") # {}
    BY <1>5 DEF RetryTool
  <2>2. IsCheckpoint(new) /\ Fits(new)
    BY <1>1, <1>2, <1>3, <2>1
  <2> HIDE DEF new
  <2> QED BY <2>1, <2>2, Saved DEF Pcs
<1>6. CASE StartTool(a)
  <2> DEFINE c == Tool(ck, NextOf(a, "prepared"))
             new == [ck EXCEPT !.batch[NextOf(a, "prepared")] = "running", !.mark = Watermark(c)]
             pc == IF At(a, {"dispatch"}) THEN "tool" ELSE "retool"
  <2>1. Saves(a, pc, new) /\ Places(ck, "prepared") # {}
    BY <1>6 DEF StartTool
  <2>2. ck.by \in Nat /\ new = [ck EXCEPT !.by = ck.by, !.batch[NextOf(a, "prepared")] = "running", !.mark = Watermark(c)]
    BY <1>1 DEF IsCheckpoint
  <2>3. IsCheckpoint(new) /\ Fits(new)
    BY <1>2, <1>3, <2>1, <2>2
  <2>4. pc \in Pcs /\ pc \in {"tool", "retool"}
    BY DEF Pcs
  <2> HIDE DEF new, pc
  <2> QED BY <2>1, <2>3, <2>4, Saved
<1>7. ~IsModel(Running(a))
  BY DEF IsModel, Running
<1>8. ASSUME NEW status \in CallStatus
      PROVE  IsCheckpoint(Marked(ck, Running(a), status)) /\ Fits(Marked(ck, Running(a), status))
  BY <1>1, <1>7, MarkedFits
<1>9. CASE CompleteTool(a) \/ \E fatal \in BOOLEAN : FailTool(a, fatal)
  <2>1. PICK status \in {"completed", "failed"}, pc \in {"dispatch", "redispatch", "fail"} :
           Saves(a, pc, Marked(ck, Running(a), status))
    BY <1>9 DEF CompleteTool, FailTool, AfterTool
  <2>2. IsCheckpoint(Marked(ck, Running(a), status)) /\ Fits(Marked(ck, Running(a), status))
    BY <1>3, <1>8
  <2>3. pc \in Pcs
    BY DEF Pcs
  <2> QED BY <2>1, <2>2, <2>3, Saved
<1>10. CASE LoseTool(a)
  <2>1. ckpt' = Marked(ck, Running(a), "outcome_unknown") /\ Leave(a)
    BY <1>10 DEF LoseTool
  <2>2. IsCheckpoint(ckpt') /\ Fits(ckpt')
    BY <1>3, <1>8, <2>1
  <2> QED BY <2>1, <2>2, Ended
<1>11. CASE SettleBatch(a)
  <2> DEFINE new == [ck EXCEPT !.by = a, !.filled = TRUE, !.mark = <<"batch">>]
  <2>1. Saves(a, "call", new)
    BY <1>11 DEF SettleBatch
  <2>2. IsCheckpoint(new) /\ new.status = ck.status /\ new.batch = ck.batch /\ new.calls = ck.calls
    BY <1>1 DEF IsCheckpoint
  <2> HIDE DEF new
  <2>3. Fits(new)
    BY <1>1, <2>2 DEF Fits
  <2> QED BY <2>1, <2>2, <2>3, Saved DEF Pcs
<1> QED BY <1>4, <1>5, <1>6, <1>9, <1>10, <1>11 DEF ToolStep

\* A call of a run that ends is over, or stays as it is.
LEMMA FencedStatuses ==
  ASSUME RowsShaped, NEW c, NEW status
  PROVE  FencedStatus(c, status) \in {status, "abandoned_unknown", "cancelled_before_start"}
<1>1. CASE c \notin Unfinished \cup Unmaterialized
  BY <1>1 DEF FencedStatus
<1>2. CASE c \in Unfinished \cup Unmaterialized
  <2>1. ledger[c] \in CallRow
    BY <1>2 DEF Unfinished, Unmaterialized, RowsShaped
  <2>2. Abandoned(c).status = "abandoned_unknown" /\ Withdrawn(c).status = "cancelled_before_start"
    BY <2>1 DEF Abandoned, Withdrawn, CallRow
  <2>3. [ledger[c] EXCEPT !.status = "cancelled_before_start"].status = "cancelled_before_start"
    BY <2>1 DEF CallRow
  <2>4. Fenced(c).status \in {"abandoned_unknown", "cancelled_before_start"}
    BY <1>2, <2>2, <2>3 DEF Fenced
  <2> QED BY <1>2, <2>4 DEF FencedStatus
<1> QED BY <1>1, <1>2

\* A checkpoint of which the statuses change.
LEMMA StatusesFit ==
  ASSUME NEW ck, IsCheckpoint(ck), Fits(ck), NEW count \in CallStatus, NEW status \in CallStatus,
         NEW batch, batch = [i \in DOMAIN ck.batch |-> batch[i]],
         \A i \in DOMAIN ck.batch : batch[i] \in CallStatus,
         status \in {"prepared", "running", "retry_ready", "outcome_unknown"} => ck.batch = <<>>,
         NEW new, new = [ck EXCEPT !.count.status = count, !.status = status, !.batch = batch]
  PROVE  IsCheckpoint(new) /\ Fits(new)
<1> DEFINE n == Len(ck.batch)
<1>1. ck.batch \in Seq(CallStatus) /\ n \in Nat /\ DOMAIN ck.batch = 1 .. n /\ ck.count \in CountState
  BY DEF IsCheckpoint
<1>2. batch \in [1 .. n -> CallStatus]
  BY <1>1
<1>3. batch \in Seq(CallStatus) /\ Len(batch) = n
  BY <1>1, <1>2
<1>4. ck.batch = <<>> <=> batch = <<>>
  BY <1>1, <1>3
<1> DEFINE counted == [ck.count EXCEPT !.status = count]
<1>5. counted \in CountState
  BY <1>1 DEF CountState
<1>6. new = [ck EXCEPT !.count = counted, !.status = status, !.batch = batch]
  BY DEF IsCheckpoint
<1> HIDE DEF counted, n
<1>7. IsCheckpoint(new) /\ new.status = status /\ new.batch = batch /\ new.calls = ck.calls
  BY <1>3, <1>5, <1>6 DEF IsCheckpoint
<1> QED BY <1>3, <1>4, <1>7 DEF Fits, n

\* The checkpoint of a run that ends.
LEMMA FencedFits ==
  ASSUME RowsShaped, CheckpointsShaped
  PROVE  IsCheckpoint(FencedCheckpoint) /\ Fits(FencedCheckpoint)
<1>1. IsCheckpoint(ckpt) /\ Fits(ckpt)
  BY DEF CheckpointsShaped
<1> DEFINE count == IF ckpt.count.no = 0 THEN ckpt.count.status
                    ELSE FencedStatus(<<0, ckpt.count.no>>, ckpt.count.status)
           status == IF ckpt.model = 0 THEN ckpt.status ELSE FencedStatus(<<ckpt.model>>, ckpt.status)
           batch == [i \in DOMAIN ckpt.batch |-> FencedStatus(Tool(ckpt, i), ckpt.batch[i])]
<1>2. FencedCheckpoint = [ckpt EXCEPT !.count.status = count, !.status = status, !.batch = batch]
  BY <1>1 DEF FencedCheckpoint, IsCheckpoint, CountState
<1>3. ckpt.count.status \in CallStatus /\ ckpt.status \in CallStatus /\ ckpt.batch \in Seq(CallStatus)
  BY <1>1 DEF IsCheckpoint, CountState
<1>4. "abandoned_unknown" \in CallStatus /\ "cancelled_before_start" \in CallStatus
  BY DEF CallStatus
<1>5. count \in CallStatus
  BY <1>3, <1>4, FencedStatuses
<1>6. status \in {ckpt.status, "abandoned_unknown", "cancelled_before_start"}
  BY FencedStatuses
<1>7. \A i \in DOMAIN ckpt.batch : batch[i] \in CallStatus
  <2>1. ASSUME NEW i \in DOMAIN ckpt.batch PROVE batch[i] \in CallStatus
    <3>1. ckpt.batch[i] \in CallStatus
      BY <1>3
    <3>2. FencedStatus(Tool(ckpt, i), ckpt.batch[i])
            \in {ckpt.batch[i], "abandoned_unknown", "cancelled_before_start"}
      BY FencedStatuses
    <3> QED BY <1>4, <3>1, <3>2
  <2> QED BY <2>1
<1>8. batch = [i \in DOMAIN ckpt.batch |-> batch[i]]
  OBVIOUS
<1>9. status \in CallStatus
  BY <1>3, <1>4, <1>6
<1>10. status \in {"prepared", "running", "retry_ready", "outcome_unknown"} => ckpt.batch = <<>>
  BY <1>1, <1>6 DEF Fits
<1> HIDE DEF count, status, batch
<1> QED BY <1>1, <1>2, <1>5, <1>7, <1>8, <1>9, <1>10, StatusesFit

\* The checkpoint of an attempt whose lease is recovered.
LEMMA ReopenedFits ==
  ASSUME CheckpointsShaped, NEW a, StartedFits(a), PendingFits(a)
  PROVE  /\ IsCheckpoint(ReopenedIn(ckpt, Started(a) \cup Pending(a)))
         /\ Fits(ReopenedIn(ckpt, Started(a) \cup Pending(a)))
<1>1. IsCheckpoint(ckpt) /\ Fits(ckpt)
  BY DEF CheckpointsShaped
<1> DEFINE S == Started(a) \cup Pending(a)
           count == IF <<0, ckpt.count.no>> \in S THEN "retry_ready" ELSE ckpt.count.status
           status == IF <<ckpt.model>> \in S THEN "retry_ready" ELSE ckpt.status
           batch == [i \in DOMAIN ckpt.batch |-> IF Tool(ckpt, i) \in S THEN "retry_ready" ELSE ckpt.batch[i]]
<1>2. <<ckpt.model>> \in S => ckpt.batch = <<>>
  <2>1. ASSUME <<ckpt.model>> \in S PROVE ckpt.status \in {"prepared", "running"}
    <3>1. StatusIn(ckpt, <<ckpt.model>>) = ckpt.status
      BY DEF StatusIn, IsModel
    <3>2. StatusIn(ckpt, <<ckpt.model>>) \in {"running", "prepared"}
      BY <2>1 DEF StartedFits, PendingFits
    <3> QED BY <3>1, <3>2
  <2> QED BY <1>1, <2>1 DEF Fits
<1> HIDE DEF S
<1>3. ReopenedIn(ckpt, S) = [ckpt EXCEPT !.count.status = count, !.status = status, !.batch = batch]
  BY <1>1 DEF ReopenedIn, IsCheckpoint, CountState
<1>4. ckpt.count.status \in CallStatus /\ ckpt.status \in CallStatus /\ ckpt.batch \in Seq(CallStatus)
  BY <1>1 DEF IsCheckpoint, CountState
<1>5. count \in CallStatus /\ status \in CallStatus /\ \A i \in DOMAIN ckpt.batch : batch[i] \in CallStatus
  BY <1>4 DEF CallStatus
<1>6. batch = [i \in DOMAIN ckpt.batch |-> batch[i]]
  OBVIOUS
<1>7. status \in {"prepared", "running", "retry_ready", "outcome_unknown"} => ckpt.batch = <<>>
  BY <1>1, <1>2 DEF Fits
<1> DEFINE new == ReopenedIn(ckpt, S)
<1> HIDE DEF count, status, batch
<1>8. new = [ckpt EXCEPT !.count.status = count, !.status = status, !.batch = batch]
  BY <1>3
<1> HIDE DEF new
<1>9. IsCheckpoint(new) /\ Fits(new)
  BY <1>1, <1>5, <1>6, <1>7, <1>8, StatusesFit
<1> QED BY <1>9 DEF S, new

\* The checkpoint stays, and some executors end.
LEMMA EndedOnly ==
  ASSUME CheckpointsShaped, UNCHANGED ckpt,
         \/ UNCHANGED exec
         \/ \E a : Leave(a) \/ Lapse(a)
         \/ LapseAll
  PROVE  CheckpointsShaped'
<1>1. IsCheckpoint(ckpt') /\ Fits(ckpt')
  BY DEF CheckpointsShaped
<1> QED BY <1>1, Ended

\* The end of a run, whoever ends it.
LEMMA EndCheckpoints ==
  ASSUME RowsShaped, CheckpointsShaped, ckpt' = FencedCheckpoint, (\E a : Leave(a)) \/ LapseAll
  PROVE  CheckpointsShaped'
<1>1. IsCheckpoint(ckpt') /\ Fits(ckpt')
  BY FencedFits
<1> QED BY <1>1, Ended

\* A call of the checkpoint whose status agrees with a status before it goes on.
LEMMA ModelAgrees ==
  ASSUME CheckpointsShaped, NEW c,
         StatusIn(ckpt, c) \in {"prepared", "running", "retry_ready", "outcome_unknown"}
  PROVE  IsModel(c) => ckpt.batch = <<>>
BY DEF CheckpointsShaped, Fits, StatusIn

\* Leases and deadlines.
LEMMA LeaseCheckpoints ==
  ASSUME RowsShaped, CheckpointsShaped, NEW a \in Attempts, LeaseStep(a) \/ DeadlineStep(a)
  PROVE  CheckpointsShaped'
<1>1. IsCheckpoint(ckpt) /\ Fits(ckpt)
  BY DEF CheckpointsShaped
<1>2. CASE RecoverExhausted(a) \/ TimeOutAndFail(a)
  BY <1>2, EndCheckpoints DEF RecoverExhausted, TimeOutAndFail, EndRun, EndsAs
<1>3. ASSUME NEW c \in Calls, RecoverUnknown(a, c) PROVE CheckpointsShaped'
  <2>1. ckpt' = Marked(ckpt, c, "outcome_unknown") /\ Lapse(a) /\ StatusIn(ckpt, c) = "running"
    BY <1>3 DEF RecoverUnknown, StartedFits
  <2>2. IsModel(c) => ckpt.batch = <<>>
    BY <2>1, ModelAgrees
  <2>3. IsCheckpoint(ckpt') /\ Fits(ckpt')
    BY <1>1, <2>1, <2>2, MarkedFits DEF CallStatus
  <2> QED BY <2>1, <2>3, Ended
<1>4. CASE RecoverLease(a)
  <2>1. ckpt' = ReopenedIn(ckpt, Started(a) \cup Pending(a)) /\ Lapse(a) /\ StartedFits(a) /\ PendingFits(a)
    BY <1>4 DEF RecoverLease
  <2>2. IsCheckpoint(ckpt') /\ Fits(ckpt')
    BY <2>1, ReopenedFits
  <2> QED BY <2>1, <2>2, Ended
<1>5. CASE TimeOutAndRetry(a)
  BY <1>5, EndedOnly DEF TimeOutAndRetry
<1> QED BY <1>2, <1>3, <1>4, <1>5 DEF LeaseStep, DeadlineStep

\* What people decide.
LEMMA PeopleCheckpoints ==
  ASSUME RowsShaped, CheckpointsShaped, RunShaped, PeopleStep
  PROVE  CheckpointsShaped'
<1>1. IsCheckpoint(ckpt) /\ Fits(ckpt)
  BY DEF CheckpointsShaped
<1>2. ckpt.by \in Nat /\ Current + 1 \in Nat
  BY <1>1 DEF IsCheckpoint, Current, RunShaped
<1>3. ASSUME NEW by \in Nat, NEW mark, NEW batch, batch = [i \in DOMAIN ckpt.batch |-> batch[i]],
             \A i \in DOMAIN ckpt.batch : batch[i] \in CallStatus,
             NEW new, new = [ckpt EXCEPT !.by = by, !.batch = batch, !.mark = mark]
      PROVE  IsCheckpoint(new) /\ Fits(new)
  <2> DEFINE n == Len(ckpt.batch)
  <2>1. ckpt.batch \in Seq(CallStatus) /\ n \in Nat /\ DOMAIN ckpt.batch = 1 .. n
    BY <1>1 DEF IsCheckpoint
  <2>2. batch \in [1 .. n -> CallStatus]
    BY <1>3, <2>1
  <2>3. batch \in Seq(CallStatus) /\ Len(batch) = n
    BY <2>1, <2>2
  <2>4. ckpt.batch = <<>> <=> batch = <<>>
    BY <2>1, <2>3
  <2> HIDE DEF n
  <2>5. IsCheckpoint(new) /\ new.status = ckpt.status /\ new.batch = batch /\ new.calls = ckpt.calls
    BY <1>1, <1>3, <2>3 DEF IsCheckpoint
  <2> QED BY <1>1, <2>3, <2>4, <2>5 DEF Fits, n
<1>4. "denied" \in CallStatus /\ "prepared" \in CallStatus /\ "completed" \in CallStatus
      /\ "cancelled_before_start" \in CallStatus
  BY DEF CallStatus
<1>5. ASSUME NEW rejected \in SUBSET Rejectable, Approve(rejected) PROVE CheckpointsShaped'
  <2> DEFINE batch == [i \in DOMAIN ckpt.batch |-> IF i \in rejected THEN "denied" ELSE "prepared"]
  <2>1. PICK mark : ckpt' = [ckpt EXCEPT !.by = Current + 1, !.batch = batch, !.mark = mark]
    BY <1>5 DEF Approve
  <2>2. batch = [i \in DOMAIN ckpt.batch |-> batch[i]] /\ \A i \in DOMAIN ckpt.batch : batch[i] \in CallStatus
    BY <1>4
  <2> HIDE DEF batch
  <2>3. IsCheckpoint(ckpt') /\ Fits(ckpt')
    BY <1>2, <1>3, <2>1, <2>2
  <2>4. UNCHANGED exec
    BY <1>5 DEF Approve, Delivered
  <2> QED BY <2>3, <2>4, Ended
<1>6. CASE DecideProposals
  <2> DEFINE batch == [i \in DOMAIN ckpt.batch |-> "completed"]
  <2>1. ckpt' = [ckpt EXCEPT !.by = Current + 1, !.mark = <<"delivery">>, !.batch = batch]
    BY <1>6 DEF DecideProposals
  <2>2. batch = [i \in DOMAIN ckpt.batch |-> batch[i]] /\ \A i \in DOMAIN ckpt.batch : batch[i] \in CallStatus
    BY <1>4
  <2> HIDE DEF batch
  <2>3. ckpt' = [ckpt EXCEPT !.by = Current + 1, !.batch = batch, !.mark = <<"delivery">>]
    BY <1>1, <2>1 DEF IsCheckpoint
  <2>4. IsCheckpoint(ckpt') /\ Fits(ckpt')
    BY <1>2, <1>3, <2>2, <2>3
  <2>5. UNCHANGED exec
    BY <1>6 DEF DecideProposals, Delivered
  <2> QED BY <2>4, <2>5, Ended
<1>7. ASSUME NEW rejected \in SUBSET Rejectable, Reject(rejected) PROVE CheckpointsShaped'
  <2> DEFINE status(i) == IF i \in rejected THEN "denied" ELSE "cancelled_before_start"
             batch == [i \in DOMAIN ckpt.batch |-> status(i)]
  <2>1. ckpt' = [ckpt EXCEPT !.batch = batch, !.mark = <<"rejected">>] /\ LapseAll
    BY <1>7 DEF Reject
  <2>2. batch = [i \in DOMAIN ckpt.batch |-> batch[i]] /\ \A i \in DOMAIN ckpt.batch : batch[i] \in CallStatus
    BY <1>4
  <2> HIDE DEF batch
  <2>3. ckpt' = [ckpt EXCEPT !.by = ckpt.by, !.batch = batch, !.mark = <<"rejected">>]
    BY <1>1, <2>1 DEF IsCheckpoint
  <2>4. IsCheckpoint(ckpt') /\ Fits(ckpt')
    BY <1>2, <1>3, <2>2, <2>3
  <2> QED BY <2>1, <2>4, Ended
<1>8. CASE ExpireApproval
  BY <1>8, EndCheckpoints DEF ExpireApproval, EndsAs
<1>9. CASE ConfirmSucceeded \/ ConfirmFailed
  <2>1. PICK status \in {"completed", "retry_ready"} : ckpt' = Marked(ckpt, Unknown, status) /\ Resolvable /\ UNCHANGED exec
    BY <1>9 DEF ConfirmSucceeded, ConfirmFailed, GoesOn
  <2>2. IsModel(Unknown) => ckpt.batch = <<>>
    BY <2>1, ModelAgrees DEF Resolvable
  <2>3. status \in CallStatus
    BY DEF CallStatus
  <2>4. IsCheckpoint(ckpt') /\ Fits(ckpt')
    BY <1>1, <2>1, <2>2, <2>3, MarkedFits
  <2> QED BY <2>1, <2>4, Ended
<1>10. CASE AbortRun
  <2>1. ckpt' = Marked(FencedCheckpoint, Unknown, "abandoned_unknown") /\ LapseAll
    BY <1>10 DEF AbortRun
  <2>2. IsCheckpoint(FencedCheckpoint) /\ Fits(FencedCheckpoint)
    BY FencedFits
  <2>3. IsCheckpoint(ckpt') /\ Fits(ckpt')
    BY <2>1, <2>2, MarkedFits DEF CallStatus
  <2> QED BY <2>1, <2>3, Ended
<1> QED BY <1>5, <1>6, <1>7, <1>8, <1>9, <1>10 DEF PeopleStep

\* Every step keeps the checkpoints in shape.
LEMMA StepCheckpoints ==
  ASSUME Shaped, [Next]_vars
  PROVE  CheckpointsShaped'
<1>1. RowsShaped /\ CheckpointsShaped /\ RunShaped
  BY DEF Shaped
<1>2. CASE Begin
  <2> DEFINE a == Current
  <2>1. Step(a, "resume", NoCheckpoint) /\ UNCHANGED ckpt
    BY <1>2 DEF Begin
  <2> HIDE DEF a
  <2>2. CASE a \in Attempts
    BY <1>1, <2>1, <2>2, NoCheckpointFits, Saved DEF Pcs
  <2>3. CASE a \notin Attempts
    <3>1. exec = [b \in Attempts |-> exec[b]]
      BY <1>1 DEF CheckpointsShaped
    <3>2. exec' = exec
      BY <2>1, <2>3, <3>1 DEF Step
    <3> QED BY <1>1, <2>1, <3>2, EndedOnly
  <2> QED BY <2>2, <2>3
<1>3. CASE FireRetry \/ Settle \/ OthersFinish \/ Interrupt \/ Resume
  BY <1>1, <1>3, EndedOnly DEF FireRetry, Settle, OthersFinish, Interrupt, Resume
<1>4. CASE Cancel
  BY <1>1, <1>4, EndCheckpoints DEF Cancel, EndRun, EndsAs
<1>5. CASE PeopleStep
  BY <1>1, <1>5, PeopleCheckpoints
<1>6. ASSUME NEW a \in Attempts, ExecutorStep(a) PROVE CheckpointsShaped'
  <2>1. CASE ResumeStep(a) \/ CountStep(a) \/ ModelStep(a) \/ PlanStep(a) \/ ToolStep(a)
    BY <1>1, <2>1, ResumeCheckpoints, CountCheckpoints, ModelCheckpoints, PlanCheckpoints, ToolCheckpoints
  <2>2. CASE SucceedNode(a)
    BY <1>1, <2>2, EndedOnly DEF SucceedNode
  <2>3. CASE FailNode(a)
    BY <1>1, <2>3, EndCheckpoints DEF FailNode, EndsAs
  <2> QED BY <1>6, <2>1, <2>2, <2>3 DEF ExecutorStep
<1>7. ASSUME NEW a \in Attempts, Quit(a) \/ LeaseStep(a) \/ DeadlineStep(a) PROVE CheckpointsShaped'
  <2>1. CASE Quit(a)
    BY <1>1, <2>1, EndedOnly DEF Quit, rows
  <2> QED BY <1>1, <1>7, <2>1, LeaseCheckpoints
<1>8. CASE UNCHANGED vars
  BY <1>1, <1>8, EndedOnly DEF vars
<1> QED BY <1>2, <1>3, <1>4, <1>5, <1>6, <1>7, <1>8 DEF Next, RunStep, ControlStep

(***************************************************************************)
(* The rows are shaped, and so is what every step leaves.                  *)
(***************************************************************************)
\* The attempts with another status for one of them.
LEMMA WithStatusForm ==
  ASSUME RunShaped, NEW a, NEW status \in AttemptStatus, NEW A, A = WithStatus(a, status)
  PROVE  /\ A \in Seq([status : AttemptStatus, epoch : Nat])
         /\ Len(A) = Len(attempts) /\ DOMAIN A = DOMAIN attempts
         /\ a \in DOMAIN attempts => A[a].status = status
         /\ \A b \in DOMAIN attempts : b # a => A[b].status = attempts[b].status
<1> DEFINE n == Len(attempts)
           R == [status : AttemptStatus, epoch : Nat]
           new(b) == IF b = a THEN [attempts[b] EXCEPT !.status = status] ELSE attempts[b]
<1>1. /\ n \in Nat /\ DOMAIN attempts = 1 .. n /\ attempts \in [1 .. n -> R]
      /\ \A b \in 1 .. n : attempts[b] \in R
  <2>1. attempts \in Seq(R)
    BY DEF RunShaped
  <2> HIDE DEF R
  <2> QED BY <2>1
<1>2. A = [b \in 1 .. n |-> new(b)]
  BY <1>1 DEF WithStatus
<1>3. \A b \in 1 .. n : new(b) \in R /\ new(b).status = IF b = a THEN status ELSE attempts[b].status
  BY <1>1
<1> HIDE DEF R, new, n
<1>4. A \in [1 .. n -> R]
  BY <1>2, <1>3
<1>5. A \in Seq(R) /\ Len(A) = n
  BY <1>1, <1>4
<1> QED BY <1>1, <1>2, <1>3, <1>5 DEF n, R

\* The one attempt that is queued or held is the last one, and then nobody is waited for.
LEMMA AtWork ==
  ASSUME RunShaped, OneAtWork, NEW a \in DOMAIN attempts, attempts[a].status \in {"queued", "running"}
  PROVE  a = Len(attempts) /\ wait.kind = "none" /\ "retry" \notin wakeups
BY DEF OneAtWork

\* The end of a run leaves no attempt at work.
LEMMA EndAttempts ==
  ASSUME RunShaped, NEW status \in RunStatus, NEW A \in Seq([status : AttemptStatus, epoch : Nat]),
         A # <<>>, NEW n, EndsAs(status, A, n)
  PROVE  RunShaped' /\ OneAtWork'
<1> DEFINE R == [status : AttemptStatus, epoch : Nat]
           k == Len(A)
           new(b) == IF A[b].status \in {"queued", "running", "waiting"}
                       THEN [A[b] EXCEPT !.status = "cancelled"] ELSE A[b]
<1>1. /\ attempts' = [b \in DOMAIN A |-> new(b)] /\ run' = [status |-> status, epoch |-> run.epoch + 1]
      /\ wait' = NoWait /\ wakeups' = {}
  BY DEF EndsAs
<1>2. k \in Nat /\ DOMAIN A = 1 .. k /\ k # 0 /\ \A b \in 1 .. k : A[b] \in R
  <2>1. A \in Seq(R) /\ A # <<>>
    OBVIOUS
  <2> HIDE DEF R
  <2> QED BY <2>1
<1>3. \A b \in 1 .. k : new(b) \in R /\ new(b).status \notin {"queued", "running"}
  BY <1>2 DEF AttemptStatus
<1> HIDE DEF new, R, k
<1>4. attempts' \in [1 .. k -> R]
  BY <1>1, <1>2, <1>3
<1>5. attempts' \in Seq(R) /\ Len(attempts') = k /\ DOMAIN attempts' = 1 .. k /\ attempts' # <<>>
  BY <1>2, <1>4
<1>6. run' \in [status : RunStatus, epoch : Nat]
  BY <1>1 DEF RunShaped
<1>7. \A b \in DOMAIN attempts' : attempts'[b].status \notin {"queued", "running"}
  BY <1>1, <1>2, <1>3
<1>8. RunShaped'
  BY <1>5, <1>6 DEF RunShaped, R
<1>9. OneAtWork'
  BY <1>1, <1>5, <1>7 DEF OneAtWork, NoWait
<1> QED BY <1>8, <1>9

\* The last attempt leaves its work: it waits for a person or for its timer, or it is over.
LEMMA LeavesWork ==
  ASSUME RunShaped, OneAtWork, NEW a \in DOMAIN attempts, attempts[a].status = "running",
         NEW status \in {"waiting", "timed_out", "completed"}, attempts' = WithStatus(a, status),
         run' \in [status : RunStatus, epoch : Nat],
         wait'.kind # "none" => wait.kind # "none" \/ status = "waiting",
         "retry" \in wakeups' => "retry" \in wakeups \/ status = "timed_out"
  PROVE  RunShaped' /\ OneAtWork'
<1>1. a = Len(attempts) /\ wait.kind = "none" /\ "retry" \notin wakeups
  BY AtWork
<1>2. /\ attempts' \in Seq([status : AttemptStatus, epoch : Nat])
      /\ Len(attempts') = Len(attempts) /\ DOMAIN attempts' = DOMAIN attempts
      /\ a \in DOMAIN attempts => attempts'[a].status = status
      /\ \A b \in DOMAIN attempts : b # a => attempts'[b].status = attempts[b].status
  <2>1. status \in AttemptStatus
    BY DEF AttemptStatus
  <2>2. attempts' \in Seq([status : AttemptStatus, epoch : Nat])
    BY <2>1, WithStatusForm
  <2>3. Len(attempts') = Len(attempts)
    BY <2>1, WithStatusForm
  <2>4. DOMAIN attempts' = DOMAIN attempts
    BY <2>1, WithStatusForm
  <2>5. a \in DOMAIN attempts => attempts'[a].status = status
    BY <2>1, WithStatusForm
  <2>6. \A b \in DOMAIN attempts : b # a => attempts'[b].status = attempts[b].status
    BY <2>1, WithStatusForm
  <2> QED BY <2>2, <2>3, <2>4, <2>5, <2>6
<1>3. RunShaped'
  BY <1>2 DEF RunShaped
<1>4. attempts' # <<>>
  <2>1. a \in DOMAIN attempts'
    BY <1>2
  <2> QED BY <2>1
<1>5. OneAtWork'
  BY <1>1, <1>2, <1>4 DEF OneAtWork
<1> QED BY <1>3, <1>5

\* A new attempt is queued after one that is not at work any more.
LEMMA TakesUp ==
  ASSUME RunShaped, NEW A \in Seq([status : AttemptStatus, epoch : Nat]),
         \A b \in DOMAIN A : A[b].status \notin {"queued", "running"},
         attempts' = Append(A, Queued), run' \in [status : RunStatus, epoch : Nat],
         wait'.kind = "none", "retry" \notin wakeups'
  PROVE  RunShaped' /\ OneAtWork'
<1>1. Queued \in [status : AttemptStatus, epoch : Nat]
  BY DEF Queued, RunShaped, AttemptStatus
<1>2. /\ attempts' \in Seq([status : AttemptStatus, epoch : Nat]) /\ attempts' # <<>>
      /\ Len(attempts') = Len(A) + 1 /\ DOMAIN attempts' = 1 .. Len(A) + 1
      /\ \A b \in 1 .. Len(A) : attempts'[b] = A[b]
  BY <1>1
<1>3. RunShaped'
  BY <1>2 DEF RunShaped
<1>4. \A b \in DOMAIN attempts' : attempts'[b].status \in {"queued", "running"} => b = Len(attempts')
  BY <1>2
<1>5. OneAtWork'
  BY <1>2, <1>4 DEF OneAtWork
<1> QED BY <1>3, <1>5

\* Nothing of it changes.
LEMMA SameAttempts ==
  ASSUME RunShaped, OneAtWork, UNCHANGED <<attempts, wait>>, run' \in [status : RunStatus, epoch : Nat],
         "retry" \in wakeups' => "retry" \in wakeups
  PROVE  RunShaped' /\ OneAtWork'
BY DEF RunShaped, OneAtWork

\* The statuses a step may leave a run in.
LEMMA RunForms ==
  ASSUME RunShaped
  PROVE  /\ run \in [status : RunStatus, epoch : Nat]
         /\ Drained \in [status : RunStatus, epoch : Nat]
         /\ Restarted \in [status : RunStatus, epoch : Nat]
         /\ \A left : Idled(left) \in [status : RunStatus, epoch : Nat]
         /\ \A status \in RunStatus : /\ [run EXCEPT !.status = status] \in [status : RunStatus, epoch : Nat]
                                      /\ [status |-> status, epoch |-> run.epoch + 1]
                                           \in [status : RunStatus, epoch : Nat]
<1>1. run \in [status : RunStatus, epoch : Nat] /\ run.epoch + 1 \in Nat
  BY DEF RunShaped
<1>2. \A status \in RunStatus : [run EXCEPT !.status = status] \in [status : RunStatus, epoch : Nat]
  BY <1>1
<1>3. \A status \in RunStatus : [status |-> status, epoch |-> run.epoch + 1] \in [status : RunStatus, epoch : Nat]
  BY <1>1
<1>4. "interrupted" \in RunStatus /\ "running" \in RunStatus /\ "waiting" \in RunStatus
  BY DEF RunStatus
<1> QED BY <1>1, <1>2, <1>3, <1>4 DEF Drained, Restarted, Idled

\* A call whose outcome nobody knows: its attempt waits for a person.
LEMMA OpensWaits ==
  ASSUME RunShaped, OneAtWork, NEW a, Held(a), NEW c, OpensEffectWait(a, c),
         run' \in [status : RunStatus, epoch : Nat]
  PROVE  RunShaped' /\ OneAtWork'
<1>1. /\ attempts' = WithStatus(a, "waiting") /\ a \in DOMAIN attempts /\ attempts[a].status = "running"
      /\ "retry" \in wakeups' => "retry" \in wakeups
  BY DEF OpensEffectWait, Held
<1> QED BY <1>1, LeavesWork

\* The attempts an executor leaves.
LEMMA ExecutorAttempts ==
  ASSUME RunShaped, OneAtWork, NEW a, ExecutorStep(a)
  PROVE  RunShaped' /\ OneAtWork'
<1>1. CASE ResumeStep(a) \/ CountStep(a)
  <2>1. UNCHANGED <<run, attempts, wait, wakeups>>
    BY <1>1 DEF ResumeStep, ResumeFresh, ResumeCount, ResumeModel, ResumeCompleted, ResumeRepair, ResumeTools,
                ResumeInvalid, CountStep, PrepareCount, RetryCount, ReuseCount, StartCount, FinishCount,
                Reassemble, rows
  <2> QED BY <2>1, SameAttempts, RunForms
<1>2. CASE LoseModel(a) \/ LoseTool(a)
  <2>1. PICK c : OpensEffectWait(a, c) /\ UNCHANGED run /\ IsOwner(a)
    BY <1>2 DEF LoseModel, LoseTool, Receives, Returns
  <2>2. Held(a)
    BY <2>1 DEF Held, IsOwner
  <2> QED BY <2>1, <2>2, OpensWaits, RunForms
<1>3. CASE ModelStep(a) /\ ~LoseModel(a)
  <2>1. UNCHANGED <<run, attempts, wait, wakeups>>
    BY <1>3 DEF ModelStep, PrepareModel, RetryModel, StartModel, AnswerModel, RejectModel, FailModel, Untouched
  <2> QED BY <2>1, SameAttempts, RunForms
<1>4. CASE ToolStep(a) /\ ~LoseTool(a)
  <2>1. UNCHANGED <<run, attempts, wait, wakeups>>
    BY <1>4 DEF ToolStep, PrepareTool, RetryTool, StartTool, CompleteTool, FailTool, SettleBatch, Untouched
  <2> QED BY <2>1, SameAttempts, RunForms
<1>5. CASE PlanApproval(a) \/ PlanProposals(a)
  <2>1. /\ attempts' = WithStatus(a, "waiting") /\ a \in DOMAIN attempts /\ attempts[a].status = "running"
        /\ wakeups' = wakeups \ {"claimed"} /\ run' = Idled(wakeups' \cap {"ready", "claimed"})
    BY <1>5 DEF PlanApproval, PlanProposals, HandsOver, Held
  <2>2. run' \in [status : RunStatus, epoch : Nat]
    BY <2>1, RunForms
  <2>3. "retry" \in wakeups' => "retry" \in wakeups
    BY <2>1
  <2> QED BY <2>1, <2>2, <2>3, LeavesWork
<1>6. CASE PlanStep(a) /\ ~PlanApproval(a) /\ ~PlanProposals(a)
  <2>1. UNCHANGED <<run, attempts, wait, wakeups>>
    BY <1>6 DEF PlanStep, PlanTools, SearchMemory, ReplaySearch, PlanRefused, Repair, RepairsSpent, Untouched, rows
  <2> QED BY <2>1, SameAttempts, RunForms
<1>7. CASE SucceedNode(a)
  <2>1. /\ attempts' = WithStatus(a, "completed") /\ a \in DOMAIN attempts /\ attempts[a].status = "running"
        /\ wakeups' = {} /\ UNCHANGED wait
        /\ run' \in {[run EXCEPT !.status = "completed"], Drained}
    BY <1>7 DEF SucceedNode, Accepts, IsOwner
  <2>2. run' \in [status : RunStatus, epoch : Nat]
    BY <2>1, RunForms DEF RunStatus
  <2> QED BY <2>1, <2>2, LeavesWork
<1>8. CASE FailNode(a)
  <2>1. EndsAs("failed", WithStatus(a, "failed"), "failed")
    BY <1>8 DEF FailNode
  <2>2. WithStatus(a, "failed") \in Seq([status : AttemptStatus, epoch : Nat]) /\ Len(WithStatus(a, "failed")) = Len(attempts)
    <3>1. "failed" \in AttemptStatus
      BY DEF AttemptStatus
    <3> QED BY <3>1, WithStatusForm
  <2>3. WithStatus(a, "failed") # <<>>
    BY <2>2 DEF OneAtWork, RunShaped
  <2>4. "failed" \in RunStatus
    BY DEF RunStatus
  <2> QED BY <2>1, <2>2, <2>3, <2>4, EndAttempts
<1> QED BY <1>1, <1>2, <1>3, <1>4, <1>5, <1>6, <1>7, <1>8 DEF ExecutorStep

\* The attempts that leases and deadlines leave.
LEMMA LeaseAttempts ==
  ASSUME RunShaped, OneAtWork, NEW a, LeaseStep(a) \/ DeadlineStep(a)
  PROVE  RunShaped' /\ OneAtWork'
<1>1. attempts \in Seq([status : AttemptStatus, epoch : Nat]) /\ attempts # <<>> /\ "failed" \in RunStatus
  BY DEF RunShaped, OneAtWork, RunStatus
<1>2. \A status \in {"timed_out", "failed"} :
         /\ WithStatus(a, status) \in Seq([status : AttemptStatus, epoch : Nat])
         /\ Len(WithStatus(a, status)) = Len(attempts) /\ DOMAIN WithStatus(a, status) = DOMAIN attempts
         /\ a \in DOMAIN attempts => WithStatus(a, status)[a].status = status
         /\ \A b \in DOMAIN attempts : b # a => WithStatus(a, status)[b].status = attempts[b].status
  <2> SUFFICES ASSUME NEW status \in {"timed_out", "failed"}
               PROVE  /\ WithStatus(a, status) \in Seq([status : AttemptStatus, epoch : Nat])
                      /\ Len(WithStatus(a, status)) = Len(attempts)
                      /\ DOMAIN WithStatus(a, status) = DOMAIN attempts
                      /\ a \in DOMAIN attempts => WithStatus(a, status)[a].status = status
                      /\ \A b \in DOMAIN attempts : b # a => WithStatus(a, status)[b].status = attempts[b].status
    OBVIOUS
  <2>1. status \in AttemptStatus
    BY DEF AttemptStatus
  <2>2. WithStatus(a, status) \in Seq([status : AttemptStatus, epoch : Nat])
    BY <2>1, WithStatusForm
  <2>3. Len(WithStatus(a, status)) = Len(attempts)
    BY <2>1, WithStatusForm
  <2>4. DOMAIN WithStatus(a, status) = DOMAIN attempts
    BY <2>1, WithStatusForm
  <2>5. a \in DOMAIN attempts => WithStatus(a, status)[a].status = status
    BY <2>1, WithStatusForm
  <2>6. \A b \in DOMAIN attempts : b # a => WithStatus(a, status)[b].status = attempts[b].status
    BY <2>1, WithStatusForm
  <2> QED BY <2>2, <2>3, <2>4, <2>5, <2>6
<1>3. CASE RecoverExhausted(a)
  BY <1>1, <1>3, EndAttempts DEF RecoverExhausted, EndRun
<1>4. CASE TimeOutAndFail(a)
  <2>1. EndsAs("failed", WithStatus(a, "timed_out"), "failed")
    BY <1>4 DEF TimeOutAndFail, TimedOut
  <2>2. WithStatus(a, "timed_out") # <<>>
    <3>1. Len(WithStatus(a, "timed_out")) # 0
      BY <1>1, <1>2
    <3> QED BY <3>1
  <2> QED BY <1>1, <1>2, <2>1, <2>2, EndAttempts
<1>5. ASSUME NEW c \in Calls, RecoverUnknown(a, c) PROVE RunShaped' /\ OneAtWork'
  <2>1. Held(a) /\ OpensEffectWait(a, c) /\ run' = Drained
    BY <1>5 DEF RecoverUnknown, Expired
  <2> QED BY <2>1, OpensWaits, RunForms
<1>6. CASE RecoverLease(a)
  <2>1. /\ a \in DOMAIN attempts /\ attempts[a].status = "running" /\ run' = Drained /\ UNCHANGED wait
        /\ attempts' = Append(WithStatus(a, "failed"), Queued) /\ wakeups' = (wakeups \ {"claimed"}) \cup {"ready"}
    BY <1>6 DEF RecoverLease, Expired, Held
  <2>2. a = Len(attempts) /\ wait.kind = "none" /\ "retry" \notin wakeups
    BY <2>1, AtWork
  <2>3. \A b \in DOMAIN WithStatus(a, "failed") : WithStatus(a, "failed")[b].status \notin {"queued", "running"}
    BY <1>2, <2>2 DEF OneAtWork
  <2>4. run' \in [status : RunStatus, epoch : Nat] /\ "retry" \notin wakeups' /\ wait'.kind = "none"
    BY <2>1, <2>2, RunForms
  <2> QED BY <1>2, <2>1, <2>3, <2>4, TakesUp
<1>7. CASE TimeOutAndRetry(a)
  <2>1. /\ a \in DOMAIN attempts /\ attempts[a].status = "running" /\ UNCHANGED wait
        /\ attempts' = WithStatus(a, "timed_out")
        /\ run' \in {Idled(wakeups \ {"claimed"}), Drained}
    BY <1>7 DEF TimeOutAndRetry, TimedOut, Expired, Held
  <2>2. run' \in [status : RunStatus, epoch : Nat]
    BY <2>1, RunForms
  <2> QED BY <2>1, <2>2, LeavesWork
<1> QED BY <1>3, <1>4, <1>5, <1>6, <1>7 DEF LeaseStep, DeadlineStep

\* The attempts that people leave.
LEMMA PeopleAttempts ==
  ASSUME RunShaped, OneAtWork, PeopleStep
  PROVE  RunShaped' /\ OneAtWork'
<1>1. attempts \in Seq([status : AttemptStatus, epoch : Nat]) /\ attempts # <<>> /\ "failed" \in RunStatus
      /\ "cancelled" \in RunStatus
  BY DEF RunShaped, OneAtWork, RunStatus
<1>2. wait.kind # "none" => "retry" \notin wakeups /\ \A b \in DOMAIN attempts : attempts[b].status \notin {"queued", "running"}
  BY DEF OneAtWork
<1>3. ASSUME wait.kind # "none", Requeued, wait' = NoWait, run' \in {run, Restarted},
             wakeups' \in {wakeups, wakeups \cup {"ready"}}
      PROVE  RunShaped' /\ OneAtWork'
  <2>1. attempts' = Append(attempts, Queued) /\ wait'.kind = "none" /\ "retry" \notin wakeups'
    BY <1>2, <1>3 DEF Requeued, NoWait
  <2>2. run' \in [status : RunStatus, epoch : Nat]
    BY <1>3, RunForms
  <2> QED BY <1>1, <1>2, <1>3, <2>1, <2>2, TakesUp
<1>4. ASSUME NEW rejected \in SUBSET Rejectable, Approve(rejected) PROVE RunShaped' /\ OneAtWork'
  BY <1>3, <1>4 DEF Approve, Answerable, Delivered
<1>5. CASE DecideProposals
  BY <1>3, <1>5 DEF DecideProposals, Delivered
<1>6. ASSUME NEW rejected \in SUBSET Rejectable, Reject(rejected) PROVE RunShaped' /\ OneAtWork'
  <2>1. /\ attempts' = WithStatus(Current, "cancelled") /\ wait' = NoWait /\ wakeups' = {} /\ wait.kind # "none"
        /\ run' = [status |-> "failed", epoch |-> run.epoch + 1]
    BY <1>6 DEF Reject, WithStatus, Answerable
  <2>2. "cancelled" \in AttemptStatus
    BY DEF AttemptStatus
  <2>3. /\ attempts' \in Seq([status : AttemptStatus, epoch : Nat]) /\ Len(attempts') = Len(attempts)
        /\ DOMAIN attempts' = DOMAIN attempts
        /\ Current \in DOMAIN attempts => attempts'[Current].status = "cancelled"
        /\ \A b \in DOMAIN attempts : b # Current => attempts'[b].status = attempts[b].status
    <3>2. attempts' \in Seq([status : AttemptStatus, epoch : Nat])
      BY <2>1, <2>2, WithStatusForm
    <3>3. Len(attempts') = Len(attempts)
      BY <2>1, <2>2, WithStatusForm
    <3>4. DOMAIN attempts' = DOMAIN attempts
      BY <2>1, <2>2, WithStatusForm
    <3>5. Current \in DOMAIN attempts => attempts'[Current].status = "cancelled"
      BY <2>1, <2>2, WithStatusForm
    <3>6. \A b \in DOMAIN attempts : b # Current => attempts'[b].status = attempts[b].status
      BY <2>1, <2>2, WithStatusForm
    <3> QED BY <3>2, <3>3, <3>4, <3>5, <3>6
  <2>4. RunShaped'
    BY <1>1, <2>1, <2>3, RunForms DEF RunShaped
  <2>5. Len(attempts') # 0
    BY <1>1, <2>3
  <2>6. attempts' # <<>>
    BY <2>5
  <2>7. OneAtWork'
    BY <1>2, <2>1, <2>3, <2>6 DEF OneAtWork, NoWait
  <2> QED BY <2>4, <2>7
<1>7. CASE ExpireApproval
  <2>1. EndsAs("failed", WithStatus(Current, "timed_out"), "failed")
    BY <1>7 DEF ExpireApproval
  <2>2. "timed_out" \in AttemptStatus
    BY DEF AttemptStatus
  <2>3. /\ WithStatus(Current, "timed_out") \in Seq([status : AttemptStatus, epoch : Nat])
        /\ Len(WithStatus(Current, "timed_out")) = Len(attempts)
    BY <2>2, WithStatusForm
  <2>4. Len(WithStatus(Current, "timed_out")) # 0
    BY <1>1, <2>3
  <2>5. WithStatus(Current, "timed_out") # <<>>
    BY <2>4
  <2> QED BY <1>1, <2>1, <2>3, <2>5, EndAttempts
<1>8. CASE ConfirmSucceeded \/ ConfirmFailed
  BY <1>3, <1>8 DEF ConfirmSucceeded, ConfirmFailed, Resolvable, GoesOn
<1>9. CASE AbortRun
  <2> DEFINE R == [status : AttemptStatus, epoch : Nat]
             k == Len(attempts)
             new(b) == IF attempts[b].status \in {"queued", "running", "waiting"}
                         THEN [attempts[b] EXCEPT !.status = "cancelled"] ELSE attempts[b]
  <2>1. /\ attempts' = [b \in DOMAIN attempts |-> new(b)] /\ wait' = NoWait /\ wakeups' = {}
        /\ run' = [status |-> "cancelled", epoch |-> run.epoch + 1]
    BY <1>9 DEF AbortRun
  <2>2. k \in Nat /\ DOMAIN attempts = 1 .. k /\ k # 0 /\ \A b \in 1 .. k : attempts[b] \in R
    <3>1. attempts \in Seq(R) /\ attempts # <<>>
      BY <1>1
    <3> HIDE DEF R
    <3> QED BY <3>1
  <2>3. \A b \in 1 .. k : new(b) \in R /\ new(b).status \notin {"queued", "running"}
    BY <2>2 DEF AttemptStatus
  <2> HIDE DEF new, R, k
  <2>4. attempts' \in [1 .. k -> R]
    BY <2>1, <2>2, <2>3
  <2>5. attempts' \in Seq(R) /\ Len(attempts') = k /\ DOMAIN attempts' = 1 .. k /\ attempts' # <<>>
    BY <2>2, <2>4
  <2>6. \A b \in DOMAIN attempts' : attempts'[b].status \notin {"queued", "running"}
    BY <2>1, <2>2, <2>3
  <2>7. RunShaped'
    BY <1>1, <2>1, <2>5, RunForms DEF RunShaped, R
  <2>8. OneAtWork'
    BY <2>1, <2>5, <2>6 DEF OneAtWork, NoWait
  <2> QED BY <2>7, <2>8
<1> QED BY <1>4, <1>5, <1>6, <1>7, <1>8, <1>9 DEF PeopleStep

\* Every step keeps the run and its attempts in shape, and at most the last one at work.
LEMMA StepAttempts ==
  ASSUME RunShaped, OneAtWork, [Next]_vars
  PROVE  RunShaped' /\ OneAtWork'
<1>1. attempts \in Seq([status : AttemptStatus, epoch : Nat]) /\ attempts # <<>>
  BY DEF RunShaped, OneAtWork
<1>2. CASE Begin
  <2> DEFINE a == Current
             R == [status : AttemptStatus, epoch : Nat]
             new == [status |-> "running", epoch |-> run.epoch]
  <2>1. /\ attempts' = [attempts EXCEPT ![a] = new] /\ attempts[a].status = "queued"
        /\ UNCHANGED <<run, wait>> /\ wakeups' = (wakeups \ {"ready"}) \cup {"claimed"}
    BY <1>2 DEF Begin
  <2>2. new \in R /\ new.status = "running"
    BY DEF RunShaped, AttemptStatus
  <2>3. a \in DOMAIN attempts /\ a = Len(attempts) /\ attempts \in Seq(R)
    BY <1>1 DEF Current
  <2>4. wait.kind = "none" /\ "retry" \notin wakeups
    BY <2>1, <2>3, AtWork
  <2> HIDE DEF R, new, a
  <2>5. /\ attempts' \in Seq(R) /\ Len(attempts') = Len(attempts) /\ DOMAIN attempts' = DOMAIN attempts
        /\ \A b \in DOMAIN attempts : b # a => attempts'[b] = attempts[b]
    BY <2>1, <2>2, <2>3
  <2>6. RunShaped'
    BY <2>1, <2>5 DEF RunShaped, R
  <2>7. a \in DOMAIN attempts'
    BY <2>3, <2>5
  <2>8. attempts' # <<>>
    BY <2>7
  <2>9. OneAtWork'
    BY <2>1, <2>3, <2>4, <2>5, <2>8 DEF OneAtWork
  <2> QED BY <2>6, <2>9
<1>3. CASE FireRetry
  <2>1. /\ attempts' = Append(attempts, Queued) /\ run' = Restarted /\ UNCHANGED wait
        /\ wakeups' = (wakeups \ {"retry"}) \cup {"ready"} /\ "retry" \in wakeups
    BY <1>3 DEF FireRetry, Requeued
  <2>2. attempts[Len(attempts)].status = "timed_out" /\ wait.kind = "none"
    BY <2>1 DEF OneAtWork
  <2>3. \A b \in DOMAIN attempts : attempts[b].status \notin {"queued", "running"}
    BY <2>2 DEF OneAtWork
  <2>4. run' \in [status : RunStatus, epoch : Nat] /\ "retry" \notin wakeups' /\ wait'.kind = "none"
    BY <2>1, <2>2, RunForms
  <2> QED BY <1>1, <2>1, <2>3, <2>4, TakesUp
<1>4. CASE Settle
  <2>1. /\ UNCHANGED <<attempts, wait>> /\ wakeups' = wakeups \ {"settle"}
        /\ run' \in {Idled(wakeups \cap {"ready", "claimed"}), [run EXCEPT !.status = "completed"], run}
    BY <1>4 DEF Settle
  <2>2. run' \in [status : RunStatus, epoch : Nat]
    BY <2>1, RunForms DEF RunStatus
  <2> QED BY <2>1, <2>2, SameAttempts
<1>5. CASE OthersFinish
  <2>1. /\ UNCHANGED <<attempts, wait, wakeups>>
        /\ run' \in {run, [run EXCEPT !.status = "interrupted"], [run EXCEPT !.status = "waiting"],
                     [run EXCEPT !.status = "completed"]}
    BY <1>5 DEF OthersFinish
  <2>2. run' \in [status : RunStatus, epoch : Nat]
    BY <2>1, RunForms DEF RunStatus
  <2> QED BY <2>1, <2>2, SameAttempts
<1>6. CASE Interrupt \/ Resume
  <2>1. /\ UNCHANGED <<attempts, wait>>
        /\ "retry" \in wakeups' => "retry" \in wakeups
    BY <1>6 DEF Interrupt, Resume
  <2>2. \E status \in RunStatus : run' = [status |-> status, epoch |-> run.epoch + 1]
    BY <1>6 DEF Interrupt, Resume, RunStatus
  <2>3. run' \in [status : RunStatus, epoch : Nat]
    BY <2>2, RunForms
  <2> QED BY <2>1, <2>3, SameAttempts
<1>7. CASE Cancel
  BY <1>1, <1>7, EndAttempts DEF Cancel, EndRun, RunStatus
<1>8. CASE PeopleStep
  BY <1>8, PeopleAttempts
<1>9. ASSUME NEW a \in Attempts, ExecutorStep(a) \/ LeaseStep(a) \/ DeadlineStep(a)
      PROVE  RunShaped' /\ OneAtWork'
  BY <1>9, ExecutorAttempts, LeaseAttempts
<1>10. CASE (\E a \in Attempts : Quit(a)) \/ UNCHANGED vars
  <2>1. UNCHANGED <<run, attempts, wait, wakeups>>
    BY <1>10 DEF Quit, rows, vars
  <2> QED BY <2>1, SameAttempts, RunForms
<1> QED BY <1>2, <1>3, <1>4, <1>5, <1>6, <1>7, <1>8, <1>9, <1>10 DEF Next, RunStep, ControlStep

(***************************************************************************)
(* Whose hands a call is in.                                               *)
(***************************************************************************)
\* The row s says that its call is the attempt's.
Mine(a, s) ==
    /\ s.status # "absent"
    /\ s.status \in {"prepared", "running"} /\ Len(s.tries) > 0 => s.tries[Len(s.tries)].by = a

\* When no attempt is held, nobody has a call in hand.
LEMMA NobodyHeld ==
  ASSUME OneAtWork', attempts'[Len(attempts')].status # "running"
  PROVE  InTheirHands'
BY DEF OneAtWork, InTheirHands, Held

\* One executor moves: it holds the node itself, or touches no call that has been prepared.
LEMMA HandsMove ==
  ASSUME RunShaped, OneAtWork, InTheirHands, NEW b \in Attempts, UNCHANGED attempts,
         \A a \in Attempts : a # b => exec'[a] = exec[a],
         Held(b) \/ \A c \in Calls : ledger[c].status # "absent" => ledger'[c] = ledger[c],
         \A c \in Calls : exec'[b].pc \in Busy /\ c = InHand(exec'[b]) => Mine(b, ledger'[c])
  PROVE  InTheirHands'
<1>1. ASSUME NEW a \in Attempts, NEW c \in Calls, exec'[a].pc \in Busy, Held(a)', c = InHand(exec'[a])
      PROVE  Mine(a, ledger'[c])
  <2>1. CASE a = b
    BY <1>1, <2>1
  <2>2. CASE a # b
    <3>1. Held(a) /\ exec'[a] = exec[a]
      BY <1>1, <2>2 DEF Held
    <3>2. ~Held(b)
      BY <2>2, <3>1 DEF Held, OneAtWork
    <3>3. Mine(a, ledger[c])
      BY <1>1, <3>1 DEF InTheirHands, Mine, LastTry, LatestTry
    <3>4. ledger'[c] = ledger[c]
      BY <3>2, <3>3 DEF Mine
    <3> QED BY <3>3, <3>4
  <2> QED BY <2>1, <2>2
<1> QED BY <1>1 DEF InTheirHands, Mine, LastTry, LatestTry

\* Where an executor is after a step.
LEMMA StepFacts ==
  ASSUME CheckpointsShaped, NEW b \in Attempts, NEW pc, NEW ck, Step(b, pc, ck) \/ Saves(b, pc, ck)
  PROVE  /\ \A a \in Attempts : a # b => exec'[a] = exec[a]
         /\ exec'[b].pc = pc /\ exec'[b].ck = ck
<1>1. Step(b, pc, ck)
  BY DEF Saves
<1>2. exec = [a \in Attempts |-> exec[a]] /\ exec[b] \in [pc : Pcs, ck : {exec[b].ck}, trim : Nat]
  BY DEF CheckpointsShaped, IsExecutor
<1>3. exec' = [exec EXCEPT ![b] = [[exec[b] EXCEPT !.pc = pc] EXCEPT !.ck = ck]]
  BY <1>1, <1>2 DEF Step
<1>4. exec'[b] = [[exec[b] EXCEPT !.pc = pc] EXCEPT !.ck = ck]
  BY <1>2, <1>3
<1> QED BY <1>2, <1>3, <1>4

\* The same, for an executor that has nothing in hand afterwards.
LEMMA EmptyHands ==
  ASSUME Shaped, OneAtWork, InTheirHands, NEW b \in Attempts, UNCHANGED attempts,
         NEW pc \in Pcs \ Busy, NEW ck, Step(b, pc, ck) \/ Saves(b, pc, ck),
         Held(b) \/ \A c \in Calls : ledger[c].status # "absent" => ledger'[c] = ledger[c]
  PROVE  InTheirHands'
<1>1. /\ \A a \in Attempts : a # b => exec'[a] = exec[a]
      /\ exec'[b].pc \notin Busy
  BY StepFacts DEF Shaped
<1> QED BY <1>1, HandsMove DEF Shaped

\* The same, for an executor that has prepared or started one call.
LEMMA FullHands ==
  ASSUME Shaped, OneAtWork, InTheirHands, NEW b \in Attempts, UNCHANGED attempts,
         NEW pc \in Busy, NEW ck, Saves(b, pc, ck),
         NEW c, c = InHand([pc |-> pc, ck |-> ck]), NEW s, ledger' = [ledger EXCEPT ![c] = s],
         Held(b) \/ ledger[c].status = "absent", c \in Calls => Mine(b, s)
  PROVE  InTheirHands'
<1>1. /\ \A a \in Attempts : a # b => exec'[a] = exec[a]
      /\ exec'[b].pc = pc /\ exec'[b].ck = ck
  BY StepFacts DEF Shaped
<1>2. InHand(exec'[b]) = c
  BY <1>1 DEF InHand
<1>3. /\ c \in Calls => ledger'[c] = s
      /\ \A d \in Calls : d # c => ledger'[d] = ledger[d]
  BY DEF Shaped, RowsShaped
<1>4. \A d \in Calls : exec'[b].pc \in Busy /\ d = InHand(exec'[b]) => Mine(b, ledger'[d])
  BY <1>2, <1>3
<1>5. Held(b) \/ \A d \in Calls : ledger[d].status # "absent" => ledger'[d] = ledger[d]
  BY <1>3
<1> QED BY <1>1, <1>4, <1>5, HandsMove DEF Shaped

\* A call is that of the attempt that prepared it.
LEMMA PreparedIsMine ==
  ASSUME NEW a, NEW class
  PROVE  Mine(a, Prepared(class, a))
BY DEF Mine, Prepared, NewTry

\* A call is that of the attempt that prepared it again.
LEMMA RetriedIsMine ==
  ASSUME Shaped, TriesFit, NEW a \in Nat, NEW c \in Calls, ledger[c].status = "retry_ready"
  PROVE  Mine(a, Retried(c, a))
<1>1. ledger[c] \in CallRow /\ Fitting(ledger[c]) /\ LatestTry(c) \in Nat
  BY RowFacts DEF Shaped
<1>2. /\ Len(Retried(c, a).tries) = LatestTry(c) + 1
      /\ Retried(c, a).tries[LatestTry(c) + 1] = NewTry(a)
  BY <1>1, RetriedRow
<1>3. Retried(c, a).status = "prepared"
  BY <1>1 DEF Retried, CallRow
<1> QED BY <1>2, <1>3 DEF Mine, NewTry

\* A call that is started stays that of its attempt.
LEMMA StartedIsMine ==
  ASSUME Shaped, TriesFit, NEW a, NEW c \in Calls, LatestTry(c) > 0 => LastTry(c).by = a
  PROVE  Mine(a, Moved(c, "running", "pending", "started"))
<1> DEFINE s == Moved(c, "running", "pending", "started")
<1>1. ledger[c] \in CallRow /\ Fitting(ledger[c]) /\ LatestTry(c) \in Nat
  BY RowFacts DEF Shaped
<1>2. /\ Len(s.tries) = LatestTry(c)
      /\ LatestTry(c) > 0 => s.tries[LatestTry(c)] = [LastTry(c) EXCEPT !.status = "started"]
  BY <1>1, MovedRow DEF CallStatus, EffectStatus, TryStatus
<1>3. LatestTry(c) > 0 => LastTry(c) \in TryRow
  BY <1>1 DEF LastTry, LatestTry, CallRow
<1>4. s.status = "running"
  BY <1>1 DEF Moved, CallRow
<1> HIDE DEF s
<1>5. LatestTry(c) > 0 => s.tries[LatestTry(c)].by = a
  BY <1>2, <1>3 DEF TryRow
<1> QED BY <1>2, <1>4, <1>5 DEF Mine, s

\* An attempt takes the checkpoint up.
LEMMA ResumeHands ==
  ASSUME LedgerInv, NEW b \in Attempts, ResumeStep(b)
  PROVE  InTheirHands'
<1>1. UNCHANGED <<attempts, ledger>>
  BY DEF ResumeStep, ResumeFresh, ResumeCount, ResumeModel, ResumeCompleted, ResumeRepair, ResumeTools,
         ResumeInvalid, rows
<1>2. PICK pc \in Pcs \ Busy : Step(b, pc, ckpt)
  BY DEF ResumeStep, ResumeFresh, ResumeCount, ResumeModel, ResumeCompleted, ResumeRepair, ResumeTools,
         ResumeInvalid, Pcs, Busy
<1> QED BY <1>1, <1>2, EmptyHands DEF LedgerInv

\* Counting the tokens of the first request.
LEMMA CountHands ==
  ASSUME LedgerInv, NEW b \in Attempts, CountStep(b)
  PROVE  InTheirHands'
<1>1. Shaped /\ OneAtWork /\ InTheirHands /\ TriesFit /\ b \in Nat /\ CheckpointsShaped
  BY ExecutorFacts DEF LedgerInv, Shaped
<1>2. UNCHANGED attempts
  BY DEF CountStep, PrepareCount, RetryCount, ReuseCount, StartCount, FinishCount, Reassemble, rows
<1>3. IsOwner(b) => Held(b)
  BY DEF IsOwner, Held
<1>4. {"call", "fail", "trim", "count"} \subseteq Pcs \ Busy /\ "counting" \in Busy /\ "counted" \in Busy
  BY DEF Pcs, Busy
<1>5. CASE PrepareCount(b)
  <2>1. PICK k, ck : /\ Saves(b, "counting", ck) /\ ck.count.no = k /\ ledger[<<0, k>>].status = "absent"
                     /\ ledger' = [ledger EXCEPT ![<<0, k>>] = Prepared("pure", b)]
    <3> DEFINE k == Local(b).count.no + 1
               ck == [Local(b) EXCEPT !.by = b, !.mark = <<0, k, 1>>,
                        !.count = [no |-> k, status |-> "prepared", trim |-> exec[b].trim, fits |-> FALSE]]
    <3>1. IsCheckpoint(Local(b))
      BY <1>1, ExecutorFacts
    <3>2. ck.count.no = k
      BY <3>1 DEF IsCheckpoint
    <3>3. /\ Saves(b, "counting", ck) /\ ledger[<<0, k>>].status = "absent"
          /\ ledger' = [ledger EXCEPT ![<<0, k>>] = Prepared("pure", b)]
      BY <1>5 DEF PrepareCount, IsNew
    <3> HIDE DEF ck, k
    <3> QED BY <3>2, <3>3
  <2>2. InHand([pc |-> "counting", ck |-> ck]) = <<0, k>>
    BY <2>1 DEF InHand
  <2>3. Mine(b, Prepared("pure", b))
    BY PreparedIsMine
  <2> QED BY <1>1, <1>2, <1>4, <2>1, <2>2, <2>3, FullHands
<1>6. CASE RetryCount(b)
  <2> DEFINE c == CountOf(Local(b))
             old == Marked(Local(b), c, "prepared")
             ck == [old EXCEPT !.by = b, !.mark = Append(c, LatestTry(c) + 1)]
  <2>1. /\ Saves(b, "counting", ck) /\ ledger[c].status = "retry_ready" /\ IsOwner(b)
        /\ ledger' = [ledger EXCEPT ![c] = Retried(c, b)]
    BY <1>6 DEF RetryCount
  <2>2. IsCheckpoint(Local(b)) /\ Fits(Local(b)) /\ ~IsModel(c) /\ c = <<0, Local(b).count.no>>
    BY <1>1, ExecutorFacts DEF CountOf, IsModel
  <2>3. IsCheckpoint(old) /\ old.count.no = Local(b).count.no
    BY <2>2, MarkedFits DEF CallStatus
  <2> HIDE DEF old
  <2>4. ck.count.no = Local(b).count.no
    BY <2>3 DEF IsCheckpoint
  <2> HIDE DEF ck
  <2>5. InHand([pc |-> "counting", ck |-> ck]) = c
    BY <2>4 DEF InHand, CountOf
  <2> HIDE DEF c
  <2>6. c \in Calls => Mine(b, Retried(c, b))
    BY <1>1, <2>1, RetriedIsMine
  <2> QED BY <1>1, <1>2, <1>3, <1>4, <2>1, <2>5, <2>6, FullHands
<1>7. CASE StartCount(b)
  <2> DEFINE c == CountOf(Local(b))
             ck == Marked(Local(b), c, "running")
             s == Moved(c, "running", "pending", "started")
  <2>1. /\ Saves(b, "counted", ck) /\ IsOwner(b) /\ ledger[c].status = "prepared" /\ exec[b].pc = "counting"
        /\ ledger' = [ledger EXCEPT ![c] = s]
    BY <1>7 DEF StartCount, At
  <2>2. IsCheckpoint(Local(b)) /\ Fits(Local(b)) /\ ~IsModel(c) /\ c = <<0, Local(b).count.no>>
    BY <1>1, ExecutorFacts DEF CountOf, IsModel
  <2>3. ck.count.no = Local(b).count.no
    BY <2>2, MarkedFits DEF CallStatus
  <2>4. c = InHand(exec[b])
    BY <2>1 DEF InHand, CountOf, Local
  <2> HIDE DEF ck
  <2>5. InHand([pc |-> "counted", ck |-> ck]) = c
    BY <2>3 DEF InHand, CountOf
  <2> HIDE DEF c
  <2>6. c \in Calls => (LatestTry(c) > 0 => LastTry(c).by = b)
    BY <2>1, <2>4, HandFacts DEF Busy
  <2>7. c \in Calls => Mine(b, s)
    BY <1>1, <2>6, StartedIsMine
  <2> HIDE DEF s
  <2> QED BY <1>1, <1>2, <1>3, <1>4, <2>1, <2>5, <2>7, FullHands
<1>8. ASSUME NEW fits \in BOOLEAN, FinishCount(b, fits) PROVE InTheirHands'
  <2>a. \E pc \in {"call", "fail", "trim"} : \E ck : Saves(b, pc, ck)
    BY <1>8 DEF FinishCount, AfterCount
  <2>b. PICK pc \in {"call", "fail", "trim"} : \E ck : Saves(b, pc, ck)
    BY <2>a
  <2>1. PICK ck : Saves(b, pc, ck)
    BY <2>b
  <2>2. Held(b)
    BY <1>3, <1>8 DEF FinishCount
  <2> QED BY <1>1, <1>2, <1>4, <2>1, <2>2, EmptyHands
<1>9. CASE ReuseCount(b)
  <2>1. PICK pc \in {"call", "fail", "trim"} : Step(b, pc, Local(b))
    BY <1>9 DEF ReuseCount, AfterCount
  <2>2. UNCHANGED ledger
    BY <1>9 DEF ReuseCount, rows
  <2> QED BY <1>1, <1>2, <1>4, <2>1, <2>2, EmptyHands
<1>10. ASSUME NEW ok \in BOOLEAN, Reassemble(b, ok) PROVE InTheirHands'
  <2> DEFINE pc == IF ok THEN "count" ELSE "fail"
  <2>1. exec' = [exec EXCEPT ![b].pc = pc, ![b].trim = @ + 1] /\ UNCHANGED ledger
    BY <1>10 DEF Reassemble, rows
  <2>2. pc \notin Busy
    BY DEF Busy
  <2> HIDE DEF pc
  <2>3. exec = [a \in Attempts |-> exec[a]] /\ exec[b] \in [pc : Pcs, ck : {exec[b].ck}, trim : Nat]
    BY <1>1 DEF CheckpointsShaped, IsExecutor
  <2>4. exec'[b].pc = pc /\ \A a \in Attempts : a # b => exec'[a] = exec[a]
    BY <2>1, <2>3
  <2> QED BY <1>1, <1>2, <2>1, <2>2, <2>4, HandsMove DEF Shaped
<1> QED BY <1>5, <1>6, <1>7, <1>8, <1>9, <1>10 DEF CountStep

\* A model call.
LEMMA ModelHands ==
  ASSUME LedgerInv, NEW b \in Attempts, ModelStep(b), ~LoseModel(b)
  PROVE  InTheirHands'
<1>1. Shaped /\ OneAtWork /\ InTheirHands /\ TriesFit /\ b \in Nat /\ CheckpointsShaped
  BY ExecutorFacts DEF LedgerInv, Shaped
<1>2. UNCHANGED attempts /\ IsOwner(b)
  BY DEF ModelStep, PrepareModel, RetryModel, StartModel, AnswerModel, RejectModel, FailModel, Receives, Untouched
<1>3. Held(b)
  BY <1>2 DEF IsOwner, Held
<1>4. {"plan", "fail"} \subseteq Pcs \ Busy /\ "send" \in Busy /\ "receive" \in Busy
  BY DEF Pcs, Busy
<1>5. IsCheckpoint(Local(b))
  BY <1>1, ExecutorFacts
<1>6. CASE PrepareModel(b)
  <2>1. PICK m, ck : /\ Saves(b, "send", ck) /\ ck.model = m
                     /\ ledger' = [ledger EXCEPT ![<<m>>] = Prepared(ModelClass, b)]
    <3> DEFINE m == Local(b).model + 1
               ck == [Local(b) EXCEPT !.by = b, !.model = m, !.status = "prepared", !.mark = <<m, 1>>,
                        !.calls = <<>>, !.answered = FALSE, !.valid = FALSE, !.batch = <<>>,
                        !.filled = FALSE, !.repairing = FALSE]
    <3>1. Saves(b, "send", ck) /\ ledger' = [ledger EXCEPT ![<<m>>] = Prepared(ModelClass, b)]
      BY <1>6 DEF PrepareModel
    <3> HIDE DEF m
    <3>2. ck.model = m
      BY <1>5 DEF IsCheckpoint
    <3> HIDE DEF ck
    <3> QED BY <3>1, <3>2
  <2>2. InHand([pc |-> "send", ck |-> ck]) = <<m>>
    BY <2>1 DEF InHand
  <2>3. Mine(b, Prepared(ModelClass, b))
    BY PreparedIsMine
  <2> QED BY <1>1, <1>2, <1>3, <1>4, <2>1, <2>2, <2>3, FullHands
<1>7. CASE RetryModel(b)
  <2> DEFINE c == ModelOf(Local(b))
             ck == [Local(b) EXCEPT !.by = b, !.status = "prepared", !.mark = Append(c, LatestTry(c) + 1)]
  <2>1. /\ Saves(b, "send", ck) /\ ledger[c].status = "retry_ready"
        /\ ledger' = [ledger EXCEPT ![c] = Retried(c, b)]
    BY <1>7 DEF RetryModel
  <2>2. ck.model = Local(b).model
    BY <1>5 DEF IsCheckpoint
  <2> HIDE DEF ck
  <2>3. InHand([pc |-> "send", ck |-> ck]) = c
    BY <2>2 DEF InHand, ModelOf
  <2> HIDE DEF c
  <2>4. c \in Calls => Mine(b, Retried(c, b))
    BY <1>1, <2>1, RetriedIsMine
  <2> QED BY <1>1, <1>2, <1>3, <1>4, <2>1, <2>3, <2>4, FullHands
<1>8. CASE StartModel(b)
  <2> DEFINE c == ModelOf(Local(b))
             ck == [Local(b) EXCEPT !.status = "running"]
             s == Moved(c, "running", "pending", "started")
  <2>1. /\ Saves(b, "receive", ck) /\ ledger[c].status = "prepared" /\ exec[b].pc = "send"
        /\ ledger' = [ledger EXCEPT ![c] = s]
    BY <1>8 DEF StartModel, At
  <2>2. ck.model = Local(b).model
    BY <1>5 DEF IsCheckpoint
  <2>3. c = InHand(exec[b])
    BY <2>1 DEF InHand, ModelOf, Local
  <2> HIDE DEF ck
  <2>4. InHand([pc |-> "receive", ck |-> ck]) = c
    BY <2>2 DEF InHand, ModelOf
  <2> HIDE DEF c
  <2>5. c \in Calls => (LatestTry(c) > 0 => LastTry(c).by = b)
    BY <1>2, <2>1, <2>3, HandFacts DEF Busy
  <2>6. c \in Calls => Mine(b, s)
    BY <1>1, <2>5, StartedIsMine
  <2> HIDE DEF s
  <2> QED BY <1>1, <1>2, <1>3, <1>4, <2>1, <2>4, <2>6, FullHands
<1>9. CASE RejectModel(b) \/ FailModel(b) \/ \E calls, valid : AnswerModel(b, calls, valid)
  <2>a. \E pc \in {"plan", "fail"} : \E ck : Saves(b, pc, ck)
    BY <1>9 DEF RejectModel, FailModel, AnswerModel
  <2>b. PICK pc \in {"plan", "fail"} : \E ck : Saves(b, pc, ck)
    BY <2>a
  <2>1. PICK ck : Saves(b, pc, ck)
    BY <2>b
  <2> QED BY <1>1, <1>2, <1>3, <1>4, <2>1, EmptyHands
<1> QED BY <1>6, <1>7, <1>8, <1>9 DEF ModelStep

\* A node that waits for somebody or for its timer holds no attempt.
LEMMA WaitingHands ==
  ASSUME OneAtWork', wait'.kind # "none" \/ "retry" \in wakeups'
  PROVE  InTheirHands'
<1>1. attempts'[Len(attempts')].status # "running"
  BY DEF OneAtWork
<1> QED BY <1>1, NobodyHeld

\* Nor does one whose last attempt is queued.
LEMMA QueuedHands ==
  ASSUME OneAtWork', NEW A \in Seq([status : AttemptStatus, epoch : Nat]), RunShaped,
         attempts' = Append(A, Queued)
  PROVE  InTheirHands'
<1>1. Queued.status = "queued" /\ Queued \in [status : AttemptStatus, epoch : Nat]
  BY DEF Queued, AttemptStatus, RunShaped
<1> DEFINE R == [status : AttemptStatus, epoch : Nat]
<1>2. A \in Seq(R) /\ Queued \in R
  BY <1>1
<1> HIDE DEF R
<1>3. Len(attempts') = Len(A) + 1 /\ attempts'[Len(A) + 1] = Queued
  BY <1>2
<1>4. attempts'[Len(attempts')].status # "running"
  BY <1>1, <1>3
<1> QED BY <1>4, NobodyHeld

\* Nor does one of a run that ends.
LEMMA EndedHands ==
  ASSUME NEW A \in Seq([status : AttemptStatus, epoch : Nat]),
         attempts' = [a \in DOMAIN A |->
                        IF A[a].status \in {"queued", "running", "waiting"}
                          THEN [A[a] EXCEPT !.status = "cancelled"] ELSE A[a]]
  PROVE  InTheirHands'
<1> DEFINE R == [status : AttemptStatus, epoch : Nat]
<1>1. \A b \in DOMAIN A : A[b] \in R
  <2>1. A \in Seq(R)
    OBVIOUS
  <2> HIDE DEF R
  <2> QED BY <2>1
<1>2. \A b \in DOMAIN attempts' : attempts'[b].status # "running"
  BY <1>1
<1> QED BY <1>2 DEF InTheirHands, Held

\* Nor does one whose last attempt takes a status that is over.
LEMMA OverHands ==
  ASSUME RunShaped, OneAtWork', NEW a, a = Len(attempts), attempts # <<>>,
         NEW status \in AttemptStatus \ {"running"}, attempts' = WithStatus(a, status)
  PROVE  InTheirHands'
<1>1. a \in DOMAIN attempts
  BY DEF RunShaped
<1>2. Len(attempts') = Len(attempts)
  BY WithStatusForm
<1>3. a \in DOMAIN attempts => attempts'[a].status = status
  BY WithStatusForm
<1>4. attempts'[Len(attempts')].status # "running"
  BY <1>1, <1>2, <1>3
<1> QED BY <1>4, NobodyHeld

\* What the response asks for.
LEMMA PlanHands ==
  ASSUME LedgerInv, NEW b \in Attempts, PlanStep(b), OneAtWork'
  PROVE  InTheirHands'
<1>1. Shaped /\ OneAtWork /\ InTheirHands /\ RowsShaped
  BY DEF LedgerInv, Shaped
<1>2. "dispatch" \in Pcs \ Busy /\ "fail" \in Pcs \ Busy /\ "call" \in Pcs \ Busy
  BY DEF Pcs, Busy
<1>3. CASE PlanTools(b) \/ ReplaySearch(b) \/ PlanRefused(b) \/ RepairsSpent(b)
  <2>1. UNCHANGED <<attempts, ledger>>
    BY <1>3 DEF PlanTools, ReplaySearch, PlanRefused, RepairsSpent, rows
  <2>a. \E pc \in {"dispatch", "fail"} : \E ck : Step(b, pc, ck)
    BY <1>3 DEF PlanTools, ReplaySearch, PlanRefused, RepairsSpent
  <2>b. PICK pc \in {"dispatch", "fail"} : \E ck : Step(b, pc, ck)
    BY <2>a
  <2>2. PICK ck : Step(b, pc, ck)
    BY <2>b
  <2> QED BY <1>1, <1>2, <2>1, <2>2, EmptyHands
<1>4. CASE SearchMemory(b)
  <2> DEFINE m == Local(b).model
             calls == Asked(b)
  <2>1. /\ Rows(m) = {} /\ ledger' = WithRows(m, calls, Batch(calls, "completed"))
        /\ UNCHANGED attempts
    BY <1>4 DEF SearchMemory, Untouched
  <2>2. PICK ck : Saves(b, "dispatch", ck)
    BY <1>4 DEF SearchMemory
  <2> HIDE DEF m, calls
  <2>3. ASSUME NEW c \in Calls, ledger[c].status # "absent" PROVE ledger'[c] = ledger[c]
    <3>1. IsTool(c) /\ c[1] = m => c = <<m, c[2]>> /\ c[2] \in 1 .. MaxBatch
      BY CallForms
    <3>2. ~(IsTool(c) /\ c[1] = m)
      BY <2>1, <2>3, <3>1 DEF Rows
    <3> QED BY <2>1, <3>2 DEF WithRows
  <2> QED BY <1>1, <1>2, <2>1, <2>2, <2>3, EmptyHands
<1>5. CASE Repair(b)
  <2>1. UNCHANGED <<attempts, ledger>> /\ \E ck : Saves(b, "call", ck)
    BY <1>5 DEF Repair
  <2> QED BY <1>1, <1>2, <2>1, EmptyHands
<1>6. CASE PlanApproval(b) \/ PlanProposals(b)
  <2>1. wait'.kind # "none"
    BY <1>6 DEF PlanApproval, PlanProposals
  <2> QED BY <2>1, WaitingHands
<1> QED BY <1>3, <1>4, <1>5, <1>6 DEF PlanStep

\* The tools of a batch.
LEMMA ToolHands ==
  ASSUME LedgerInv, NEW b \in Attempts, ToolStep(b), OneAtWork'
  PROVE  InTheirHands'
<1>1. Shaped /\ OneAtWork /\ InTheirHands /\ TriesFit /\ b \in Nat /\ CheckpointsShaped
  BY ExecutorFacts DEF LedgerInv, Shaped
<1>2. IsOwner(b) => Held(b)
  BY DEF IsOwner, Held
<1>3. /\ {"dispatch", "redispatch", "call", "fail"} \subseteq Pcs \ Busy
      /\ {"tool", "retool"} \subseteq Busy
  BY DEF Pcs, Busy
<1>4. IsCheckpoint(Local(b))
  BY <1>1, ExecutorFacts
<1>5. CASE PrepareTool(b)
  <2> DEFINE i == NextOf(b, "requested")
             c == Tool(Local(b), i)
             s == Prepared(ClassOf(Local(b), i), b)
  <2>1. /\ ledger[c].status = "absent" /\ ledger' = [ledger EXCEPT ![c] = s] /\ UNCHANGED attempts
        /\ \E ck : Saves(b, "dispatch", ck)
    BY <1>5 DEF PrepareTool, IsNew, Untouched
  <2> HIDE DEF c, s
  <2>2. ASSUME NEW d \in Calls, ledger[d].status # "absent" PROVE ledger'[d] = ledger[d]
    BY <1>1, <2>1, <2>2 DEF Shaped, RowsShaped
  <2> QED BY <1>1, <1>3, <2>1, <2>2, EmptyHands
<1>6. CASE RetryTool(b) \/ CompleteTool(b) \/ SettleBatch(b) \/ \E fatal \in BOOLEAN : FailTool(b, fatal)
  <2>1. UNCHANGED attempts /\ IsOwner(b)
    BY <1>6 DEF RetryTool, CompleteTool, SettleBatch, FailTool, Untouched, Returns
  <2>a. \E pc \in {"dispatch", "redispatch", "call", "fail"} : \E ck : Saves(b, pc, ck)
    BY <1>6 DEF RetryTool, CompleteTool, SettleBatch, FailTool, AfterTool
  <2>b. PICK pc \in {"dispatch", "redispatch", "call", "fail"} : \E ck : Saves(b, pc, ck)
    BY <2>a
  <2>2. PICK ck : Saves(b, pc, ck)
    BY <2>b
  <2> QED BY <1>1, <1>2, <1>3, <2>1, <2>2, EmptyHands
<1>7. CASE StartTool(b)
  <2> DEFINE i == NextOf(b, "prepared")
             c == Tool(Local(b), i)
             s == Moved(c, "running", "pending", "started")
             pc == IF At(b, {"dispatch"}) THEN "tool" ELSE "retool"
             ck == [Local(b) EXCEPT !.batch[i] = "running", !.mark = Watermark(c)]
  <2>1. /\ UNCHANGED attempts /\ IsOwner(b) /\ ledger' = [ledger EXCEPT ![c] = s] /\ Saves(b, pc, ck)
        /\ LastTry(c).by = b
    BY <1>7 DEF StartTool, Untouched, LastTry
  <2>2. pc \in {"tool", "retool"}
    OBVIOUS
  <2>3. ck.mark = Watermark(c) /\ c = <<Local(b).model, i>>
    BY <1>4 DEF IsCheckpoint, Tool
  <2> HIDE DEF pc, ck, i
  <2>4. ck.mark[1] = Local(b).model /\ ck.mark[2] = i
    BY <2>3 DEF Watermark
  <2>5. InHand([pc |-> pc, ck |-> ck]) = c
    BY <2>2, <2>3, <2>4 DEF InHand
  <2> HIDE DEF c
  <2>6. c \in Calls => Mine(b, s)
    BY <1>1, <2>1, StartedIsMine
  <2> HIDE DEF s
  <2> QED BY <1>1, <1>2, <1>3, <2>1, <2>2, <2>5, <2>6, FullHands
<1>8. CASE LoseTool(b)
  <2>1. wait'.kind # "none"
    BY <1>8 DEF LoseTool, OpensEffectWait
  <2> QED BY <2>1, WaitingHands
<1> QED BY <1>5, <1>6, <1>7, <1>8 DEF ToolStep

\* Every step leaves the calls in the hands of the attempts that have them.
LEMMA StepHands ==
  ASSUME LedgerInv, [Next]_vars, RunShaped', OneAtWork'
  PROVE  InTheirHands'
<1>1. Shaped /\ OneAtWork /\ InTheirHands /\ CheckpointsShaped /\ RunShaped
  BY DEF LedgerInv, Shaped
<1>2. attempts \in Seq([status : AttemptStatus, epoch : Nat]) /\ attempts # <<>>
  BY <1>1 DEF RunShaped, OneAtWork
<1>3. /\ "failed" \in AttemptStatus /\ "timed_out" \in AttemptStatus
      /\ "completed" \in AttemptStatus \ {"running"} /\ "cancelled" \in AttemptStatus \ {"running"}
  BY DEF AttemptStatus
<1>4. \A a \in DOMAIN attempts : attempts[a].status = "running" => a = Len(attempts)
  BY <1>1 DEF OneAtWork
<1>5. CASE Begin
  <2> DEFINE b == Current
  <2>1. /\ attempts' = [attempts EXCEPT ![b] = [status |-> "running", epoch |-> run.epoch]]
        /\ Step(b, "resume", NoCheckpoint) /\ attempts[b].status = "queued" /\ UNCHANGED ledger
    BY <1>5 DEF Begin
  <2>2. b = Len(attempts) /\ DOMAIN attempts' = DOMAIN attempts /\ Len(attempts') = Len(attempts)
    BY <1>2, <2>1 DEF Current
  <2>3. \A a \in DOMAIN attempts' : attempts'[a].status = "running" => a = b
    BY <2>2 DEF OneAtWork
  <2> HIDE DEF b
  <2>4. ASSUME NEW a \in Attempts, Held(a)' PROVE exec'[a].pc \notin Busy
    <3>1. a = b
      BY <2>3, <2>4 DEF Held
    <3>2. exec'[a].pc = "resume"
      BY <1>1, <2>1, <3>1, StepFacts
    <3> QED BY <3>2 DEF Busy
  <2> QED BY <2>4 DEF InTheirHands
<1>6. CASE FireRetry \/ \E a \in Attempts : RecoverLease(a)
  <2>1. PICK A \in Seq([status : AttemptStatus, epoch : Nat]) : attempts' = Append(A, Queued)
    <3>1. \A a : WithStatus(a, "failed") \in Seq([status : AttemptStatus, epoch : Nat])
      BY <1>1, <1>3, WithStatusForm
    <3> QED BY <1>2, <1>6, <3>1 DEF FireRetry, Requeued, RecoverLease
  <2> QED BY <1>1, <2>1, QueuedHands
<1>7. CASE Settle \/ OthersFinish \/ Interrupt \/ Resume \/ UNCHANGED vars
  <2>1. UNCHANGED <<attempts, exec, ledger>>
    BY <1>7 DEF Settle, OthersFinish, Interrupt, Resume, vars
  <2> QED BY <1>1, <2>1 DEF InTheirHands, InHand, Held, LastTry, LatestTry
<1>8. ASSUME \/ Cancel \/ ExpireApproval \/ AbortRun
             \/ \E a \in Attempts : FailNode(a) \/ RecoverExhausted(a) \/ TimeOutAndFail(a)
      PROVE  InTheirHands'
  <2>1. PICK A \in Seq([status : AttemptStatus, epoch : Nat]) :
           attempts' = [a \in DOMAIN A |->
                          IF A[a].status \in {"queued", "running", "waiting"}
                            THEN [A[a] EXCEPT !.status = "cancelled"] ELSE A[a]]
    <3>1. \A a : /\ WithStatus(a, "failed") \in Seq([status : AttemptStatus, epoch : Nat])
                 /\ WithStatus(a, "timed_out") \in Seq([status : AttemptStatus, epoch : Nat])
      BY <1>1, <1>3, WithStatusForm
    <3> QED BY <1>2, <1>8, <3>1 DEF Cancel, ExpireApproval, AbortRun, FailNode, RecoverExhausted, TimeOutAndFail,
                                     EndRun, EndsAs, TimedOut
  <2> QED BY <2>1, EndedHands
<1>9. CASE \E rejected \in SUBSET Rejectable : Reject(rejected)
  <2>1. attempts' = WithStatus(Current, "cancelled")
    BY <1>9 DEF Reject, WithStatus
  <2> QED BY <1>1, <1>2, <1>3, <2>1, OverHands DEF Current
<1>10. CASE \/ DecideProposals \/ ConfirmSucceeded \/ ConfirmFailed
            \/ \E rejected \in SUBSET Rejectable : Approve(rejected)
  <2>1. attempts' = Append(attempts, Queued)
    BY <1>10 DEF DecideProposals, ConfirmSucceeded, ConfirmFailed, Approve, Delivered, GoesOn, Requeued
  <2> QED BY <1>1, <1>2, <2>1, QueuedHands
<1>11. ASSUME NEW a \in Attempts, LoseModel(a) \/ TimeOutAndRetry(a) \/ \E c \in Calls : RecoverUnknown(a, c)
       PROVE  InTheirHands'
  <2>1. wait'.kind # "none" \/ "retry" \in wakeups'
    BY <1>11 DEF LoseModel, TimeOutAndRetry, RecoverUnknown, OpensEffectWait
  <2> QED BY <2>1, WaitingHands
<1>12. ASSUME NEW a \in Attempts, SucceedNode(a) PROVE InTheirHands'
  <2>1. attempts' = WithStatus(a, "completed") /\ a \in DOMAIN attempts /\ attempts[a].status = "running"
    BY <1>12 DEF SucceedNode, Accepts, IsOwner
  <2> QED BY <1>1, <1>2, <1>3, <1>4, <2>1, OverHands
<1>13. ASSUME NEW a \in Attempts, Quit(a) PROVE InTheirHands'
  <2>1. Leave(a) /\ UNCHANGED <<attempts, ledger>>
    BY <1>13 DEF Quit, rows
  <2>2. exec = [b \in Attempts |-> exec[b]]
    BY <1>1 DEF CheckpointsShaped
  <2>3. exec'[a].pc \notin Busy /\ \A b \in Attempts : b # a => exec'[b] = exec[b]
    BY <2>1, <2>2 DEF Leave, Gone, Busy
  <2> QED BY <1>1, <2>1, <2>3, HandsMove
<1>14. ASSUME NEW a \in Attempts, ExecutorStep(a) PROVE InTheirHands'
  BY <1>8, <1>11, <1>12, <1>14, ResumeHands, CountHands, ModelHands, PlanHands, ToolHands DEF ExecutorStep
<1>15. ASSUME NEW a \in Attempts, LeaseStep(a) \/ DeadlineStep(a) PROVE InTheirHands'
  BY <1>6, <1>8, <1>11, <1>15 DEF LeaseStep, DeadlineStep
<1>16. CASE PeopleStep
  BY <1>8, <1>9, <1>10, <1>16 DEF PeopleStep
<1> QED BY <1>5, <1>6, <1>7, <1>8, <1>13, <1>14, <1>15, <1>16 DEF Next, RunStep, ControlStep

(***************************************************************************)
(* The invariant, and what follows from it.                                *)
(***************************************************************************)
\* A node starts with one queued attempt and no call.
LEMMA InitLedger ==
  ASSUME Init
  PROVE  LedgerInv /\ Repeatable /\ NoBlindRepeat
<1> USE DEF Init
<1>1. Absent \in CallRow /\ Absent.status = "absent" /\ Absent.tries = <<>>
  BY DEF Absent, CallRow, CallStatus, Classes, EffectStatus
<1>2. ledger = [c \in Calls |-> Absent]
  OBVIOUS
<1>3. RowsShaped
  BY <1>1, <1>2 DEF RowsShaped
<1>4. TriesFit
  BY <1>1, <1>2 DEF TriesFit
<1>5. IsExecutor(Gone) /\ Fits(Gone.ck) /\ Stands(Gone)
  <2>1. Gone.ck = NoCheckpoint /\ Gone.pc = "gone"
    BY DEF Gone
  <2>2. Gone \in [pc : Pcs, ck : {Gone.ck}, trim : Nat]
    BY DEF Gone, Pcs
  <2>3. IsCheckpoint(Gone.ck) /\ Fits(Gone.ck)
    BY <2>1, NoCheckpointFits
  <2> QED BY <2>1, <2>2, <2>3 DEF IsExecutor, Stands
<1>6. CheckpointsShaped
  BY <1>5, NoCheckpointFits DEF CheckpointsShaped
<1>7. attempts = <<[status |-> "queued", epoch |-> 0]>> /\ run = [status |-> "running", epoch |-> 0]
  OBVIOUS
<1>8. RunShaped
  BY <1>7 DEF RunShaped, RunStatus, AttemptStatus
<1>9. OneAtWork
  BY <1>7 DEF OneAtWork, NoWait
<1>10. InTheirHands
  BY <1>7 DEF InTheirHands, Held
<1>11. Repeatable /\ NoBlindRepeat
  BY <1>1, <1>2 DEF Repeatable, NoBlindRepeat, LatestTry
<1> QED BY <1>3, <1>4, <1>6, <1>8, <1>9, <1>10, <1>11 DEF LedgerInv, Shaped

\* Every step keeps the invariant.
LEMMA StepLedger ==
  ASSUME LedgerInv, [Next]_vars
  PROVE  LedgerInv'
<1>1. Shaped /\ OneAtWork /\ RunShaped
  BY DEF LedgerInv, Shaped
<1>2. RowsShaped' /\ TriesFit'
  BY StepRows, RowsStayShaped
<1>3. CheckpointsShaped'
  BY <1>1, StepCheckpoints
<1>4. RunShaped' /\ OneAtWork'
  BY <1>1, StepAttempts
<1>5. InTheirHands'
  BY <1>4, StepHands
<1> QED BY <1>2, <1>3, <1>4, <1>5 DEF LedgerInv, Shaped

\* The rows, the checkpoints and the attempts keep their shape, at most the last attempt is at
\* work, and the calls its executor has in hand are its own: however long the executors of
\* earlier attempts live on, whatever a model asks for and wherever a process dies.
THEOREM LedgerHolds == Spec => []LedgerInv
<1>1. Init => LedgerInv
  BY InitLedger
<1>2. LedgerInv /\ [Next]_vars => LedgerInv'
  BY StepLedger
<1> QED BY <1>1, <1>2, PTL DEF Spec

\* A row says of a call with effects outside that it may be repeated only when no try of it
\* went out, or a person said that those that did have failed.
LEMMA SafeRows ==
  ASSUME RowsShaped
  PROVE  (Repeatable /\ NoBlindRepeat) <=> \A c \in Calls : ~IsCount(c) => Safe(ledger[c])
BY DEF Repeatable, NoBlindRepeat, Safe, Failed, LatestTry, LastTry

\* A call with effects outside (a tool that is not idempotent, a model call of a channel that
\* is not) is never sent again on the executor's or the recovery's own account: before every
\* repetition a person confirmed that the try before did not happen
\* (recover_started_effects, prepare_tool_call_retry, resolve_effect_unknown).
THEOREM RepeatsAreAsked == Spec => []NoBlindRepeat
<1>1. Init => RepeatInv
  BY InitLedger DEF RepeatInv
<1>2. RepeatInv /\ [Next]_vars => RepeatInv'
  <2> SUFFICES ASSUME RepeatInv, [Next]_vars PROVE RepeatInv'
    OBVIOUS
  <2>1. LedgerInv /\ RowsShaped
    BY DEF RepeatInv, LedgerInv, Shaped
  <2>2. LedgerInv' /\ RowsProper
    BY <2>1, StepLedger, StepRows
  <2>3. \A c \in Calls : ~IsCount(c) => Safe(ledger[c])
    BY <2>1, SafeRows DEF RepeatInv
  <2>4. \A c \in Calls : ~IsCount(c) => Safe(ledger'[c])
    BY <2>2, <2>3 DEF RowsProper, Proper, Lawful
  <2>5. RowsShaped'
    BY <2>2 DEF LedgerInv, Shaped
  <2>6. (Repeatable /\ NoBlindRepeat)'
    BY <2>4, <2>5 DEF Repeatable, NoBlindRepeat, Safe, Failed, LatestTry, LastTry
  <2> QED BY <2>2, <2>6 DEF RepeatInv
<1>3. RepeatInv => NoBlindRepeat
  BY DEF RepeatInv
<1> QED BY <1>1, <1>2, <1>3, PTL DEF Spec

\* The fence: a call goes out, and its outcome is recorded, only for the attempt that holds
\* the node in a running run of its own epoch, however late another executor comes back
\* (validate_active_fence, validate_tool_fence in every transaction that starts or finishes).
THEOREM OwnersSend == Spec => OnlyOwnersSend
<1>1. LedgerInv /\ [Next]_vars =>
        [\A c \in Calls :
           LatestTry(c) > 0 /\ ledger'[c].tries # ledger[c].tries =>
             LET was == LastTry(c)
                 now == ledger'[c].tries[LatestTry(c)]
             IN  /\ was.status = "prepared" /\ now.status = "started" => Holds(was.by)
                 /\ was.status = "started" /\ now.status \in {"succeeded", "failed"} => Holds(was.by)]_vars
  BY StepRows DEF RowsProper, Proper, Owned
<1> QED BY <1>1, LedgerHolds, PTL DEF Spec, OnlyOwnersSend

\* What was tried stays on record through every crash, retry, resolution and cancellation: a
\* try is never forgotten or given to another attempt, what went out is never recorded as not
\* sent, and what a person said of it stands.
THEOREM RecordStands == Spec => RecordIsKept
<1>1. LedgerInv /\ [Next]_vars =>
        [\A c \in Calls : \A t \in DOMAIN ledger[c].tries :
           LET was == ledger[c].tries[t]
               now == ledger'[c].tries[t]
           IN  /\ t \in DOMAIN ledger'[c].tries /\ now.by = was.by
               /\ Sent(was) => Sent(now)
               /\ was.resolved # "none" => now.resolved = was.resolved]_vars
  BY StepRows DEF RowsProper, Proper, Lawful, Keeps
<1> QED BY <1>1, LedgerHolds, PTL DEF Spec, RecordIsKept
===============================================================================
