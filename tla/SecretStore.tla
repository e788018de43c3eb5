---------------------------- MODULE SecretStore ----------------------------
(***************************************************************************)
(* The secret store's unlock session and the nodes that wait for it.  The   *)
(* data key lives in the memory of the process only, from an initialize or  *)
(* an unlock until a lock, the idle timeout or the end of the process.  A   *)
(* node that needs a credential while the store is locked opens a durable   *)
(* wait; the next unlock resolves every open one.  One mutex is held        *)
(* through each command and through each runtime resolution, but each       *)
(* database transaction and each change of the registry is a step of its    *)
(* own, and the process may end between two of them.                        *)
(*                                                                         *)
(* Sessions and process generations are numbered; 0 is none.                *)
(***************************************************************************)
EXTENDS Naturals, FiniteSets

CONSTANTS
  Nodes,         \* LLM node instances whose model calls need a credential
  Keys,          \* idempotency keys of initialize and unlock commands
  Passwords,
  NoPassword,
  IdleTimeout, UnlockWindow, UnlockBackoff, MaxFailures,
  MaxAttempts,   \* limits.max_attempts_per_activation
  MaxClock, MaxProcesses, MaxSessions    \* bounds

VARIABLES
  clock,
  process,       \* generation of the process
  password,      \* the one the stored header unwraps with, NoPassword: no header
  unlockReceipts, \* command and key -> secret_command_receipts row
  session,       \* ActiveSession: [id, expires], id 0: none
  installed,     \* number of sessions issued so far
  limiter,       \* unlock_failures, unlock_window_started_at, unlock_blocked_until
  mutex,         \* secret_sessions: "free", or what its holder still has to do
  nodes,         \* node -> [status, attempts, delivery]
  missed         \* an unlock ended without resolving the waits it found

vars == <<clock, process, password, unlockReceipts, session, installed, limiter, mutex, nodes, missed>>

Free == [op |-> "free", arg |-> 0]
NoSession == [id |-> 0, expires |-> 0]
Submissions == {"initialize", "unlock"} \X Keys   \* the scope of a receipt is its command's
NoReceipt == [session |-> 0, process |-> 0, password |-> NoPassword, expires |-> 0, status |-> "none"]
NewRegistry == [failures |-> 0, window |-> 0, blocked |-> 0]

Init ==
  /\ clock = 1 /\ process = 1 /\ password = NoPassword
  /\ unlockReceipts = [r \in Submissions |-> NoReceipt]
  /\ session = NoSession /\ installed = 0 /\ limiter = NewRegistry /\ mutex = Free
  /\ nodes = [n \in Nodes |-> [status |-> "running", attempts |-> 1, delivery |-> 0]]
  /\ missed = FALSE
-----------------------------------------------------------------------------
Live == session.id # 0 /\ clock < session.expires
Current == IF Live THEN session.id ELSE 0
Expiry == clock + IdleTimeout
(* Any use of the session through active() puts its idle timeout off.       *)
Used == [session EXCEPT !.expires = Expiry]
Issued == [id |-> installed + 1, expires |-> Expiry]
Receipt(p) == [session |-> installed + 1, process |-> process, password |-> p,
               expires |-> Expiry, status |-> "completed"]

(* Receipt committed, session installed; the mutex is kept for the waits.   *)
Issue(r, p) ==
  /\ installed < MaxSessions
  /\ unlockReceipts' = [unlockReceipts EXCEPT ![r] = Receipt(p)]
  /\ session' = Issued
  /\ installed' = installed + 1
  /\ mutex' = [op |-> "deliver", arg |-> installed + 1]

Initialize(k, p) ==
  /\ mutex = Free /\ password = NoPassword
  /\ Issue(<<"initialize", k>>, p)
  /\ password' = p
  /\ UNCHANGED <<clock, process, limiter, nodes, missed>>

WindowOver == clock >= limiter.window + UnlockWindow
RateChecked ==
  IF WindowOver THEN [failures |-> 0, window |-> clock, blocked |-> 0] ELSE limiter
Failure(l) ==
  [l EXCEPT !.failures = @ + 1,
            !.blocked = IF l.failures + 1 >= MaxFailures THEN clock + UnlockBackoff ELSE @]
Success(l) == [l EXCEPT !.failures = 0, !.blocked = 0]
Guessable == limiter.blocked <= clock

Unlock(k, p) ==
  /\ mutex = Free /\ password # NoPassword
  /\ unlockReceipts[<<"unlock", k>>] = NoReceipt
  /\ Guessable
  /\ IF p = password
     THEN Issue(<<"unlock", k>>, p) /\ limiter' = Success(RateChecked)
     ELSE limiter' = Failure(RateChecked) /\ UNCHANGED <<unlockReceipts, session, installed, mutex>>
  /\ UNCHANGED <<clock, process, password, nodes, missed>>

(* The receipt of a repeated initialize or unlock is answered only while    *)
(* the session it issued is the one in memory.                              *)
ReplaysAny(r) == unlockReceipts[r] # NoReceipt
Replays(r) ==
  /\ unlockReceipts[r] # NoReceipt
  /\ unlockReceipts[r].process = process /\ clock < unlockReceipts[r].expires
  /\ Live /\ session.id = unlockReceipts[r].session

Replay(r, p) ==
  /\ mutex = Free
  /\ Replays(r)
  /\ session' = Used
  /\ mutex' = IF p = unlockReceipts[r].password
              THEN [op |-> "deliver", arg |-> unlockReceipts[r].session] ELSE Free
  /\ UNCHANGED <<clock, process, password, unlockReceipts, installed, limiter, nodes, missed>>

(* resolve_secret_unlock_waits: every open wait in one transaction; each    *)
(* owner gets a resume attempt.                                             *)
Waiting == {n \in Nodes : nodes[n].status = "waiting"}
Resumed(node, id) ==
  [status |-> "ready", attempts |-> node.attempts + 1, delivery |-> id]
Deliver ==
  /\ mutex.op = "deliver"
  /\ nodes' = [n \in Nodes |-> IF n \in Waiting THEN Resumed(nodes[n], mutex.arg) ELSE nodes[n]]
  /\ mutex' = Free
  /\ missed' = FALSE
  /\ UNCHANGED <<clock, process, password, unlockReceipts, session, installed, limiter>>

(* The transaction meets a storage error, or the caller goes away.          *)
DeliverFails ==
  /\ mutex.op = "deliver"
  /\ mutex' = Free
  /\ missed' = TRUE
  /\ UNCHANGED <<clock, process, password, unlockReceipts, session, installed, limiter, nodes>>
-----------------------------------------------------------------------------
(* Lock: 'expected' 0 locks whatever session there is.  Its receipts are    *)
(* expired in the transaction, the key is dropped after it.                 *)
Lock(expected) ==
  /\ mutex = Free /\ password # NoPassword
  /\ expected = 0 \/ expected = Current
  /\ unlockReceipts' = [r \in Submissions |->
       IF Live /\ unlockReceipts[r].session = session.id
       THEN [unlockReceipts[r] EXCEPT !.status = "expired"] ELSE unlockReceipts[r]]
  /\ session' = NoSession
  /\ UNCHANGED <<clock, process, password, installed, limiter, mutex, nodes, missed>>

(* A write of a secret uses the session, and no more of what is kept here.  *)
PutSecret(s) ==
  /\ mutex = Free /\ Live /\ s = session.id
  /\ session' = Used
  /\ UNCHANGED <<clock, process, password, unlockReceipts, installed, limiter, mutex, nodes, missed>>

ChangePassword(s, old, new) ==
  /\ mutex = Free /\ Live /\ s = session.id
  /\ session' = Used
  /\ IF Guessable
     THEN IF old = password
          THEN limiter' = Success(RateChecked) /\ password' = new
          ELSE limiter' = Failure(RateChecked) /\ UNCHANGED password
     ELSE UNCHANGED <<limiter, password>>
  /\ UNCHANGED <<clock, process, unlockReceipts, installed, mutex, nodes, missed>>
-----------------------------------------------------------------------------
(* resolve_runtime_secret_value.  With a session the credential is handed   *)
(* to the owner of the attempt; without one the mutex is kept until the     *)
(* wait is open.                                                            *)
ResolveRuntime(n) ==
  /\ mutex = Free /\ nodes[n].status = "running" /\ Live
  /\ session' = Used
  /\ nodes' = [nodes EXCEPT ![n].status = "sending"]
  /\ UNCHANGED <<clock, process, password, unlockReceipts, installed, limiter, mutex, missed>>

MutexReleased(n) == Free
MutexKept(n) == [op |-> "open", arg |-> n]
FindLocked(n) ==
  /\ mutex = Free /\ nodes[n].status = "running" /\ ~Live
  /\ nodes' = [nodes EXCEPT ![n].status = "asking"]
  /\ session' = NoSession
  /\ mutex' = MutexKept(n)
  /\ UNCHANGED <<clock, process, password, unlockReceipts, installed, limiter, missed>>

(* open_secret_unlock_wait: refused when no attempt is left to resume with, *)
(* or when the owner has lost its attempt meanwhile.                        *)
OpenWait(n) ==
  /\ mutex = MutexKept(n)
  /\ nodes' = [nodes EXCEPT ![n].status =
       IF nodes[n].status # "asking" THEN @
       ELSE IF nodes[n].attempts < MaxAttempts THEN "waiting" ELSE "failed"]
  /\ mutex' = Free
  /\ UNCHANGED <<clock, process, password, unlockReceipts, session, installed, limiter, missed>>
-----------------------------------------------------------------------------
(* The scheduler, as far as the waits need it: a resumed attempt is started, *)
(* a run is cancelled in any state, and an attempt whose process ended is   *)
(* recovered as long as there are attempts left.                            *)
StartAttempt(n) ==
  /\ nodes[n].status = "ready"
  /\ nodes' = [nodes EXCEPT ![n].status = "running"]
  /\ UNCHANGED <<clock, process, password, unlockReceipts, session, installed, limiter, mutex, missed>>

CancelRun(n) ==
  /\ nodes[n].status \notin {"failed", "ended"}
  /\ nodes' = [nodes EXCEPT ![n].status = "ended"]
  /\ UNCHANGED <<clock, process, password, unlockReceipts, session, installed, limiter, mutex, missed>>

Recovered(node) ==
  IF node.status \notin {"running", "asking", "sending"} THEN node
  ELSE IF node.attempts < MaxAttempts
  THEN [node EXCEPT !.status = "ready", !.attempts = @ + 1] ELSE [node EXCEPT !.status = "failed"]
Restart ==
  /\ process < MaxProcesses
  /\ process' = process + 1
  /\ session' = NoSession /\ limiter' = NewRegistry /\ mutex' = Free
  /\ nodes' = [n \in Nodes |-> Recovered(nodes[n])]
  /\ UNCHANGED <<clock, password, unlockReceipts, installed, missed>>

Tick ==
  /\ clock < MaxClock
  /\ clock' = clock + 1
  /\ UNCHANGED <<process, password, unlockReceipts, session, installed, limiter, mutex, nodes, missed>>
-----------------------------------------------------------------------------
Commands ==
  \/ \E k \in Keys, p \in Passwords : Initialize(k, p) \/ Unlock(k, p)
  \/ \E r \in Submissions, p \in Passwords : Replay(r, p)
  \/ \E s \in 0..installed : Lock(s) \/ PutSecret(s)
  \/ \E s \in 1..installed, old, new \in Passwords : ChangePassword(s, old, new)
  \/ Deliver \/ DeliverFails
Runtime ==
  \E n \in Nodes :
    ResolveRuntime(n) \/ FindLocked(n) \/ OpenWait(n) \/ StartAttempt(n) \/ CancelRun(n)
Next == Commands \/ Runtime \/ Restart \/ Tick

Spec == Init /\ [][Next]_vars
-----------------------------------------------------------------------------
(* A wait is never left behind by the unlock it waits for: while the store  *)
(* is unlocked and nobody holds the mutex, no node waits for an unlock,     *)
(* unless the last unlock ended before it had resolved the waits            *)
(* (runtime_wait.rs:35, unlock.rs:115).                                     *)
NoForgottenWait == mutex = Free /\ Live /\ ~missed => Waiting = {}

(* No command brings a session back: a session comes into memory only under *)
(* a number never used before, and a wait is only ever resolved in the name *)
(* of the session in memory (unlock.rs:22-52, initialize.rs:20-54).         *)
SessionDelivers ==
  /\ session'.id \notin {0, session.id} => session'.id > installed
  /\ \A n \in Nodes :
       nodes'[n].delivery # nodes[n].delivery => nodes'[n].delivery = session.id
OnlyLiveSessionsDeliver == [][SessionDelivers]_vars
=============================================================================
