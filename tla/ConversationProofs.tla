-------------------------- MODULE ConversationProofs --------------------------
(***************************************************************************)
(* What a conversation owes its readers, proved for any number of turns,   *)
(* candidates, branches and other writers.  Commits only grow, and what a  *)
(* commit has behind it never changes, so that a step is known by what it  *)
(* appends and by the heads it moves.  The invariant adds to what a read   *)
(* insists on where the next reply may land: the branch of a candidate     *)
(* that is not ready holds no message after its user's, and is not shown.  *)
(***************************************************************************)
EXTENDS MCPromises, SequenceTheorems, WellFoundedInduction, TLAPS

-----------------------------------------------------------------------------
(* The invariant.                                                           *)
CommitRow == [parent : Nat, branch : Nat, kind : C!Kinds, of : Nat]
CandidateRow ==
  [turn : Nat, branch : Nat, base : Nat, status : C!Statuses, commit : Nat, error : BOOLEAN]
RunRow ==
  [status : {"running"} \cup C!Terminal, output : Nat, reply : {"none", "valid", "invalid"}]
TurnRow == [user : Nat, request : Nat]

\* Commit 1 is the root, every other one was made after its parent.
CommitsGrow ==
  /\ commits \in Seq(CommitRow)
  /\ \A c \in DOMAIN commits :
       IF c = 1 THEN commits[c].parent = 0 /\ commits[c].kind = "root"
       ELSE commits[c].parent \in 1..(c - 1)
StoryTyped ==
  /\ branches \in Seq(Nat) /\ active \in [branch : Nat, head : Nat]
  /\ turns \in Seq(TurnRow) /\ selection \in Seq(Nat)
  /\ candidates \in Seq(CandidateRow) /\ runs \in Seq(RunRow) /\ jobs \in Seq(C!JobStatuses)
  /\ Len(selection) = Len(turns) /\ Len(runs) = Len(candidates) /\ Len(jobs) = Len(candidates)
\* What is named exists.
NamesFit ==
  /\ \A c \in DOMAIN commits : commits[c].branch \in DOMAIN branches
  /\ \A b \in DOMAIN branches : branches[b] \in DOMAIN commits
  /\ active.branch \in DOMAIN branches /\ active.head \in DOMAIN commits
  /\ \A t \in DOMAIN turns : turns[t].user \in DOMAIN commits
  /\ \A r \in DOMAIN candidates :
       candidates[r].turn \in DOMAIN turns /\ candidates[r].branch \in DOMAIN branches
  /\ \A r, s \in DOMAIN candidates : candidates[r].branch = candidates[s].branch => r = s

\* No message but this one at c itself is later than the base.
Follows(c, base) == base \in C!Messages(c) /\ \A d \in C!Messages(c) : d <= base \/ d = c
\* Nor is any other one.
EndsWith(c, base) == base \in C!Messages(c) /\ \A d \in C!Messages(c) : d <= base
TurnFits(t) ==
  /\ commits[turns[t].user].kind = "user"
  /\ selection[t] # 0 =>
       /\ selection[t] \in DOMAIN candidates
       /\ candidates[selection[t]].turn = t /\ candidates[selection[t]].status = "ready"
CommitFits(c) ==
  /\ commits[c].kind = "user" => commits[c].of \in DOMAIN turns /\ turns[commits[c].of].user = c
  /\ commits[c].kind = "assistant" =>
       /\ commits[c].of \in DOMAIN candidates
       /\ candidates[commits[c].of].commit = c
       /\ Follows(c, candidates[commits[c].of].base)
ReadyFits(r) ==
  /\ candidates[r].commit \in DOMAIN commits
  /\ commits[candidates[r].commit].kind = "assistant" /\ commits[candidates[r].commit].of = r
  /\ commits[candidates[r].commit].branch = candidates[r].branch
  /\ C!Reaches(candidates[r].commit, runs[r].output)
  /\ C!Reaches(branches[candidates[r].branch], candidates[r].commit)
OpenFits(r) ==
  /\ active.branch # candidates[r].branch
  /\ EndsWith(branches[candidates[r].branch], candidates[r].base)
CandidateFits(r) ==
  /\ C!CandidateReads(r)
  /\ IF candidates[r].status = "ready" THEN ReadyFits(r) ELSE OpenFits(r)
StoryInv ==
  /\ CommitsGrow /\ StoryTyped /\ NamesFit
  /\ C!HeadReads /\ C!RequestsRunOnce
  /\ \A t \in DOMAIN turns : TurnFits(t)
  /\ \A c \in DOMAIN commits : CommitFits(c)
  /\ \A r \in DOMAIN candidates : CandidateFits(r)

-----------------------------------------------------------------------------
(* What a commit has behind it.                                             *)
\* A set of numbers that is not empty has a least one.
LEMMA SmallestOf ==
  ASSUME NEW T \in SUBSET Nat, T # {}
  PROVE  \E k \in T : \A j \in T : k <= j
<1> DEFINE Below == {p \in Nat \X Nat : p[1] < p[2]}
<1>1. PICK k \in T : \A j \in T : ~(<<j, k>> \in Below)
  <2>1. IsWellFoundedOn(Below, Nat)
    BY NatLessThanWellFounded, Zenon DEF OpToRel
  <2> HIDE DEF Below
  <2> QED BY <2>1, WFMin
<1>2. ASSUME NEW j \in T PROVE k <= j
  <2>1. j \in Nat /\ k \in Nat
    OBVIOUS
  <2>2. ~(j < k)
    BY <1>1, <2>1
  <2> HIDE DEF Below
  <2> QED BY <2>1, <2>2
<1> QED BY <1>2

\* Commits are numbered from 1, a parent before its child.
LEMMA CommitsAreNumbers ==
  ASSUME CommitsGrow
  PROVE  /\ Len(commits) \in Nat /\ DOMAIN commits = 1..Len(commits)
         /\ \A c \in DOMAIN commits :
              /\ c \in Nat /\ c > 0 /\ commits[c] \in CommitRow
              /\ c # 1 => /\ commits[c].parent \in DOMAIN commits
                          /\ commits[c].parent < c /\ commits[c].parent \in Nat
BY DEF CommitsGrow

Behind(g, c) == {c} \cup (IF c = 1 THEN {} ELSE g[commits[c].parent])
AncestryHolds == C!Ancestry = [c \in DOMAIN commits |-> Behind(C!Ancestry, c)]

\* The commits behind each commit, one parent after the other.
LEMMA AncestryRuns == CommitsGrow => AncestryHolds
<1> SUFFICES ASSUME CommitsGrow PROVE AncestryHolds
  OBVIOUS
<1> DEFINE n == Len(commits)
           Runs(g, k) == g = [c \in 1..k |-> Behind(g, c)]
           Bad == {k \in Nat : k <= n /\ ~\E g : Runs(g, k)}
<1>0. n \in Nat /\ DOMAIN commits = 1..n
  BY CommitsAreNumbers
<1>1. ASSUME Bad # {} PROVE FALSE
  <2>0. Bad \in SUBSET Nat
    OBVIOUS
  <2>1. PICK k \in Bad : \A j \in Bad : k <= j
    BY <1>1, <2>0, SmallestOf
  <2> HIDE DEF n
  <2>2. CASE k = 0
    <3> DEFINE g == [c \in 1..0 |-> 0]
    <3>1. \A c \in 1..0 : Behind(g, c) = 0
      OBVIOUS
    <3>2. Runs(g, 0)
      BY <3>1
    <3> QED BY <2>1, <2>2, <3>2
  <2>3. CASE k # 0
    <3>1. k - 1 \in Nat /\ k - 1 <= n /\ k - 1 \notin Bad /\ k \in Nat /\ k <= n
      BY <1>0, <2>1, <2>3
    <3>2. PICK g : Runs(g, k - 1)
      BY <3>1
    <3> DEFINE h == [c \in 1..k |-> IF c = k THEN Behind(g, k) ELSE g[c]]
    <3>3. \A c \in 1..(k - 1) : h[c] = g[c] /\ g[c] = Behind(g, c)
      <4>1. \A c \in 1..(k - 1) : c \in 1..k /\ c # k
        BY <3>1
      <4>2. \A c \in 1..(k - 1) : h[c] = g[c]
        BY <4>1
      <4> HIDE DEF h
      <4>3. \A c \in 1..(k - 1) : g[c] = Behind(g, c)
        BY <3>2, Zenon
      <4> QED BY <4>2, <4>3
    <3>4. ASSUME NEW c \in 1..k PROVE Behind(h, c) = Behind(g, c)
      <4>1. c \in DOMAIN commits
        BY <1>0, <3>1
      <4>2. c # 1 => commits[c].parent \in 1..(k - 1)
        BY <1>0, <3>1, <4>1, CommitsAreNumbers
      <4>3. c # 1 => h[commits[c].parent] = g[commits[c].parent]
        BY <3>3, <4>2
      <4> HIDE DEF h
      <4> QED BY <4>3 DEF Behind
    <3>5. \A c \in 1..k : h[c] = Behind(h, c)
      <4>1. \A c \in 1..k : c = k \/ c \in 1..(k - 1)
        BY <3>1
      <4>2. h[k] = Behind(g, k)
        BY <2>3, <3>1
      <4> HIDE DEF h
      <4> QED BY <3>3, <3>4, <4>1, <4>2
    <3>6. h = [c \in 1..k |-> h[c]]
      OBVIOUS
    <3> HIDE DEF h
    <3>7. Runs(h, k)
      BY <3>5, <3>6
    <3> QED BY <2>1, <3>7
  <2> QED BY <2>2, <2>3
<1>2. \E g : Runs(g, n)
  <2>1. n \notin Bad /\ n <= n
    BY <1>0, <1>1
  <2> QED BY <1>0, <2>1
<1>3. C!Ancestry = CHOOSE f : f = [c \in DOMAIN commits |-> Behind(f, c)]
  BY DEF C!Ancestry, Behind
<1>4. \E g : g = [c \in DOMAIN commits |-> Behind(g, c)]
  BY <1>0, <1>2
<1> HIDE DEF n, Runs
<1> QED BY <1>3, <1>4 DEF AncestryHolds

\* A commit, its parent, and what the parent has behind it.
LEMMA AncestryGoesOn ==
  ASSUME CommitsGrow, NEW c \in DOMAIN commits
  PROVE  /\ c \in C!Ancestry[c]
         /\ c = 1 => C!Ancestry[c] = {c}
         /\ c # 1 => C!Ancestry[c] = {c} \cup C!Ancestry[commits[c].parent]
<1>1. C!Ancestry[c] = Behind(C!Ancestry, c)
  BY AncestryRuns, Zenon DEF AncestryHolds
<1> QED BY <1>1 DEF Behind

\* They were made before it.
LEMMA AncestryIsBefore ==
  ASSUME CommitsGrow, NEW c \in DOMAIN commits
  PROVE  \A d \in C!Ancestry[c] : d \in DOMAIN commits /\ d \in Nat /\ d <= c
<1> DEFINE Bad == {d \in DOMAIN commits : ~(C!Ancestry[d] \subseteq 1..d)}
<1>1. ASSUME Bad # {} PROVE FALSE
  <2>0. Bad \in SUBSET Nat
    BY CommitsAreNumbers
  <2>1. PICK d \in Bad : \A e \in Bad : d <= e
    BY <1>1, <2>0, SmallestOf
  <2>2. d \in Nat /\ d >= 1 /\ d \in DOMAIN commits
    BY <2>1, CommitsAreNumbers
  <2>3. CASE d = 1
    <3>1. C!Ancestry[d] = {d}
      BY <2>2, <2>3, AncestryGoesOn
    <3> QED BY <2>1, <2>2, <3>1
  <2>4. CASE d # 1
    <3>1. PICK p : p = commits[d].parent
      OBVIOUS
    <3>2. p \in DOMAIN commits /\ p < d /\ p \in Nat
      BY <2>2, <2>4, <3>1, CommitsAreNumbers
    <3>3. p \notin Bad
      BY <2>1, <2>2, <3>2
    <3>4. C!Ancestry[p] \subseteq 1..p /\ 1..p \subseteq 1..d
      BY <2>2, <3>2, <3>3
    <3>5. C!Ancestry[d] = {d} \cup C!Ancestry[p]
      BY <2>2, <2>4, <3>1, AncestryGoesOn
    <3> QED BY <2>1, <2>2, <3>4, <3>5
  <2> QED BY <2>3, <2>4
<1>2. C!Ancestry[c] \subseteq 1..c
  BY <1>1
<1>3. DOMAIN commits = 1..Len(commits) /\ Len(commits) \in Nat /\ c \in Nat /\ c <= Len(commits)
  BY CommitsAreNumbers
<1> QED BY <1>2, <1>3

\* Commits that stay keep what is behind them.
LEMMA AncestryStands ==
  ASSUME CommitsGrow, CommitsGrow',
         \A c \in DOMAIN commits : c \in DOMAIN commits' /\ commits'[c] = commits[c]
  PROVE  \A c \in DOMAIN commits : C!Ancestry'[c] = C!Ancestry[c]
<1>1. AncestryHolds /\ AncestryHolds'
  <2>1. CommitsGrow' => AncestryHolds'
    BY AncestryRuns, PTL
  <2> QED BY <2>1, AncestryRuns
<1>2. /\ \A c \in DOMAIN commits : C!Ancestry[c] = Behind(C!Ancestry, c)
      /\ \A c \in DOMAIN commits' : C!Ancestry'[c] = Behind(C!Ancestry, c)'
  <2>1. \A c \in DOMAIN commits : C!Ancestry[c] = Behind(C!Ancestry, c)
    BY <1>1, Zenon DEF AncestryHolds
  <2>2. \A c \in DOMAIN commits' : C!Ancestry'[c] = Behind(C!Ancestry, c)'
    BY <1>1, Zenon DEF AncestryHolds
  <2> QED BY <2>1, <2>2
<1> DEFINE Bad == {c \in DOMAIN commits : C!Ancestry'[c] # C!Ancestry[c]}
<1>3. ASSUME Bad # {} PROVE FALSE
  <2>0. Bad \in SUBSET Nat
    BY CommitsAreNumbers
  <2>1. PICK c \in Bad : \A d \in Bad : c <= d
    BY <1>3, <2>0, SmallestOf
  <2>2. c \in DOMAIN commits /\ c \in Nat /\ c \in DOMAIN commits' /\ commits'[c] = commits[c]
    BY <2>1, CommitsAreNumbers
  <2>3. CASE c = 1
    BY <1>2, <2>1, <2>2, <2>3 DEF Behind
  <2>4. CASE c # 1
    <3>1. PICK p : p = commits[c].parent
      OBVIOUS
    <3>2. p \in DOMAIN commits /\ p < c /\ p \in Nat
      BY <2>2, <2>4, <3>1, CommitsAreNumbers
    <3>3. C!Ancestry'[p] = C!Ancestry[p]
      <4>1. p \notin Bad
        BY <2>1, <2>2, <3>2
      <4> QED BY <3>2, <4>1
    <3>4. C!Ancestry'[c] = {c} \cup C!Ancestry'[p] /\ C!Ancestry[c] = {c} \cup C!Ancestry[p]
      BY <1>2, <2>2, <2>4, <3>1 DEF Behind
    <3> QED BY <2>1, <3>3, <3>4
  <2> QED BY <2>3, <2>4
<1> QED BY <1>3
-----------------------------------------------------------------------------
(* What a step leaves as it was, and what it adds.                          *)
\* No commit changes, nor what it has behind it.
Kept ==
  /\ CommitsGrow'
  /\ \A c \in DOMAIN commits :
       /\ c \in DOMAIN commits' /\ commits'[c] = commits[c]
       /\ C!Ancestry'[c] = C!Ancestry[c] /\ C!Messages(c)' = C!Messages(c)
\* One commit is new, on the head of its branch.
Landed(n, b, kind, of) ==
  /\ Kept /\ n \in Nat /\ n > 1 /\ DOMAIN commits' = DOMAIN commits \cup {n}
  /\ \A c \in DOMAIN commits : c < n
  /\ commits'[n].kind = kind /\ commits'[n].of = of /\ commits'[n].branch = b
  /\ C!Ancestry'[n] = {n} \cup C!Ancestry[branches[b]]
  /\ C!Messages(n)' = C!Messages(branches[b]) \cup (IF kind \in {"user", "assistant"} THEN {n} ELSE {})

\* Without a commit all stays.
LEMMA KeepsAll ==
  ASSUME CommitsGrow, commits' = commits
  PROVE  Kept /\ C!Ancestry' = C!Ancestry
<1>1. C!Ancestry' = C!Ancestry
  BY DEF C!Ancestry
<1>2. CommitsGrow'
  BY DEF CommitsGrow
<1> QED BY <1>1, <1>2 DEF Kept, C!Messages

\* What is appended to a sequence.
LEMMA Appended ==
  ASSUME NEW S, NEW s \in Seq(S), NEW x \in S
  PROVE  /\ Append(s, x) \in Seq(S) /\ Len(Append(s, x)) = Len(s) + 1 /\ Len(s) \in Nat
         /\ DOMAIN s = 1..Len(s) /\ DOMAIN Append(s, x) = 1..(Len(s) + 1)
         /\ Append(s, x)[Len(s) + 1] = x
         /\ \A i \in DOMAIN s : i \in DOMAIN Append(s, x) /\ Append(s, x)[i] = s[i] /\ s[i] \in S
<1>1. Len(s) \in Nat /\ DOMAIN s = 1..Len(s) /\ \A i \in DOMAIN s : s[i] \in S
  OBVIOUS
<1>2. /\ Append(s, x) \in Seq(S) /\ Len(Append(s, x)) = Len(s) + 1
      /\ \A i \in 1..Len(s) : Append(s, x)[i] = s[i]
      /\ Append(s, x)[Len(s) + 1] = x
  BY AppendProperties
<1>3. DOMAIN Append(s, x) = 1..(Len(s) + 1)
  BY <1>2
<1>4. \A i \in 1..Len(s) : i \in 1..(Len(s) + 1)
  BY <1>1
<1> QED BY <1>1, <1>2, <1>3, <1>4
\* A row of a sequence, put in place of another.
LEMMA Put ==
  ASSUME NEW S, NEW s \in Seq(S), NEW i \in DOMAIN s, NEW x \in S
  PROVE  /\ [s EXCEPT ![i] = x] \in Seq(S) /\ Len([s EXCEPT ![i] = x]) = Len(s)
         /\ DOMAIN [s EXCEPT ![i] = x] = DOMAIN s
         /\ \A j \in DOMAIN s : [s EXCEPT ![i] = x][j] = (IF j = i THEN x ELSE s[j]) /\ s[j] \in S
<1>1. DOMAIN s = 1..Len(s) /\ \A j \in DOMAIN s : s[j] \in S
  OBVIOUS
<1>2. [s EXCEPT ![i] = x] \in Seq(S) /\ Len([s EXCEPT ![i] = x]) = Len(s)
  BY <1>1, ExceptSeq
<1> QED BY <1>1, <1>2

\* A commit is appended to what its branch holds.
LEMMA CommitLands ==
  ASSUME CommitsGrow, NEW b \in DOMAIN branches, b \in Nat, branches[b] \in DOMAIN commits,
         NEW kind \in C!Kinds, NEW of \in Nat, C!Committed(b, kind, of), NEW n, n = C!NewCommit
  PROVE  Landed(n, b, kind, of)
<1> DEFINE row == [parent |-> branches[b], branch |-> b, kind |-> kind, of |-> of]
<1>0. /\ commits \in Seq(CommitRow) /\ Len(commits) \in Nat /\ DOMAIN commits = 1..Len(commits)
      /\ branches[b] \in Nat /\ branches[b] > 0
  BY CommitsAreNumbers DEF CommitsGrow
<1>1. row \in CommitRow /\ commits' = Append(commits, row) /\ n = Len(commits) + 1
  BY <1>0 DEF CommitRow, C!Committed, C!NewCommit
<1>2. /\ row.parent = branches[b] /\ row.kind = kind /\ row.of = of /\ row.branch = b
  OBVIOUS
<1> HIDE DEF row
<1>3. /\ commits' \in Seq(CommitRow) /\ DOMAIN commits' = 1..n /\ commits'[n] = row
      /\ \A c \in DOMAIN commits : c \in DOMAIN commits' /\ commits'[c] = commits[c]
  BY <1>0, <1>1, Appended
<1>4. /\ n \in Nat /\ n > 1 /\ DOMAIN commits' = DOMAIN commits \cup {n} /\ n \in DOMAIN commits'
      /\ \A c \in DOMAIN commits : c < n
      /\ branches[b] \in 1..(n - 1)
  BY <1>0, <1>1, <1>3
<1>5. CommitsGrow'
  <2>1. \A c \in DOMAIN commits' : c \in DOMAIN commits \/ c = n
    BY <1>4
  <2>2. \A c \in DOMAIN commits : IF c = 1 THEN commits'[c].parent = 0 /\ commits'[c].kind = "root"
                                  ELSE commits'[c].parent \in 1..(c - 1)
    BY <1>3 DEF CommitsGrow
  <2> QED BY <1>2, <1>3, <1>4, <2>1, <2>2 DEF CommitsGrow
<1>6. \A c \in DOMAIN commits : C!Ancestry'[c] = C!Ancestry[c]
  BY <1>3, <1>5, AncestryStands
<1>7. \A c \in DOMAIN commits : \A d \in C!Ancestry[c] : d \in DOMAIN commits
  BY AncestryIsBefore
<1>8. \A c \in DOMAIN commits : C!Messages(c)' = C!Messages(c)
  BY <1>3, <1>6, <1>7 DEF C!Messages
<1>9. C!Ancestry'[n] = {n} \cup C!Ancestry[branches[b]]
  <2>1. AncestryHolds'
    <3>1. CommitsGrow' => AncestryHolds'
      BY AncestryRuns, PTL
    <3> QED BY <1>5, <3>1
  <2>2. \A c \in DOMAIN commits' : C!Ancestry'[c] = Behind(C!Ancestry, c)'
    BY <2>1, Zenon DEF AncestryHolds
  <2>3. C!Ancestry'[n] = {n} \cup C!Ancestry'[branches[b]]
    BY <1>2, <1>3, <1>4, <2>2 DEF Behind
  <2> QED BY <1>6, <2>3
<1>10. C!Messages(n)' = C!Messages(branches[b]) \cup (IF kind \in {"user", "assistant"} THEN {n} ELSE {})
  <2>1. \A d \in C!Ancestry[branches[b]] : commits'[d] = commits[d] /\ d # n
    BY <1>3, <1>4, <1>7
  <2> QED BY <1>2, <1>3, <1>9, <2>1 DEF C!Messages
<1> QED BY <1>2, <1>3, <1>4, <1>5, <1>6, <1>8, <1>9, <1>10 DEF Landed, Kept

\* A commit has itself behind it, also after a step.
SelfReached == \A c \in DOMAIN commits : c \in C!Ancestry[c]
\* The statement, for both states of a step.
LEMMA ReachesItself == CommitsGrow => SelfReached
BY AncestryGoesOn DEF SelfReached

-----------------------------------------------------------------------------
(* What stays true of a turn, a commit, a candidate and the head.           *)
TurnsKept == \A t \in DOMAIN turns : t \in DOMAIN turns' /\ turns'[t] = turns[t]
\* A candidate keeps its branch, and its reply once it has one.
CandidateKept(r) ==
  /\ r \in DOMAIN candidates' /\ candidates'[r].turn = candidates[r].turn
  /\ candidates'[r].branch = candidates[r].branch /\ candidates'[r].base = candidates[r].base
  /\ candidates[r].commit # 0 => candidates'[r].commit = candidates[r].commit
  /\ candidates[r].status = "ready" => candidates'[r].status = "ready"
CandidatesKept == \A r \in DOMAIN candidates : CandidateKept(r)
\* A branch goes on from its head, and without a message.
GoesOn(b) == b \in DOMAIN branches' /\ C!Ancestry[branches[b]] \subseteq C!Ancestry'[branches'[b]]
GoesOnSilently(b) == GoesOn(b) /\ C!Messages(branches[b])' = C!Messages(branches[b])

\* A turn keeps what it has.
LEMMA TurnKeeps ==
  ASSUME Kept, TurnsKept, CandidatesKept, NEW t \in DOMAIN turns, TurnFits(t), selection'[t] = selection[t],
         turns[t].user \in DOMAIN commits
  PROVE  TurnFits(t)'
<1>1. turns'[t] = turns[t] /\ commits'[turns[t].user] = commits[turns[t].user]
  BY DEF Kept, TurnsKept
<1> QED BY <1>1 DEF TurnFits, CandidatesKept, CandidateKept

\* A commit keeps its place in the story.
LEMMA CommitKeeps ==
  ASSUME CommitsGrow, Kept, TurnsKept, CandidatesKept, NEW c \in DOMAIN commits, CommitFits(c)
  PROVE  CommitFits(c)'
<1>1. commits'[c] = commits[c] /\ C!Messages(c)' = C!Messages(c) /\ c # 0
  BY CommitsAreNumbers DEF Kept
<1>2. commits[c].kind = "user" => commits[c].of \in DOMAIN turns' /\ turns'[commits[c].of].user = c
  BY DEF TurnsKept, CommitFits
<1>3. ASSUME commits[c].kind = "assistant"
      PROVE  /\ commits[c].of \in DOMAIN candidates'
             /\ candidates'[commits[c].of].commit = c
             /\ Follows(c, candidates[commits[c].of].base)'
  <2>1. PICK r : r = commits[c].of
    OBVIOUS
  <2>2. PICK x : x = candidates[r].base
    OBVIOUS
  <2>3. r \in DOMAIN candidates /\ candidates[r].commit = c /\ Follows(c, x)
    BY <1>3, <2>1, <2>2 DEF CommitFits
  <2>4. r \in DOMAIN candidates' /\ candidates'[r].commit = c /\ candidates'[r].base = x
    BY <1>1, <2>2, <2>3 DEF CandidatesKept, CandidateKept
  <2>5. Follows(c, x)'
    BY <1>1, <2>3 DEF Follows
  <2>6. candidates'[commits'[c].of].base = x
    BY <1>1, <2>1, <2>4
  <2> QED BY <2>1, <2>4, <2>5, <2>6 DEF Follows
<1> QED BY <1>1, <1>2, <1>3 DEF CommitFits

\* A candidate nobody settles keeps what it has, and its branch what belongs there.
LEMMA CandidateKeeps ==
  ASSUME Kept, TurnsKept, NamesFit, NEW r \in DOMAIN candidates, CandidateFits(r),
         candidates'[r] = candidates[r], runs'[r] = runs[r], GoesOn(candidates[r].branch),
         candidates[r].status # "ready" => /\ GoesOnSilently(candidates[r].branch)
                                           /\ active'.branch # candidates[r].branch
  PROVE  CandidateFits(r)'
<1>1. turns'[candidates[r].turn] = turns[candidates[r].turn]
  BY DEF TurnsKept, NamesFit
<1>2. CASE candidates[r].status = "ready"
  <2>1. PICK c : c = candidates[r].commit
    OBVIOUS
  <2>2. c \in DOMAIN commits /\ c \in DOMAIN commits' /\ commits'[c] = commits[c] /\ C!Ancestry'[c] = C!Ancestry[c]
    BY <1>2, <2>1 DEF CandidateFits, ReadyFits, Kept
  <2>3. C!CandidateReads(r)'
    BY <1>1, <2>1, <2>2 DEF CandidateFits, C!CandidateReads
  <2>4. ReadyFits(r)'
    BY <1>2, <2>1, <2>2 DEF CandidateFits, ReadyFits, C!Reaches, GoesOn
  <2> QED BY <1>2, <2>3, <2>4 DEF CandidateFits
<1>3. CASE candidates[r].status # "ready"
  <2>1. C!CandidateReads(r)'
    BY <1>1, <1>3 DEF CandidateFits, C!CandidateReads
  <2>2. C!Messages(branches[candidates[r].branch])' = C!Messages(branches[candidates[r].branch])
    <3>1. PICK b : b = candidates[r].branch
      OBVIOUS
    <3>2. C!Messages(branches[b])' = C!Messages(branches[b])
      BY <1>3, <3>1 DEF GoesOnSilently
    <3> QED BY <3>1, <3>2 DEF C!Messages
  <2>3. OpenFits(r)'
    BY <1>3, <2>2 DEF CandidateFits, OpenFits, EndsWith
  <2> QED BY <1>3, <2>1, <2>3 DEF CandidateFits
<1> QED BY <1>2, <1>3

\* A branch nobody commits to goes on as it is.
LEMMA BranchRests ==
  ASSUME Kept, NEW b \in DOMAIN branches, branches[b] \in DOMAIN commits,
         b \in DOMAIN branches', branches'[b] = branches[b]
  PROVE  GoesOnSilently(b)
<1>1. PICK h : h = branches[b]
  OBVIOUS
<1>2. C!Ancestry'[h] = C!Ancestry[h] /\ C!Messages(h)' = C!Messages(h)
  BY <1>1 DEF Kept
<1> QED BY <1>1, <1>2 DEF GoesOnSilently, GoesOn, C!Messages

\* The branch of a commit goes on with it.
LEMMA BranchGoesOn ==
  ASSUME NEW n, NEW b \in DOMAIN branches, NEW kind, NEW of, Landed(n, b, kind, of),
         b \in DOMAIN branches', branches'[b] = n
  PROVE  /\ GoesOn(b)
         /\ kind \notin {"user", "assistant"} => GoesOnSilently(b)
         /\ C!Messages(branches[b])' = C!Messages(n)'
<1>1. C!Messages(branches[b])' = C!Messages(n)'
  BY DEF C!Messages
<1> QED BY <1>1 DEF Landed, GoesOn, GoesOnSilently

\* What is shown stays readable when its branch rests, or goes on with another writer's commit.
LEMMA HeadRests ==
  ASSUME CommitsGrow, Kept, NamesFit, C!HeadReads, active' = active,
         \/ branches'[active.branch] = branches[active.branch]
         \/ \E n, of : /\ Landed(n, active.branch, "context", of)
                       /\ branches'[active.branch] = n
  PROVE  C!HeadReads'
<1>1. PICK b : b = active.branch
  OBVIOUS
<1>2. PICK h : h = active.head
  OBVIOUS
<1>3. PICK x : x = branches[b]
  OBVIOUS
<1>4. /\ b \in DOMAIN branches /\ h \in DOMAIN commits /\ x \in DOMAIN commits
      /\ C!Ancestry'[h] = C!Ancestry[h] /\ C!Ancestry'[x] = C!Ancestry[x]
  BY <1>1, <1>2, <1>3 DEF NamesFit, Kept
<1>5. /\ h \in C!Ancestry[x]
      /\ \A c \in DOMAIN commits : c \in C!Ancestry[x] /\ c \notin C!Ancestry[h] => commits[c].kind = "context"
  BY <1>1, <1>2, <1>3 DEF C!HeadReads, C!Reaches
<1>6. \A c \in C!Ancestry[x] : c \in DOMAIN commits /\ commits'[c] = commits[c]
  BY <1>4, AncestryIsBefore DEF Kept
<1>7. CASE branches'[b] = x
  BY <1>1, <1>2, <1>4, <1>5, <1>6, <1>7 DEF C!HeadReads, C!Reaches
<1>8. ASSUME NEW n, NEW of, Landed(n, b, "context", of), branches'[b] = n
      PROVE  C!HeadReads'
  <2>1. C!Ancestry'[n] = {n} \cup C!Ancestry[x] /\ commits'[n].kind = "context"
    BY <1>3, <1>8 DEF Landed
  <2> QED BY <1>1, <1>2, <1>4, <1>5, <1>6, <1>8, <2>1 DEF C!HeadReads, C!Reaches
<1> QED BY <1>1, <1>3, <1>7, <1>8

\* What is shown is readable where it is the head of its branch.
LEMMA HeadLands ==
  ASSUME CommitsGrow', active'.head = branches'[active'.branch], active'.head \in DOMAIN commits'
  PROVE  C!HeadReads'
<1>1. SelfReached'
  <2>1. CommitsGrow' => SelfReached'
    BY ReachesItself, PTL
  <2> QED BY <2>1
<1> QED BY <1>1 DEF SelfReached, C!HeadReads, C!Reaches
-----------------------------------------------------------------------------
(* The commands, one after the other.                                       *)
\* The tables as numbers.
LEMMA Tables ==
  ASSUME StoryInv
  PROVE  /\ Len(turns) \in Nat /\ DOMAIN turns = 1..Len(turns) /\ DOMAIN selection = DOMAIN turns
         /\ Len(candidates) \in Nat /\ DOMAIN candidates = 1..Len(candidates)
         /\ DOMAIN runs = DOMAIN candidates /\ DOMAIN jobs = DOMAIN candidates
         /\ Len(branches) \in Nat /\ DOMAIN branches = 1..Len(branches)
         /\ Len(commits) \in Nat /\ DOMAIN commits = 1..Len(commits)
         /\ \A r \in DOMAIN candidates :
              candidates[r] \in CandidateRow /\ runs[r] \in RunRow /\ jobs[r] \in C!JobStatuses
         /\ \A t \in DOMAIN turns : turns[t] \in TurnRow /\ selection[t] \in Nat
         /\ \A b \in DOMAIN branches : b \in Nat /\ branches[b] \in Nat
         /\ active \in [branch : Nat, head : Nat]
<1>1. /\ turns \in Seq(TurnRow) /\ selection \in Seq(Nat) /\ Len(selection) = Len(turns)
      /\ candidates \in Seq(CandidateRow) /\ runs \in Seq(RunRow) /\ jobs \in Seq(C!JobStatuses)
      /\ Len(runs) = Len(candidates) /\ Len(jobs) = Len(candidates)
      /\ branches \in Seq(Nat) /\ active \in [branch : Nat, head : Nat]
  BY DEF StoryInv, StoryTyped
<1>2. Len(commits) \in Nat /\ DOMAIN commits = 1..Len(commits)
  BY CommitsAreNumbers DEF StoryInv
<1> QED BY <1>1, <1>2

\* A running run is that of a candidate nobody settled.
LEMMA RunningIsOpen ==
  ASSUME StoryInv, NEW r \in DOMAIN candidates
  PROVE  /\ runs[r].status = "running" => candidates[r].status = "running"
         /\ candidates[r].status # "ready" => OpenFits(r) /\ candidates[r].commit = 0
         /\ candidates[r].status = "ready" => ReadyFits(r)
         /\ candidates[r].status = "running" => ~candidates[r].error
<1>1. C!CandidateReads(r) /\ candidates[r] \in CandidateRow
  BY Tables DEF StoryInv, CandidateFits
<1>2. runs[r].status = "running" => candidates[r].status = "running"
  BY <1>1 DEF CandidateRow, C!CandidateReads, C!Statuses, C!Unready
<1>3. candidates[r].status = "running" => ~candidates[r].error
  BY <1>1 DEF CandidateRow, C!CandidateReads, C!Unready
<1> QED BY <1>1, <1>2, <1>3 DEF StoryInv, CandidateFits, C!CandidateReads

\* A candidate starts.
LEMMA CandidateStarts ==
  ASSUME StoryInv, NEW row \in CandidateRow, NEW began \in RunRow,
         candidates' = Append(candidates, row), runs' = Append(runs, began), jobs' = Append(jobs, "none"),
         NEW r, r = Len(candidates) + 1
  PROVE  /\ candidates' \in Seq(CandidateRow) /\ runs' \in Seq(RunRow) /\ jobs' \in Seq(C!JobStatuses)
         /\ Len(runs') = Len(candidates') /\ Len(jobs') = Len(candidates')
         /\ DOMAIN candidates' = DOMAIN candidates \cup {r} /\ r \notin DOMAIN candidates
         /\ candidates'[r] = row
         /\ \A q \in DOMAIN candidates : candidates'[q] = candidates[q] /\ runs'[q] = runs[q]
<1>1. "none" \in C!JobStatuses
  BY DEF C!JobStatuses
<1>4. /\ candidates \in Seq(CandidateRow) /\ runs \in Seq(RunRow) /\ jobs \in Seq(C!JobStatuses)
      /\ Len(runs) = Len(candidates) /\ Len(jobs) = Len(candidates)
  BY DEF StoryInv, StoryTyped
<1>5. /\ candidates' \in Seq(CandidateRow) /\ Len(candidates') = Len(candidates) + 1
      /\ DOMAIN candidates' = 1..(Len(candidates) + 1) /\ candidates'[r] = row
      /\ \A q \in DOMAIN candidates : candidates'[q] = candidates[q]
  BY <1>4, Appended
<1>6. /\ runs' \in Seq(RunRow) /\ Len(runs') = Len(runs) + 1
      /\ \A q \in DOMAIN runs : runs'[q] = runs[q]
  BY <1>4, Appended
<1>7. jobs' \in Seq(C!JobStatuses) /\ Len(jobs') = Len(jobs) + 1
  BY <1>1, <1>4, Appended
<1>8. /\ DOMAIN candidates' = DOMAIN candidates \cup {r} /\ r \notin DOMAIN candidates
      /\ DOMAIN runs = DOMAIN candidates
  BY <1>5, Tables
<1> QED BY <1>4, <1>5, <1>6, <1>7, <1>8

\* The commit of a user's message is the one its turn names.
LEMMA UserCommitFits ==
  ASSUME NEW n, NEW b, NEW t, Landed(n, b, "user", t), t \in DOMAIN turns', turns'[t].user = n
  PROVE  CommitFits(n)'
BY DEF Landed, CommitFits

\* So are commits without a message.
LEMMA QuietCommitFits ==
  ASSUME NEW n, NEW b, NEW of, NEW kind \in {"run", "context"}, Landed(n, b, kind, of)
  PROVE  CommitFits(n)'
BY DEF Landed, CommitFits

\* A candidate begins on a branch that ends with its user's commit and that nobody reads.
LEMMA NewCandidateFits ==
  ASSUME NEW r, NEW base, NEW b, NEW t, CommitsGrow',
         candidates'[r].turn = t, candidates'[r].branch = b, candidates'[r].base = base,
         candidates'[r].status = "running", candidates'[r].commit = 0, ~candidates'[r].error,
         base = turns'[t].user, active'.branch # b, branches'[b] = base, EndsWith(base, base)'
  PROVE  CandidateFits(r)'
<1>1. C!CandidateReads(r)'
  BY DEF C!CandidateReads, C!Unready
<1>2. EndsWith(branches[candidates[r].branch], candidates[r].base)'
  BY DEF EndsWith, C!Messages
<1> QED BY <1>1, <1>2 DEF CandidateFits, OpenFits

\* A user's commit is the last message it has behind it.
LEMMA UserEnds ==
  ASSUME CommitsGrow, NEW c \in DOMAIN commits, commits[c].kind = "user"
  PROVE  EndsWith(c, c)
<1>1. c \in C!Ancestry[c] /\ \A d \in C!Ancestry[c] : d <= c
  BY AncestryGoesOn, AncestryIsBefore
<1> QED BY <1>1 DEF EndsWith, C!Messages
UsersEnd == \A c \in DOMAIN commits : commits[c].kind = "user" => EndsWith(c, c)
\* The same after a step.
LEMMA UsersEndAfter == CommitsGrow' => UsersEnd'
<1>1. CommitsGrow => UsersEnd
  BY UserEnds DEF UsersEnd
<1> QED BY <1>1, PTL

\* The user submits a message.
LEMMA SubmitAdvances ==
  ASSUME StoryInv, NEW key \in Nat, NEW expected, C!Submit(key, expected)
  PROVE  StoryInv' /\ C!GoesBackBySelection
<1>1. PICK n, t, b, f, r : n = C!NewCommit /\ t = Len(turns) + 1 /\ b = active.branch /\ f = C!NewBranch
                           /\ r = Len(candidates) + 1
  OBVIOUS
<1>2. /\ C!Fresh(key) /\ C!Committed(b, "user", t)
      /\ branches' = Append([branches EXCEPT ![b] = n], n)
      /\ active' = [active EXCEPT !.head = n]
      /\ turns' = Append(turns, [user |-> n, request |-> key])
      /\ selection' = Append(selection, 0)
      /\ C!StartCandidate(t, n)
  BY <1>1, Zenon DEF C!Submit
<1>3. CommitsGrow /\ StoryTyped /\ NamesFit /\ b \in DOMAIN branches /\ branches[b] \in DOMAIN commits
  BY <1>1 DEF StoryInv, NamesFit
<1>4. Landed(n, b, "user", t)
  <2>1. "user" \in C!Kinds /\ t \in Nat /\ b \in Nat
    BY <1>1, <1>3, Tables DEF C!Kinds
  <2> QED BY <1>1, <1>2, <1>3, <2>1, CommitLands
<1>5. CommitsGrow' /\ Kept /\ n \in Nat /\ n \in DOMAIN commits' /\ n \notin DOMAIN commits /\ n > 1
      /\ DOMAIN commits' = DOMAIN commits \cup {n}
  BY <1>4 DEF Landed, Kept
<1>6. /\ branches' \in Seq(Nat) /\ DOMAIN branches' = DOMAIN branches \cup {f} /\ f \notin DOMAIN branches
      /\ branches'[b] = n /\ branches'[f] = n
      /\ \A a \in DOMAIN branches : a # b => branches'[a] = branches[a]
  <2> DEFINE moved == [branches EXCEPT ![b] = n]
  <2>1. /\ moved \in Seq(Nat) /\ Len(moved) = Len(branches) /\ DOMAIN moved = DOMAIN branches
        /\ \A a \in DOMAIN branches : moved[a] = IF a = b THEN n ELSE branches[a]
    BY <1>3, <1>5, Put DEF StoryTyped
  <2>2. branches' = Append(moved, n)
    BY <1>2
  <2> HIDE DEF moved
  <2>3. /\ branches' \in Seq(Nat) /\ DOMAIN branches' = 1..(Len(branches) + 1)
        /\ branches'[Len(branches) + 1] = n
        /\ \A a \in DOMAIN branches : branches'[a] = moved[a]
    BY <1>5, <2>1, <2>2, Appended
  <2>4. f = Len(branches) + 1
    BY <1>1 DEF C!NewBranch
  <2> QED BY <1>3, <2>1, <2>3, <2>4, Tables
<1>7. /\ turns' \in Seq(TurnRow) /\ DOMAIN turns' = DOMAIN turns \cup {t} /\ t \notin DOMAIN turns
      /\ Len(turns') = Len(turns) + 1
      /\ turns'[t].user = n /\ turns'[t].request = key /\ TurnsKept
  <2> DEFINE row == [user |-> n, request |-> key]
  <2>1. row \in TurnRow /\ turns' = Append(turns, row) /\ row.user = n /\ row.request = key
    BY <1>2, <1>5 DEF TurnRow
  <2> HIDE DEF row
  <2>2. turns \in Seq(TurnRow)
    BY <1>3 DEF StoryTyped
  <2>3. /\ turns' \in Seq(TurnRow) /\ Len(turns') = Len(turns) + 1 /\ DOMAIN turns' = 1..(Len(turns) + 1)
        /\ turns'[t] = row
        /\ \A i \in DOMAIN turns : i \in DOMAIN turns' /\ turns'[i] = turns[i]
    BY <1>1, <2>1, <2>2, Appended
  <2> QED BY <1>1, <2>1, <2>3, Tables DEF TurnsKept
<1>8. /\ selection' \in Seq(Nat) /\ Len(selection') = Len(turns')
      /\ selection'[t] = 0 /\ \A i \in DOMAIN turns : selection'[i] = selection[i]
  <2>1. selection \in Seq(Nat) /\ Len(selection) = Len(turns) /\ 0 \in Nat
    BY <1>3 DEF StoryTyped
  <2>2. /\ selection' \in Seq(Nat) /\ Len(selection') = Len(selection) + 1
        /\ selection'[Len(selection) + 1] = 0
        /\ \A i \in DOMAIN selection : selection'[i] = selection[i]
    BY <1>2, <2>1, Appended
  <2> QED BY <1>1, <1>7, <2>1, <2>2, Tables
<1>9. /\ candidates' \in Seq(CandidateRow) /\ runs' \in Seq(RunRow) /\ jobs' \in Seq(C!JobStatuses)
      /\ Len(runs') = Len(candidates') /\ Len(jobs') = Len(candidates')
      /\ DOMAIN candidates' = DOMAIN candidates \cup {r} /\ r \notin DOMAIN candidates
      /\ candidates'[r].turn = t /\ candidates'[r].branch = f /\ candidates'[r].base = n
      /\ candidates'[r].status = "running" /\ candidates'[r].commit = 0 /\ ~candidates'[r].error
      /\ \A q \in DOMAIN candidates : candidates'[q] = candidates[q] /\ runs'[q] = runs[q]
  <2>1. t \in Nat /\ n \in Nat /\ f \in Nat /\ f = Len(branches) + 1
    BY <1>1, <1>5, Tables DEF C!NewBranch
  <2>2. PICK row, began : /\ row = [turn |-> t, branch |-> f, base |-> n, status |-> "running", commit |-> 0,
                                    error |-> FALSE]
                          /\ began = [status |-> "running", output |-> 0, reply |-> "none"]
    OBVIOUS
  <2>3. candidates' = Append(candidates, row) /\ jobs' = Append(jobs, "none") /\ runs' = Append(runs, began)
    BY <1>1, <1>2, <2>2 DEF C!StartCandidate
  <2>4. row \in CandidateRow /\ began \in RunRow
    BY <2>1, <2>2 DEF CandidateRow, RunRow, C!Statuses
  <2>5. /\ candidates'[r] = row
        /\ candidates' \in Seq(CandidateRow) /\ runs' \in Seq(RunRow) /\ jobs' \in Seq(C!JobStatuses)
        /\ Len(runs') = Len(candidates') /\ Len(jobs') = Len(candidates')
        /\ DOMAIN candidates' = DOMAIN candidates \cup {r} /\ r \notin DOMAIN candidates
        /\ \A q \in DOMAIN candidates : candidates'[q] = candidates[q] /\ runs'[q] = runs[q]
    BY <1>1, <2>3, <2>4, CandidateStarts
  <2> QED BY <2>2, <2>5
<1>10. active' \in [branch : Nat, head : Nat] /\ active'.branch = b /\ active'.head = n
  BY <1>1, <1>2, <1>5, Tables
<1>11. StoryTyped'
  BY <1>6, <1>7, <1>8, <1>9, <1>10 DEF StoryTyped
<1>12. NamesFit'
  <2>1. \A c \in DOMAIN commits' : commits'[c].branch \in DOMAIN branches'
    BY <1>3, <1>4, <1>6 DEF Landed, Kept, NamesFit
  <2>2. \A a \in DOMAIN branches' : branches'[a] \in DOMAIN commits'
    BY <1>3, <1>5, <1>6 DEF NamesFit
  <2>3. active'.branch \in DOMAIN branches' /\ active'.head \in DOMAIN commits'
    BY <1>3, <1>5, <1>6, <1>10
  <2>4. \A i \in DOMAIN turns' : turns'[i].user \in DOMAIN commits'
    BY <1>3, <1>5, <1>7 DEF NamesFit, TurnsKept
  <2>5. \A q \in DOMAIN candidates' : candidates'[q].turn \in DOMAIN turns' /\ candidates'[q].branch \in DOMAIN branches'
    BY <1>3, <1>6, <1>7, <1>9 DEF NamesFit
  <2>6. \A q, s \in DOMAIN candidates' : candidates'[q].branch = candidates'[s].branch => q = s
    BY <1>3, <1>6, <1>9 DEF NamesFit
  <2> QED BY <2>1, <2>2, <2>3, <2>4, <2>5, <2>6 DEF NamesFit
<1>13. C!HeadReads'
  BY <1>5, <1>6, <1>10, HeadLands
<1>14. C!RequestsRunOnce'
  <2>1. \A i \in DOMAIN turns : turns[i].request # key
    BY <1>2 DEF C!Fresh
  <2>2. \A i, j \in DOMAIN turns : turns[i].request = turns[j].request => i = j
    BY DEF StoryInv, C!RequestsRunOnce
  <2> QED BY <1>7, <2>1, <2>2 DEF C!RequestsRunOnce, TurnsKept
<1>15. CandidatesKept
  BY <1>9 DEF CandidatesKept, CandidateKept
<1>16. ASSUME NEW i \in DOMAIN turns' PROVE TurnFits(i)'
  <2>1. CASE i \in DOMAIN turns
    <3>1. TurnFits(i) /\ selection'[i] = selection[i] /\ turns[i].user \in DOMAIN commits
      BY <1>3, <1>8, <2>1 DEF StoryInv, NamesFit
    <3> QED BY <1>5, <1>7, <1>15, <2>1, <3>1, TurnKeeps
  <2>2. CASE i = t
    BY <1>4, <1>7, <1>8, <2>2 DEF Landed, TurnFits
  <2> QED BY <1>7, <2>1, <2>2
<1>17. ASSUME NEW c \in DOMAIN commits' PROVE CommitFits(c)'
  <2>1. CASE c \in DOMAIN commits
    <3>1. CommitFits(c)
      BY <2>1 DEF StoryInv
    <3> QED BY <1>3, <1>5, <1>7, <1>15, <2>1, <3>1, CommitKeeps
  <2>2. CASE c = n
    <3>1. t \in DOMAIN turns' /\ turns'[t].user = n
      BY <1>7
    <3> QED BY <1>4, <2>2, <3>1, UserCommitFits
  <2> QED BY <1>5, <2>1, <2>2
<1>18. ASSUME NEW q \in DOMAIN candidates' PROVE CandidateFits(q)'
  <2>1. CASE q \in DOMAIN candidates
    <3>1. PICK a : a = candidates[q].branch
      OBVIOUS
    <3>2. CandidateFits(q) /\ a \in DOMAIN branches /\ branches[a] \in DOMAIN commits /\ a \in DOMAIN branches'
      BY <1>3, <1>6, <2>1, <3>1 DEF StoryInv, NamesFit
    <3>3. CASE a = b
      <4>1. GoesOn(a)
        BY <1>3, <1>4, <1>6, <3>2, <3>3, BranchGoesOn
      <4>2. candidates[q].status = "ready"
        BY <1>1, <3>1, <3>2, <3>3 DEF CandidateFits, OpenFits
      <4> QED BY <1>3, <1>5, <1>7, <1>9, <2>1, <3>1, <3>2, <4>1, <4>2, CandidateKeeps
    <3>4. CASE a # b
      <4>1. GoesOnSilently(a) /\ GoesOn(a)
        <5>1. GoesOnSilently(a)
          BY <1>5, <1>6, <3>2, <3>4, BranchRests
        <5> QED BY <5>1 DEF GoesOnSilently
      <4> QED BY <1>3, <1>5, <1>7, <1>9, <1>10, <2>1, <3>1, <3>2, <3>4, <4>1, CandidateKeeps
    <3> QED BY <3>3, <3>4
  <2>2. CASE q = r
    <3>1. EndsWith(n, n)'
      <4>1. UsersEnd'
        BY <1>5, UsersEndAfter
      <4>2. commits'[n].kind = "user"
        BY <1>4 DEF Landed
      <4> QED BY <1>5, <4>1, <4>2 DEF UsersEnd
    <3>2. n = turns'[t].user /\ active'.branch # f /\ branches'[f] = n
      BY <1>3, <1>6, <1>7, <1>10
    <3> QED BY <1>5, <1>9, <2>2, <3>1, <3>2, NewCandidateFits
  <2> QED BY <1>9, <2>1, <2>2
<1>19. C!GoesBackBySelection
  <2>1. PICK h : h = active.head
    OBVIOUS
  <2>2. h \in DOMAIN commits /\ h \in C!Ancestry[branches[b]]
    BY <1>1, <1>3, <2>1 DEF StoryInv, C!HeadReads, C!Reaches, NamesFit
  <2>3. C!Reaches(active.head, h)'
    BY <1>4, <1>10, <2>2 DEF Landed, C!Reaches
  <2> QED BY <2>1, <2>2, <2>3 DEF C!GoesBackBySelection
<1> QED BY <1>5, <1>11, <1>12, <1>13, <1>14, <1>16, <1>17, <1>18, <1>19 DEF StoryInv
\* A step that makes no turn keeps the invariant if it keeps what is read of what it touches.
LEMMA StoryGoesOn ==
  ASSUME StoryInv, Kept, turns' = turns, CandidatesKept, StoryTyped', NamesFit', C!HeadReads',
         \A t \in DOMAIN turns : selection'[t] = selection[t] \/ TurnFits(t)',
         \A c \in DOMAIN commits' : c \in DOMAIN commits \/ CommitFits(c)',
         \A r \in DOMAIN candidates' : CandidateFits(r)'
  PROVE  StoryInv'
<1>1. CommitsGrow' /\ TurnsKept
  BY DEF Kept, TurnsKept
<1>2. C!RequestsRunOnce'
  BY DEF StoryInv, C!RequestsRunOnce
<1>3. ASSUME NEW t \in DOMAIN turns' PROVE TurnFits(t)'
  <2>1. TurnFits(t) /\ turns[t].user \in DOMAIN commits
    BY <1>3 DEF StoryInv, NamesFit
  <2> QED BY <1>1, <1>3, <2>1, TurnKeeps
<1>4. ASSUME NEW c \in DOMAIN commits' PROVE CommitFits(c)'
  <2>1. c \in DOMAIN commits => CommitFits(c) /\ CommitsGrow
    BY DEF StoryInv
  <2> QED BY <1>1, <1>4, <2>1, CommitKeeps
<1> QED BY <1>1, <1>2, <1>3, <1>4 DEF StoryInv

\* What is named stays when the tables only grow.
LEMMA NamesStay ==
  ASSUME StoryInv, Kept, turns' = turns, CandidatesKept, DOMAIN candidates' = DOMAIN candidates,
         \A b \in DOMAIN branches : b \in DOMAIN branches',
         \A c \in DOMAIN commits' : c \in DOMAIN commits \/ commits'[c].branch \in DOMAIN branches',
         \A b \in DOMAIN branches' : branches'[b] \in DOMAIN commits',
         active'.branch \in DOMAIN branches', active'.head \in DOMAIN commits'
  PROVE  NamesFit'
<1>1. \A c \in DOMAIN commits' : commits'[c].branch \in DOMAIN branches'
  BY DEF StoryInv, NamesFit, Kept
<1>2. \A t \in DOMAIN turns' : turns'[t].user \in DOMAIN commits'
  BY DEF StoryInv, NamesFit, Kept
<1>3. \A r \in DOMAIN candidates' : candidates'[r].turn \in DOMAIN turns' /\ candidates'[r].branch \in DOMAIN branches'
  BY DEF StoryInv, NamesFit, CandidatesKept, CandidateKept
<1>4. \A r, s \in DOMAIN candidates' : candidates'[r].branch = candidates'[s].branch => r = s
  BY DEF StoryInv, NamesFit, CandidatesKept, CandidateKept
<1> QED BY <1>1, <1>2, <1>3, <1>4 DEF NamesFit

\* A step of the runs and the projector that makes no commit: what was not ready stays so.
LEMMA TablesMove ==
  ASSUME StoryInv, UNCHANGED <<commits, branches, active, turns, selection>>,
         candidates' \in Seq(CandidateRow), runs' \in Seq(RunRow), jobs' \in Seq(C!JobStatuses),
         Len(candidates') = Len(candidates), Len(runs') = Len(candidates), Len(jobs') = Len(candidates),
         CandidatesKept,
         \A r \in DOMAIN candidates :
            /\ candidates'[r].status = "ready" => candidates[r].status = "ready"
            /\ candidates[r].status = "ready" => runs'[r] = runs[r]
            /\ C!CandidateReads(r)'
  PROVE  StoryInv' /\ C!GoesBackBySelection
<1>1. Kept /\ C!Ancestry' = C!Ancestry
  BY KeepsAll DEF StoryInv
<1>2. StoryTyped' /\ DOMAIN candidates' = DOMAIN candidates
  <2>1. StoryTyped /\ DOMAIN candidates = 1..Len(candidates)
    BY Tables DEF StoryInv
  <2>2. DOMAIN candidates' = 1..Len(candidates')
    OBVIOUS
  <2> QED BY <2>1, <2>2 DEF StoryTyped
<1>3. NamesFit'
  BY <1>1, <1>2, NamesStay DEF StoryInv, NamesFit
<1>4. C!HeadReads'
  BY <1>1, HeadRests DEF StoryInv
<1>5. ASSUME NEW r \in DOMAIN candidates' PROVE CandidateFits(r)'
  <2>1. r \in DOMAIN candidates /\ CandidateKept(r) /\ C!CandidateReads(r)'
    BY <1>2, <1>5 DEF CandidatesKept
  <2>2. CASE candidates[r].status = "ready"
    <3>1. ReadyFits(r) /\ candidates[r].commit # 0 /\ runs'[r] = runs[r]
      BY <2>1, <2>2 DEF StoryInv, CandidateFits, C!CandidateReads
    <3>2. candidates'[r].commit = candidates[r].commit /\ candidates'[r].branch = candidates[r].branch
          /\ candidates'[r].status = "ready"
      BY <2>1, <2>2, <3>1 DEF CandidateKept
    <3>3. ReadyFits(r)'
      BY <1>1, <3>1, <3>2 DEF ReadyFits, C!Reaches
    <3> QED BY <2>1, <3>2, <3>3 DEF CandidateFits
  <2>3. CASE candidates[r].status # "ready"
    <3>1. OpenFits(r) /\ candidates'[r].status # "ready"
      BY <2>1, <2>3 DEF StoryInv, CandidateFits
    <3>2. OpenFits(r)'
      BY <1>1, <2>1, <3>1 DEF OpenFits, EndsWith, CandidateKept, C!Messages
    <3> QED BY <2>1, <3>1, <3>2 DEF CandidateFits
  <2> QED BY <2>2, <2>3
<1>6. StoryInv'
  BY <1>1, <1>2, <1>3, <1>4, <1>5, StoryGoesOn
<1> QED BY <1>6 DEF C!GoesBackBySelection

\* A run ends (settle.rs).
LEMMA RunEndAdvances ==
  ASSUME StoryInv, NEW r \in DOMAIN runs, NEW s \in C!Terminal, NEW reply \in {"none", "valid", "invalid"},
         C!RunEnds(r, s, reply)
  PROVE  StoryInv' /\ C!GoesBackBySelection
<1> DEFINE row == [status |-> s, reply |-> reply,
                   output |-> IF s = "completed" THEN branches[candidates[r].branch] ELSE 0]
<1>1. /\ r \in DOMAIN candidates /\ candidates[r].branch \in DOMAIN branches
      /\ branches[candidates[r].branch] \in Nat
      /\ runs \in Seq(RunRow)
  BY Tables DEF StoryInv, NamesFit, StoryTyped
<1>2. row \in RunRow
  BY <1>1 DEF RunRow
<1>3. /\ runs[r].status = "running" /\ runs' = [runs EXCEPT ![r] = row]
      /\ UNCHANGED <<commits, branches, active, turns, selection, candidates, jobs>>
  BY DEF C!RunEnds
<1> HIDE DEF row
<1>4. /\ runs' \in Seq(RunRow) /\ Len(runs') = Len(runs)
      /\ \A q \in DOMAIN runs : q # r => runs'[q] = runs[q]
  BY <1>1, <1>2, <1>3, Put
<1>5. candidates[r].status = "running"
  BY <1>1, <1>3, RunningIsOpen
<1>6. /\ candidates' \in Seq(CandidateRow) /\ jobs' \in Seq(C!JobStatuses)
      /\ Len(candidates') = Len(candidates) /\ Len(runs') = Len(candidates) /\ Len(jobs') = Len(candidates)
      /\ DOMAIN runs = DOMAIN candidates
  BY <1>3, <1>4, Tables DEF StoryInv, StoryTyped
<1>7. CandidatesKept
  BY <1>3 DEF CandidatesKept, CandidateKept
<1>8. ASSUME NEW q \in DOMAIN candidates
      PROVE  /\ candidates'[q].status = "ready" => candidates[q].status = "ready"
             /\ candidates[q].status = "ready" => runs'[q] = runs[q]
             /\ C!CandidateReads(q)'
  <2>1. C!CandidateReads(q)
    BY DEF StoryInv, CandidateFits
  <2>2. CASE q = r
    BY <1>3, <1>5, <2>1, <2>2 DEF C!CandidateReads, C!Unready
  <2>3. CASE q # r
    BY <1>3, <1>4, <1>6, <2>1, <2>3 DEF C!CandidateReads
  <2>4. q = r => candidates[q].status # "ready"
    BY <1>5
  <2> QED BY <1>3, <1>4, <1>6, <2>2, <2>3, <2>4
<1> QED BY <1>3, <1>4, <1>6, <1>7, <1>8, TablesMove

\* The projector looks for ended runs (jobs.rs).
LEMMA ReconcileAdvances ==
  ASSUME StoryInv, C!Reconcile
  PROVE  StoryInv' /\ C!GoesBackBySelection
<1>1. /\ jobs' = [r \in DOMAIN jobs |-> IF C!Unprojected(r) THEN "pending" ELSE jobs[r]]
      /\ UNCHANGED <<commits, branches, active, turns, selection, candidates, runs>>
  BY DEF C!Reconcile
<1>2. /\ candidates \in Seq(CandidateRow) /\ runs \in Seq(RunRow) /\ Len(jobs) = Len(candidates)
      /\ Len(runs) = Len(candidates) /\ Len(candidates) \in Nat /\ DOMAIN jobs = 1..Len(candidates)
      /\ \A r \in DOMAIN jobs : jobs[r] \in C!JobStatuses
  BY Tables DEF StoryInv, StoryTyped
<1>3. jobs' \in Seq(C!JobStatuses) /\ Len(jobs') = Len(candidates)
  <2>1. \A r \in 1..Len(candidates) : (IF C!Unprojected(r) THEN "pending" ELSE jobs[r]) \in C!JobStatuses
    BY <1>2 DEF C!JobStatuses
  <2>2. jobs' \in [1..Len(candidates) -> C!JobStatuses]
    BY <1>1, <1>2, <2>1
  <2> QED BY <1>2, <2>2, SeqDef
<1>4. CandidatesKept
  BY <1>1 DEF CandidatesKept, CandidateKept
<1>5. \A r \in DOMAIN candidates : C!CandidateReads(r)'
  BY <1>1 DEF StoryInv, CandidateFits, C!CandidateReads
<1> QED BY <1>1, <1>2, <1>3, <1>4, <1>5, TablesMove

\* A candidate that is not ready is settled without a reply.
LEMMA SettleAdvances ==
  ASSUME StoryInv, NEW r \in DOMAIN candidates, NEW row \in CandidateRow, NEW job,
         row.turn = candidates[r].turn, row.branch = candidates[r].branch,
         row.base = candidates[r].base, row.commit = candidates[r].commit,
         candidates[r].status # "ready", row.status # "ready",
         row.status \in C!Unready => row.error /\ runs[r].status = "completed",
         row.status \notin C!Unready => ~row.error,
         row.status \in {"failed", "cancelled"} => runs[r].status = row.status,
         candidates' = [candidates EXCEPT ![r] = row],
         jobs' = [jobs EXCEPT ![r] = job] \/ jobs' = jobs, job \in C!JobStatuses,
         UNCHANGED <<commits, branches, active, turns, selection, runs>>
  PROVE  StoryInv' /\ C!GoesBackBySelection
<1>1. /\ candidates \in Seq(CandidateRow) /\ runs \in Seq(RunRow) /\ jobs \in Seq(C!JobStatuses)
      /\ Len(jobs) = Len(candidates) /\ Len(runs) = Len(candidates) /\ r \in DOMAIN jobs
      /\ candidates[r] \in CandidateRow
  BY Tables DEF StoryInv, StoryTyped
<1>2. /\ candidates' \in Seq(CandidateRow) /\ Len(candidates') = Len(candidates)
      /\ DOMAIN candidates' = DOMAIN candidates
      /\ \A q \in DOMAIN candidates : candidates'[q] = IF q = r THEN row ELSE candidates[q]
  BY <1>1, Put
<1>3. jobs' \in Seq(C!JobStatuses) /\ Len(jobs') = Len(candidates)
  BY <1>1, Put
<1>4. candidates[r].commit = 0 /\ C!CandidateReads(r)
  BY DEF StoryInv, CandidateFits, C!CandidateReads
<1>5. CandidatesKept
  BY <1>2, <1>4 DEF CandidatesKept, CandidateKept
<1>6. ASSUME NEW q \in DOMAIN candidates
      PROVE  C!CandidateReads(q)'
  <2>1. C!CandidateReads(q)
    BY DEF StoryInv, CandidateFits
  <2>2. CASE q # r
    BY <1>2, <2>1, <2>2 DEF C!CandidateReads
  <2>3. CASE q = r
    <3>1. candidates'[q] = row
      BY <1>2, <2>3
    <3> QED BY <1>4, <2>3, <3>1 DEF C!CandidateReads
  <2> QED BY <2>2, <2>3
<1>7. \A q \in DOMAIN candidates : candidates'[q].status = "ready" => candidates[q].status = "ready"
  BY <1>2
<1> QED BY <1>1, <1>2, <1>3, <1>5, <1>6, <1>7, TablesMove

\* A run, or another writer, commits to a branch.
LEMMA QuietCommitAdvances ==
  ASSUME StoryInv, NEW b \in DOMAIN branches, NEW kind \in {"run", "context"}, NEW of \in Nat,
         C!Committed(b, kind, of), branches' = [branches EXCEPT ![b] = C!NewCommit],
         UNCHANGED <<active, turns, selection, candidates, runs, jobs>>,
         kind = "run" => b # active.branch
  PROVE  StoryInv' /\ C!GoesBackBySelection
<1>1. PICK n : n = C!NewCommit
  OBVIOUS
<1>2. CommitsGrow /\ StoryTyped /\ NamesFit /\ branches[b] \in DOMAIN commits /\ branches \in Seq(Nat)
  BY DEF StoryInv, NamesFit, StoryTyped
<1>3. Landed(n, b, kind, of)
  <2>1. kind \in C!Kinds /\ b \in Nat
    BY Tables DEF C!Kinds
  <2> QED BY <1>1, <1>2, <2>1, CommitLands
<1>4. Kept /\ n \in Nat /\ n \in DOMAIN commits' /\ DOMAIN commits' = DOMAIN commits \cup {n}
      /\ commits'[n].branch = b
  BY <1>3 DEF Landed
<1>5. /\ branches' \in Seq(Nat) /\ DOMAIN branches' = DOMAIN branches
      /\ \A a \in DOMAIN branches : branches'[a] = IF a = b THEN n ELSE branches[a]
  <2>1. branches' = [branches EXCEPT ![b] = n]
    BY <1>1
  <2> QED BY <1>2, <1>4, <2>1, Put
<1>6. StoryTyped' /\ CandidatesKept /\ TurnsKept
  BY <1>2, <1>5 DEF StoryTyped, CandidatesKept, CandidateKept, TurnsKept
<1>7. NamesFit'
  <2>1. \A a \in DOMAIN branches' : branches'[a] \in DOMAIN commits'
    BY <1>2, <1>4, <1>5 DEF NamesFit
  <2>2. active'.branch \in DOMAIN branches' /\ active'.head \in DOMAIN commits'
    BY <1>2, <1>4, <1>5 DEF NamesFit
  <2>3. \A c \in DOMAIN commits' : c \in DOMAIN commits \/ commits'[c].branch \in DOMAIN branches'
    BY <1>4, <1>5
  <2> QED BY <1>4, <1>5, <1>6, <2>1, <2>2, <2>3, NamesStay
<1>8. C!HeadReads'
  <2>1. CASE b = active.branch
    <3>1. kind = "context" /\ branches'[active.branch] = n /\ Landed(n, active.branch, "context", of)
      BY <1>3, <1>5, <2>1
    <3> QED BY <1>2, <1>4, <3>1, HeadRests DEF StoryInv
  <2>2. CASE b # active.branch
    <3>1. branches'[active.branch] = branches[active.branch]
      BY <1>2, <1>5, <2>2 DEF NamesFit
    <3> QED BY <1>2, <1>4, <3>1, HeadRests DEF StoryInv
  <2> QED BY <2>1, <2>2
<1>9. CommitFits(n)'
  BY <1>3, QuietCommitFits
<1>10. ASSUME NEW r \in DOMAIN candidates' PROVE CandidateFits(r)'
  <2>1. PICK a : a = candidates[r].branch
    OBVIOUS
  <2>2. r \in DOMAIN candidates /\ CandidateFits(r) /\ a \in DOMAIN branches /\ branches[a] \in DOMAIN commits
    BY <1>2, <2>1 DEF StoryInv, NamesFit
  <2>3. GoesOn(a) /\ GoesOnSilently(a)
    <3>1. CASE a = b
      BY <1>3, <1>5, <2>2, <3>1, BranchGoesOn
    <3>2. CASE a # b
      <4>1. GoesOnSilently(a)
        BY <1>4, <1>5, <2>2, <3>2, BranchRests
      <4> QED BY <4>1 DEF GoesOnSilently
    <3> QED BY <3>1, <3>2
  <2>4. candidates[r].status # "ready" => active'.branch # a
    BY <2>1, <2>2 DEF CandidateFits, OpenFits
  <2> QED BY <1>2, <1>4, <1>6, <2>1, <2>2, <2>3, <2>4, CandidateKeeps
<1>11. StoryInv'
  BY <1>4, <1>6, <1>7, <1>8, <1>9, <1>10, StoryGoesOn
<1> QED BY <1>11 DEF C!GoesBackBySelection
\* Another candidate of a turn (regenerate.rs).
LEMMA RegenerateAdvances ==
  ASSUME StoryInv, NEW t \in DOMAIN turns, C!Regenerate(t)
  PROVE  StoryInv' /\ C!GoesBackBySelection
<1>1. PICK u, f, r : u = turns[t].user /\ f = Len(branches) + 1 /\ r = Len(candidates) + 1
  OBVIOUS
<1>2. /\ branches' = Append(branches, u) /\ C!StartCandidate(t, u)
      /\ UNCHANGED <<commits, active, turns, selection>>
  BY <1>1 DEF C!Regenerate, C!ForkPoint
<1>3. CommitsGrow /\ StoryTyped /\ NamesFit /\ u \in DOMAIN commits /\ commits[u].kind = "user" /\ u \in Nat
  <2>1. CommitsGrow /\ StoryTyped /\ NamesFit
    BY DEF StoryInv
  <2>2. u \in DOMAIN commits /\ commits[u].kind = "user"
    BY <1>1, <2>1 DEF StoryInv, NamesFit, TurnFits
  <2> QED BY <2>1, <2>2, CommitsAreNumbers
<1>4. Kept /\ CommitsGrow'
  BY <1>2, <1>3, KeepsAll DEF Kept
<1>5. /\ branches' \in Seq(Nat) /\ DOMAIN branches' = DOMAIN branches \cup {f} /\ f \notin DOMAIN branches
      /\ branches'[f] = u /\ \A a \in DOMAIN branches : branches'[a] = branches[a]
  <2>1. branches \in Seq(Nat)
    BY <1>3 DEF StoryTyped
  <2>2. /\ branches' \in Seq(Nat) /\ DOMAIN branches' = 1..(Len(branches) + 1)
        /\ branches'[Len(branches) + 1] = u
        /\ \A a \in DOMAIN branches : branches'[a] = branches[a]
    BY <1>2, <1>3, <2>1, Appended
  <2> QED BY <1>1, <2>2, Tables
<1>6. /\ candidates' \in Seq(CandidateRow) /\ runs' \in Seq(RunRow) /\ jobs' \in Seq(C!JobStatuses)
      /\ Len(runs') = Len(candidates') /\ Len(jobs') = Len(candidates')
      /\ DOMAIN candidates' = DOMAIN candidates \cup {r} /\ r \notin DOMAIN candidates
      /\ candidates'[r].turn = t /\ candidates'[r].branch = f /\ candidates'[r].base = u
      /\ candidates'[r].status = "running" /\ candidates'[r].commit = 0 /\ ~candidates'[r].error
      /\ \A q \in DOMAIN candidates : candidates'[q] = candidates[q] /\ runs'[q] = runs[q]
  <2>1. t \in Nat /\ f \in Nat
    BY <1>1, Tables
  <2>2. PICK row, began : /\ row = [turn |-> t, branch |-> f, base |-> u, status |-> "running", commit |-> 0,
                                    error |-> FALSE]
                          /\ began = [status |-> "running", output |-> 0, reply |-> "none"]
    OBVIOUS
  <2>3. candidates' = Append(candidates, row) /\ jobs' = Append(jobs, "none") /\ runs' = Append(runs, began)
    BY <1>1, <1>2, <2>2 DEF C!StartCandidate, C!NewBranch
  <2>4. row \in CandidateRow /\ began \in RunRow
    BY <1>3, <2>1, <2>2 DEF CandidateRow, RunRow, C!Statuses
  <2>5. /\ candidates'[r] = row
        /\ candidates' \in Seq(CandidateRow) /\ runs' \in Seq(RunRow) /\ jobs' \in Seq(C!JobStatuses)
        /\ Len(runs') = Len(candidates') /\ Len(jobs') = Len(candidates')
        /\ DOMAIN candidates' = DOMAIN candidates \cup {r} /\ r \notin DOMAIN candidates
        /\ \A q \in DOMAIN candidates : candidates'[q] = candidates[q] /\ runs'[q] = runs[q]
    BY <1>1, <2>3, <2>4, CandidateStarts
  <2> QED BY <2>2, <2>5
<1>7. StoryTyped' /\ CandidatesKept /\ TurnsKept
  BY <1>2, <1>3, <1>5, <1>6 DEF StoryTyped, CandidatesKept, CandidateKept, TurnsKept
<1>8. NamesFit'
  <2>1. /\ \A c \in DOMAIN commits' : commits'[c].branch \in DOMAIN branches'
        /\ \A a \in DOMAIN branches' : branches'[a] \in DOMAIN commits'
        /\ active'.branch \in DOMAIN branches' /\ active'.head \in DOMAIN commits'
        /\ \A i \in DOMAIN turns' : turns'[i].user \in DOMAIN commits'
    BY <1>2, <1>3, <1>5 DEF NamesFit
  <2>2. \A q \in DOMAIN candidates' : candidates'[q].turn \in DOMAIN turns' /\ candidates'[q].branch \in DOMAIN branches'
    BY <1>2, <1>3, <1>5, <1>6 DEF NamesFit
  <2>3. \A q, s \in DOMAIN candidates' : candidates'[q].branch = candidates'[s].branch => q = s
    BY <1>3, <1>5, <1>6 DEF NamesFit
  <2> QED BY <2>1, <2>2, <2>3 DEF NamesFit
<1>9. C!HeadReads'
  <2>1. active' = active /\ branches'[active.branch] = branches[active.branch]
    BY <1>2, <1>3, <1>5 DEF NamesFit
  <2> QED BY <1>3, <1>4, <2>1, HeadRests DEF StoryInv
<1>10. ASSUME NEW q \in DOMAIN candidates' PROVE CandidateFits(q)'
  <2>1. CASE q \in DOMAIN candidates
    <3>1. PICK a : a = candidates[q].branch
      OBVIOUS
    <3>2. CandidateFits(q) /\ a \in DOMAIN branches /\ branches[a] \in DOMAIN commits
      BY <1>3, <2>1, <3>1 DEF StoryInv, NamesFit
    <3>3. GoesOnSilently(a) /\ GoesOn(a)
      <4>1. GoesOnSilently(a)
        BY <1>4, <1>5, <3>2, BranchRests
      <4> QED BY <4>1 DEF GoesOnSilently
    <3>4. candidates[q].status # "ready" => active'.branch # a
      BY <1>2, <3>1, <3>2 DEF CandidateFits, OpenFits
    <3> QED BY <1>3, <1>4, <1>6, <1>7, <2>1, <3>1, <3>2, <3>3, <3>4, CandidateKeeps
  <2>2. CASE q = r
    <3>1. EndsWith(u, u)'
      <4>1. UsersEnd'
        BY <1>4, UsersEndAfter
      <4> QED BY <1>2, <1>3, <4>1 DEF UsersEnd
    <3>2. u = turns'[t].user /\ active'.branch # f /\ branches'[f] = u
      BY <1>1, <1>2, <1>3, <1>5 DEF NamesFit
    <3> QED BY <1>4, <1>6, <2>2, <3>1, <3>2, NewCandidateFits
  <2> QED BY <1>6, <2>1, <2>2
<1>11. StoryInv'
  BY <1>2, <1>4, <1>7, <1>8, <1>9, <1>10, StoryGoesOn
<1> QED BY <1>2, <1>11 DEF C!GoesBackBySelection

\* A reply lands on the branch of its candidate, whether the projector or the user appends it
\* (append.rs, projection_resolution.rs).
LEMMA ReplyAdvances ==
  ASSUME StoryInv, NEW r \in DOMAIN candidates, C!AppendReply(r),
         candidates[r].status # "ready", runs[r].status = "completed",
         C!Reaches(branches[candidates[r].branch], runs[r].output),
         jobs' \in Seq(C!JobStatuses), Len(jobs') = Len(jobs)
  PROVE  StoryInv' /\ C!GoesBackBySelection
<1>1. PICK n, b, h, t, base : /\ n = C!NewCommit /\ b = candidates[r].branch /\ h = branches[b]
                              /\ t = candidates[r].turn /\ base = candidates[r].base
  OBVIOUS
<1> DEFINE row == [candidates[r] EXCEPT !.status = "ready", !.commit = n]
<1>2. /\ C!Committed(b, "assistant", r) /\ branches' = [branches EXCEPT ![b] = n]
      /\ candidates' = [candidates EXCEPT ![r] = row]
      /\ UNCHANGED <<turns, runs>>
  BY <1>1 DEF C!AppendReply
<1>3. \/ /\ active.head = base /\ active' = [branch |-> b, head |-> n]
         /\ selection' = [selection EXCEPT ![t] = r]
      \/ UNCHANGED <<active, selection>>
  BY <1>1 DEF C!AppendReply, C!AutoSelect, C!MaySelect
<1>4. /\ CommitsGrow /\ StoryTyped /\ NamesFit /\ b \in DOMAIN branches /\ h \in DOMAIN commits
      /\ b \in Nat /\ branches \in Seq(Nat) /\ r \in Nat /\ r # 0 /\ t \in DOMAIN turns /\ DOMAIN runs = DOMAIN candidates
  <2>1. CommitsGrow /\ StoryTyped /\ NamesFit
    BY DEF StoryInv
  <2>2. b \in DOMAIN branches /\ h \in DOMAIN commits /\ t \in DOMAIN turns
    BY <1>1, <2>1 DEF NamesFit
  <2>3. b \in Nat /\ branches \in Seq(Nat) /\ r \in Nat /\ r # 0 /\ DOMAIN runs = DOMAIN candidates
    BY <2>1, <2>2, Tables DEF StoryTyped
  <2> QED BY <2>1, <2>2, <2>3
<1>5. /\ active.branch # b /\ base \in C!Messages(h) /\ \A d \in C!Messages(h) : d <= base
      /\ C!CandidateReads(r) /\ candidates[r].commit = 0
  BY <1>1 DEF StoryInv, CandidateFits, OpenFits, EndsWith, C!CandidateReads
<1>6. Landed(n, b, "assistant", r)
  <2>1. "assistant" \in C!Kinds
    BY DEF C!Kinds
  <2> QED BY <1>1, <1>2, <1>4, <2>1, CommitLands
<1>7. /\ Kept /\ n \in Nat /\ n \in DOMAIN commits' /\ DOMAIN commits' = DOMAIN commits \cup {n} /\ n # 0
      /\ commits'[n].branch = b /\ commits'[n].kind = "assistant" /\ commits'[n].of = r
      /\ C!Ancestry'[n] = {n} \cup C!Ancestry[h] /\ C!Messages(n)' = C!Messages(h) \cup {n}
  BY <1>1, <1>6 DEF Landed
<1>8. /\ row \in CandidateRow /\ row.turn = t /\ row.branch = b /\ row.base = base
      /\ row.status = "ready" /\ row.commit = n /\ row.error = candidates[r].error
  BY <1>1, <1>7, Tables DEF CandidateRow, C!Statuses
<1> HIDE DEF row
<1>9. /\ branches' \in Seq(Nat) /\ DOMAIN branches' = DOMAIN branches
      /\ \A a \in DOMAIN branches : branches'[a] = IF a = b THEN n ELSE branches[a]
  BY <1>2, <1>4, <1>7, Put
<1>10. /\ candidates' \in Seq(CandidateRow) /\ Len(candidates') = Len(candidates)
       /\ DOMAIN candidates' = DOMAIN candidates
       /\ \A q \in DOMAIN candidates : candidates'[q] = IF q = r THEN row ELSE candidates[q]
  BY <1>2, <1>4, <1>8, Put DEF StoryTyped
<1>11. /\ active' \in [branch : Nat, head : Nat] /\ active'.branch \in DOMAIN branches
       /\ active'.head \in DOMAIN commits' /\ (active'.branch = b \/ active'.branch = active.branch)
  <2>1. active \in [branch : Nat, head : Nat] /\ active.branch \in DOMAIN branches /\ active.head \in DOMAIN commits
    BY <1>4 DEF StoryTyped, NamesFit
  <2>2. CASE active' = [branch |-> b, head |-> n]
    BY <1>4, <1>7, <2>2
  <2>3. CASE active' = active
    BY <1>7, <2>1, <2>3
  <2> QED BY <1>3, <2>2, <2>3
<1>12. /\ selection' \in Seq(Nat) /\ Len(selection') = Len(selection)
       /\ \A i \in DOMAIN turns : selection'[i] = selection[i] \/ (i = t /\ selection'[i] = r)
  <2>1. selection \in Seq(Nat) /\ DOMAIN selection = DOMAIN turns
    BY <1>4, Tables DEF StoryTyped
  <2>2. CASE selection' = [selection EXCEPT ![t] = r]
    BY <1>4, <2>1, <2>2, Put
  <2>3. CASE selection' = selection
    BY <2>1, <2>3
  <2> QED BY <1>3, <2>2, <2>3
<1>13. StoryTyped'
  BY <1>2, <1>4, <1>9, <1>10, <1>11, <1>12 DEF StoryTyped
<1>14. CandidatesKept /\ TurnsKept
  BY <1>1, <1>2, <1>5, <1>8, <1>10 DEF CandidatesKept, CandidateKept, TurnsKept
<1>15. NamesFit'
  <2>1. \A a \in DOMAIN branches' : branches'[a] \in DOMAIN commits'
    BY <1>4, <1>7, <1>9 DEF NamesFit
  <2>2. \A c \in DOMAIN commits' : c \in DOMAIN commits \/ commits'[c].branch \in DOMAIN branches'
    BY <1>4, <1>7, <1>9
  <2> QED BY <1>2, <1>7, <1>9, <1>10, <1>11, <1>14, <2>1, <2>2, NamesStay
<1>16. C!HeadReads'
  <2>1. CASE active' = [branch |-> b, head |-> n]
    <3>1. CommitsGrow' /\ active'.head = branches'[active'.branch] /\ active'.head \in DOMAIN commits'
      BY <1>4, <1>7, <1>9, <2>1 DEF Kept
    <3> QED BY <3>1, HeadLands
  <2>2. CASE active' = active
    <3>1. branches'[active.branch] = branches[active.branch]
      BY <1>4, <1>5, <1>9 DEF NamesFit
    <3> QED BY <1>4, <1>7, <2>2, <3>1, HeadRests DEF StoryInv
  <2> QED BY <1>3, <2>1, <2>2
<1>17. ASSUME NEW i \in DOMAIN turns PROVE selection'[i] = selection[i] \/ TurnFits(i)'
  <2>1. ASSUME i = t, selection'[i] = r PROVE TurnFits(i)'
    <3>1. turns'[i] = turns[i] /\ turns[i].user \in DOMAIN commits /\ commits[turns[i].user].kind = "user"
      BY <1>2, <1>4 DEF StoryInv, NamesFit, TurnFits
    <3>2. commits'[turns[i].user] = commits[turns[i].user]
      BY <1>7, <3>1 DEF Kept
    <3>3. r \in DOMAIN candidates' /\ candidates'[r].turn = t /\ candidates'[r].status = "ready"
      BY <1>8, <1>10
    <3> QED BY <2>1, <3>1, <3>2, <3>3 DEF TurnFits
  <2> QED BY <1>12, <2>1
<1>18. Follows(n, base)' /\ CommitFits(n)'
  <2>1. Follows(n, base)'
    BY <1>5, <1>7 DEF Follows
  <2>2. candidates'[r].base = base /\ candidates'[r].commit = n /\ r \in DOMAIN candidates'
    BY <1>8, <1>10
  <2>3. Follows(n, candidates[commits[n].of].base)'
    BY <1>7, <2>1, <2>2 DEF Follows
  <2>4. commits'[n].kind # "user"
    BY <1>7
  <2> QED BY <1>7, <2>1, <2>2, <2>3, <2>4 DEF CommitFits
<1>19. ASSUME NEW q \in DOMAIN candidates' PROVE CandidateFits(q)'
  <2>1. PICK a : a = candidates[q].branch
    OBVIOUS
  <2>2. q \in DOMAIN candidates /\ CandidateFits(q) /\ a \in DOMAIN branches /\ branches[a] \in DOMAIN commits
    BY <1>4, <1>10, <2>1 DEF StoryInv, NamesFit
  <2>3. CASE q # r
    <3>1. a # b
      BY <1>1, <1>4, <2>1, <2>2, <2>3 DEF NamesFit
    <3>2. GoesOnSilently(a) /\ GoesOn(a)
      <4>1. GoesOnSilently(a)
        BY <1>7, <1>9, <2>2, <3>1, BranchRests
      <4> QED BY <4>1 DEF GoesOnSilently
    <3>3. candidates[q].status # "ready" => active'.branch # a
      BY <1>11, <2>1, <2>2, <3>1 DEF CandidateFits, OpenFits
    <3>4. candidates'[q] = candidates[q] /\ runs'[q] = runs[q]
      BY <1>2, <1>10, <2>2, <2>3
    <3> QED BY <1>4, <1>7, <1>14, <2>1, <2>2, <3>2, <3>3, <3>4, CandidateKeeps
  <2>4. CASE q = r
    <3>1. candidates'[r] = row /\ runs'[r] = runs[r] /\ turns' = turns /\ branches'[b] = n
      BY <1>2, <1>4, <1>9, <1>10
    <3>2. C!CandidateReads(r)'
      BY <1>1, <1>5, <1>7, <1>8, <3>1 DEF C!CandidateReads, C!Unready
    <3>3. runs[r].output \in C!Ancestry'[n] /\ n \in C!Ancestry'[n]
      BY <1>1, <1>7 DEF C!Reaches
    <3>4. ReadyFits(r)'
      BY <1>7, <1>8, <3>1, <3>3 DEF ReadyFits, C!Reaches
    <3> QED BY <1>8, <2>4, <3>1, <3>2, <3>4 DEF CandidateFits
  <2> QED BY <2>3, <2>4
<1>20. C!GoesBackBySelection
  <2>1. CASE active.head = base /\ active' = [branch |-> b, head |-> n]
    <3>1. base \in DOMAIN commits /\ base \in C!Ancestry[h]
      BY <1>4, <2>1, <1>5 DEF NamesFit, C!Messages
    <3>2. C!Reaches(active.head, base)'
      BY <1>7, <2>1, <3>1 DEF C!Reaches
    <3> QED BY <2>1, <3>1, <3>2 DEF C!GoesBackBySelection
  <2> QED BY <1>3, <2>1 DEF C!GoesBackBySelection
<1>21. StoryInv'
  <2>1. \A c \in DOMAIN commits' : c \in DOMAIN commits \/ CommitFits(c)'
    BY <1>7, <1>18
  <2> QED BY <1>2, <1>7, <1>13, <1>14, <1>15, <1>16, <1>17, <1>19, <2>1, StoryGoesOn
<1> QED BY <1>20, <1>21

\* The user selects a candidate (selection.rs).
LEMMA SelectAdvances ==
  ASSUME StoryInv, NEW r \in DOMAIN candidates, NEW expected, C!Select(r, expected)
  PROVE  StoryInv' /\ C!GoesBackBySelection
<1>1. PICK c, b, t, f : /\ c = candidates[r].commit /\ b = candidates[r].branch /\ t = candidates[r].turn
                        /\ f = Len(branches) + 1
  OBVIOUS
<1>2. /\ candidates[r].status = "ready" /\ selection' = [selection EXCEPT ![t] = r]
      /\ UNCHANGED <<commits, turns, candidates, runs, jobs>>
      /\ \/ branches[b] # c /\ branches' = Append(branches, c) /\ active' = [branch |-> f, head |-> c]
         \/ branches[b] = c /\ branches' = branches /\ active' = [branch |-> b, head |-> c]
  BY <1>1 DEF C!Select, C!Selectable, C!NewBranch
<1>3. /\ CommitsGrow /\ StoryTyped /\ NamesFit /\ b \in DOMAIN branches /\ c \in DOMAIN commits /\ c \in Nat
      /\ branches \in Seq(Nat) /\ t \in DOMAIN turns /\ r \in Nat
  <2>1. CommitsGrow /\ StoryTyped /\ NamesFit /\ ReadyFits(r)
    BY <1>2 DEF StoryInv, CandidateFits
  <2>2. c \in DOMAIN commits /\ b \in DOMAIN branches /\ t \in DOMAIN turns
    BY <1>1, <2>1 DEF NamesFit, ReadyFits
  <2>3. r \in Nat /\ c \in Nat /\ branches \in Seq(Nat)
    BY <2>1, <2>2, Tables DEF StoryTyped
  <2> QED BY <2>1, <2>2, <2>3
<1>4. Kept /\ CommitsGrow'
  BY <1>2, <1>3, KeepsAll DEF Kept
<1>5. /\ branches' \in Seq(Nat) /\ f \notin DOMAIN branches
      /\ \A a \in DOMAIN branches : a \in DOMAIN branches' /\ branches'[a] = branches[a]
      /\ \A a \in DOMAIN branches' : a \in DOMAIN branches \/ branches'[a] = c
      /\ active'.branch \in DOMAIN branches' /\ active'.head = c /\ branches'[active'.branch] = c
      /\ active'.branch = f \/ active'.branch = b
      /\ active' \in [branch : Nat, head : Nat]
  <2>1. CASE branches' = Append(branches, c) /\ active' = [branch |-> f, head |-> c]
    <3>1. /\ branches' \in Seq(Nat) /\ DOMAIN branches' = 1..(Len(branches) + 1)
          /\ branches'[Len(branches) + 1] = c
          /\ \A a \in DOMAIN branches : branches'[a] = branches[a]
      BY <1>3, <2>1, Appended
    <3>2. DOMAIN branches = 1..Len(branches) /\ Len(branches) \in Nat
      BY Tables
    <3> QED BY <1>1, <2>1, <3>1, <3>2, <1>3
  <2>2. CASE branches[b] = c /\ branches' = branches /\ active' = [branch |-> b, head |-> c]
    <3>1. DOMAIN branches = 1..Len(branches) /\ Len(branches) \in Nat
      BY Tables
    <3> QED BY <1>1, <1>3, <2>2, <3>1
  <2> QED BY <1>2, <2>1, <2>2
<1>6. /\ selection' \in Seq(Nat) /\ Len(selection') = Len(selection) /\ selection'[t] = r
      /\ \A i \in DOMAIN turns : i # t => selection'[i] = selection[i]
  <2>1. selection \in Seq(Nat) /\ DOMAIN selection = DOMAIN turns
    BY <1>3, Tables DEF StoryTyped
  <2> QED BY <1>2, <1>3, <2>1, Put
<1>7. StoryTyped' /\ CandidatesKept /\ TurnsKept
  BY <1>2, <1>3, <1>5, <1>6 DEF StoryTyped, CandidatesKept, CandidateKept, TurnsKept
<1>8. NamesFit'
  <2>1. /\ \A a \in DOMAIN branches' : branches'[a] \in DOMAIN commits'
        /\ active'.head \in DOMAIN commits'
    BY <1>2, <1>3, <1>5 DEF NamesFit
  <2> QED BY <1>2, <1>4, <1>5, <1>7, <2>1, NamesStay
<1>9. C!HeadReads'
  BY <1>2, <1>3, <1>4, <1>5, HeadLands
<1>10. TurnFits(t)'
  <2>1. TurnFits(t)
    BY <1>3 DEF StoryInv
  <2> QED BY <1>1, <1>2, <1>6, <2>1 DEF TurnFits
<1>11. ASSUME NEW q \in DOMAIN candidates' PROVE CandidateFits(q)'
  <2>1. PICK a : a = candidates[q].branch
    OBVIOUS
  <2>2. q \in DOMAIN candidates /\ CandidateFits(q) /\ a \in DOMAIN branches /\ branches[a] \in DOMAIN commits
    BY <1>2, <1>3, <2>1 DEF StoryInv, NamesFit
  <2>3. GoesOnSilently(a) /\ GoesOn(a)
    <3>1. GoesOnSilently(a)
      BY <1>4, <1>5, <2>2, BranchRests
    <3> QED BY <3>1 DEF GoesOnSilently
  <2>4. candidates[q].status # "ready" => active'.branch # a
    <3>1. q # r => a # b
      BY <1>1, <1>3, <2>1, <2>2 DEF NamesFit
    <3> QED BY <1>2, <1>5, <2>2, <3>1
  <2> QED BY <1>2, <1>3, <1>4, <1>7, <2>1, <2>2, <2>3, <2>4, CandidateKeeps
<1>12. StoryInv'
  BY <1>2, <1>4, <1>6, <1>7, <1>8, <1>9, <1>10, <1>11, StoryGoesOn
<1>13. C!GoesBackBySelection
  BY <1>1, <1>2, <1>5, <1>6 DEF C!GoesBackBySelection
<1> QED BY <1>12, <1>13
\* What the projector does to one candidate (complete.rs, append.rs).
LEMMA ProjectAdvances ==
  ASSUME StoryInv, NEW r \in DOMAIN runs, C!Project(r)
  PROVE  StoryInv' /\ C!GoesBackBySelection
<1>1. /\ r \in DOMAIN candidates /\ candidates[r] \in CandidateRow /\ jobs \in Seq(C!JobStatuses)
      /\ r \in DOMAIN jobs
  BY Tables DEF StoryInv, StoryTyped
<1>2. C!Due(r) /\ candidates[r].status = "running"
  BY DEF C!Project, C!ProjectEnded, C!ProjectConflict, C!ProjectFailure, C!ProjectReady, C!Due
<1>3. ASSUME NEW s \in {"failed", "cancelled"} \cup C!Unready, NEW job \in C!JobStatuses, NEW error \in BOOLEAN,
             C!Outcome(r, s, job, error), s \in C!Unready <=> error,
             s \in C!Unready => runs[r].status = "completed", s \notin C!Unready => runs[r].status = s
      PROVE  StoryInv' /\ C!GoesBackBySelection
  <2> DEFINE row == [candidates[r] EXCEPT !.status = s, !.error = error]
  <2>1. /\ candidates' = [candidates EXCEPT ![r] = row] /\ jobs' = [jobs EXCEPT ![r] = job]
        /\ UNCHANGED <<commits, branches, active, turns, selection, runs>>
    BY <1>3 DEF C!Outcome
  <2>2. s \in C!Statuses /\ s # "ready" /\ "failed" \notin C!Unready /\ "cancelled" \notin C!Unready
    BY <1>3 DEF C!Statuses, C!Unready
  <2>3. /\ row \in CandidateRow /\ row.turn = candidates[r].turn /\ row.branch = candidates[r].branch
        /\ row.base = candidates[r].base /\ row.commit = candidates[r].commit
        /\ row.status = s /\ (row.error <=> error)
    BY <1>1, <2>2 DEF CandidateRow
  <2> HIDE DEF row
  <2> QED BY <1>1, <1>2, <1>3, <2>1, <2>2, <2>3, SettleAdvances
<1>4. CASE C!ProjectEnded(r)
  <2>1. PICK s : s = runs[r].status
    OBVIOUS
  <2>2. s \in {"failed", "cancelled"} /\ C!Outcome(r, s, "done", FALSE)
    BY <1>4, <2>1 DEF C!ProjectEnded
  <2>3. "done" \in C!JobStatuses /\ s \notin C!Unready
    BY <2>2 DEF C!JobStatuses, C!Unready
  <2> QED BY <1>3, <2>1, <2>2, <2>3
<1>5. CASE C!ProjectConflict(r)
  <2>1. "conflicted" \in C!JobStatuses /\ "projection_conflicted" \in C!Unready
    BY DEF C!JobStatuses, C!Unready
  <2> QED BY <1>3, <1>5, <2>1 DEF C!ProjectConflict
<1>6. CASE C!ProjectFailure(r)
  <2>1. "failed" \in C!JobStatuses /\ "projection_failed" \in C!Unready
    BY DEF C!JobStatuses, C!Unready
  <2> QED BY <1>3, <1>6, <2>1 DEF C!ProjectFailure
<1>7. CASE C!ProjectReady(r)
  <2>1. jobs' = [jobs EXCEPT ![r] = "done"] /\ "done" \in C!JobStatuses /\ C!AppendReply(r)
        /\ runs[r].status = "completed" /\ ~C!HeadMoved(r)
    BY <1>7 DEF C!ProjectReady, C!JobStatuses
  <2>2. jobs' \in Seq(C!JobStatuses) /\ Len(jobs') = Len(jobs)
    BY <1>1, <2>1, Put
  <2>3. C!Reaches(branches[candidates[r].branch], runs[r].output)
    <3>1. branches[candidates[r].branch] = runs[r].output
      BY <2>1 DEF C!HeadMoved
    <3>2. branches[candidates[r].branch] \in DOMAIN commits /\ CommitsGrow
      BY <1>1 DEF StoryInv, NamesFit
    <3> QED BY <3>1, <3>2, AncestryGoesOn DEF C!Reaches
  <2> QED BY <1>1, <1>2, <2>1, <2>2, <2>3, ReplyAdvances
<1> QED BY <1>4, <1>5, <1>6, <1>7 DEF C!Project

\* The user settles a conflict (projection_resolution.rs).
LEMMA ResolveAdvances ==
  ASSUME StoryInv, NEW r \in DOMAIN runs, NEW expected,
         C!ResolveAppend(r, expected) \/ C!ResolveAbandon(r, expected)
  PROVE  StoryInv' /\ C!GoesBackBySelection
<1>1. /\ r \in DOMAIN candidates /\ candidates[r] \in CandidateRow /\ jobs \in Seq(C!JobStatuses)
      /\ candidates[r].status = "projection_conflicted"
      /\ branches[candidates[r].branch] = expected
  BY Tables DEF StoryInv, StoryTyped, C!ResolveAppend, C!ResolveAbandon, C!Conflicted
<1>2. candidates[r].error /\ runs[r].status = "completed"
  BY <1>1 DEF StoryInv, CandidateFits, C!CandidateReads, C!Unready
<1>3. CASE C!ResolveAppend(r, expected)
  <2>1. C!AppendReply(r) /\ jobs' = jobs /\ C!Reaches(branches[candidates[r].branch], runs[r].output)
    BY <1>1, <1>3 DEF C!ResolveAppend
  <2> QED BY <1>1, <1>2, <2>1, ReplyAdvances
<1>4. CASE C!ResolveAbandon(r, expected)
  <2> DEFINE row == [candidates[r] EXCEPT !.status = "projection_abandoned"]
  <2>1. /\ candidates' = [candidates EXCEPT ![r] = row] /\ jobs' = jobs
        /\ UNCHANGED <<commits, branches, active, turns, selection, runs>>
    BY <1>4 DEF C!ResolveAbandon
  <2>2. "projection_abandoned" \in C!Unready /\ "none" \in C!JobStatuses
    BY DEF C!Unready, C!JobStatuses
  <2>3. /\ row \in CandidateRow /\ row.turn = candidates[r].turn /\ row.branch = candidates[r].branch
        /\ row.base = candidates[r].base /\ row.commit = candidates[r].commit
        /\ row.status = "projection_abandoned" /\ row.error = candidates[r].error
    BY <1>1 DEF CandidateRow, C!Statuses, C!Unready
  <2> HIDE DEF row
  <2>4. row.error /\ row.status # "ready" /\ row.status \notin {"failed", "cancelled"}
    BY <1>2, <2>3
  <2> QED BY <1>1, <1>2, <2>1, <2>2, <2>3, <2>4, SettleAdvances
<1> QED BY <1>3, <1>4

-----------------------------------------------------------------------------
(* Every behaviour of a conversation.                                       *)
\* It begins with its root commit.
LEMMA StoryBegins ==
  ASSUME C!Init
  PROVE  StoryInv
<1>1. /\ commits = <<[parent |-> 0, branch |-> 1, kind |-> "root", of |-> 0]>> /\ branches = <<1>>
      /\ active = [branch |-> 1, head |-> 1] /\ turns = <<>> /\ selection = <<>> /\ candidates = <<>>
      /\ runs = <<>> /\ jobs = <<>>
  BY DEF C!Init
<1>2. /\ DOMAIN commits = {1} /\ commits[1].parent = 0 /\ commits[1].kind = "root" /\ commits[1].branch = 1
      /\ commits \in Seq(CommitRow)
  <2>1. [parent |-> 0, branch |-> 1, kind |-> "root", of |-> 0] \in CommitRow
    BY DEF CommitRow, C!Kinds
  <2> QED BY <1>1, <2>1
<1>3. DOMAIN branches = {1} /\ branches[1] = 1 /\ branches \in Seq(Nat)
  BY <1>1
<1>4. DOMAIN turns = {} /\ DOMAIN candidates = {}
  BY <1>1
<1>5. CommitsGrow
  BY <1>2 DEF CommitsGrow
<1>6. StoryTyped
  BY <1>1, <1>3 DEF StoryTyped
<1>7. NamesFit
  BY <1>1, <1>2, <1>3, <1>4 DEF NamesFit
<1>8. C!HeadReads
  BY <1>1, <1>2, <1>3, <1>5, AncestryGoesOn DEF C!HeadReads, C!Reaches
<1>9. C!RequestsRunOnce
  BY <1>4 DEF C!RequestsRunOnce
<1>10. \A c \in DOMAIN commits : CommitFits(c)
  BY <1>2 DEF CommitFits
<1> QED BY <1>4, <1>5, <1>6, <1>7, <1>8, <1>9, <1>10 DEF StoryInv

\* Every command, every run and every pass of the projector keeps the invariant, and takes
\* nothing off what is shown unless it is a selection.
LEMMA StoryAdvances ==
  ASSUME StoryInv, C!Next
  PROVE  StoryInv' /\ C!GoesBackBySelection
<1>1. /\ DOMAIN runs = DOMAIN candidates /\ Len(turns) \in Nat
      /\ \A r \in DOMAIN candidates : r \in Nat /\ candidates[r].branch \in DOMAIN branches
  <2>1. NamesFit
    BY DEF StoryInv
  <2> QED BY <2>1, Tables DEF NamesFit
<1>2. CASE C!User
  <2>1. ASSUME NEW k \in 1..(Len(turns) + 1), NEW h, C!Submit(k, h) PROVE StoryInv' /\ C!GoesBackBySelection
    <3>1. k \in Nat
      BY <1>1
    <3> QED BY <2>1, <3>1, SubmitAdvances
  <2>2. ASSUME NEW t \in DOMAIN turns, C!Regenerate(t) PROVE StoryInv' /\ C!GoesBackBySelection
    BY <2>2, RegenerateAdvances
  <2>3. ASSUME NEW r \in DOMAIN runs, NEW h, C!Select(r, h) PROVE StoryInv' /\ C!GoesBackBySelection
    BY <1>1, <2>3, SelectAdvances
  <2>4. ASSUME NEW r \in DOMAIN runs, NEW h, C!ResolveAppend(r, h) \/ C!ResolveAbandon(r, h)
        PROVE  StoryInv' /\ C!GoesBackBySelection
    BY <2>4, ResolveAdvances
  <2> QED BY <1>2, <2>1, <2>2, <2>3, <2>4 DEF C!User
<1>3. CASE C!Runs
  <2>1. ASSUME NEW r \in DOMAIN runs, C!RunCommits(r) PROVE StoryInv' /\ C!GoesBackBySelection
    <3>1. PICK b : b = candidates[r].branch
      OBVIOUS
    <3>2. /\ C!Committed(b, "run", r) /\ branches' = [branches EXCEPT ![b] = C!NewCommit]
          /\ UNCHANGED <<active, turns, selection, candidates, runs, jobs>>
          /\ runs[r].status = "running"
      BY <2>1, <3>1 DEF C!RunCommits
    <3>3. b # active.branch
      BY <1>1, <2>1, <3>1, <3>2, RunningIsOpen DEF OpenFits
    <3> QED BY <1>1, <2>1, <3>1, <3>2, <3>3, QuietCommitAdvances
  <2>2. ASSUME NEW r \in DOMAIN runs, NEW s \in C!Terminal, NEW reply \in {"none", "valid", "invalid"},
               C!RunEnds(r, s, reply)
        PROVE  StoryInv' /\ C!GoesBackBySelection
    BY <2>2, RunEndAdvances
  <2>3. {"completed", "failed", "cancelled"} \subseteq C!Terminal
    BY DEF C!Terminal
  <2> QED BY <1>3, <2>1, <2>2, <2>3 DEF C!Runs
<1>4. CASE C!Projector
  BY <1>4, ReconcileAdvances, ProjectAdvances DEF C!Projector
<1>5. ASSUME NEW b \in DOMAIN branches, C!ContextCommit(b) PROVE StoryInv' /\ C!GoesBackBySelection
  <2>1. /\ C!Committed(b, "context", 0) /\ branches' = [branches EXCEPT ![b] = C!NewCommit]
        /\ UNCHANGED <<active, turns, selection, candidates, runs, jobs>>
    BY <1>5 DEF C!ContextCommit
  <2> QED BY <2>1, QuietCommitAdvances
<1> QED BY <1>2, <1>3, <1>4, <1>5 DEF C!Next

\* Without a step it is as it was.
LEMMA StoryRests ==
  ASSUME StoryInv, UNCHANGED story
  PROVE  StoryInv' /\ C!GoesBackBySelection
<1>1. Kept /\ C!Ancestry' = C!Ancestry /\ commits' = commits /\ branches' = branches /\ active' = active
      /\ turns' = turns /\ selection' = selection /\ candidates' = candidates /\ runs' = runs /\ jobs' = jobs
  BY KeepsAll DEF StoryInv, story
<1>2. /\ candidates \in Seq(CandidateRow) /\ runs \in Seq(RunRow) /\ jobs \in Seq(C!JobStatuses)
      /\ Len(runs) = Len(candidates) /\ Len(jobs) = Len(candidates)
  BY DEF StoryInv, StoryTyped
<1>3. CandidatesKept /\ \A r \in DOMAIN candidates : C!CandidateReads(r)'
  BY <1>1 DEF StoryInv, CandidateFits, C!CandidateReads, CandidatesKept, CandidateKept
<1> QED BY <1>1, <1>2, <1>3, TablesMove

\* Where the invariant holds the story can be read.
LEMMA StoryServes ==
  ASSUME StoryInv
  PROVE  C!TypeOK /\ C!StoryReads /\ C!RepliesFollowTheirTurn /\ C!RequestsRunOnce
<1>1. CommitsGrow /\ StoryTyped /\ NamesFit
  BY DEF StoryInv
<1>2. C!TypeOK
  <2>1. \A c \in DOMAIN commits : commits[c].kind \in C!Kinds /\ commits[c].parent \in 0..(c - 1)
    <3>1. ASSUME NEW c \in DOMAIN commits PROVE commits[c].kind \in C!Kinds /\ commits[c].parent \in 0..(c - 1)
      <4>1. c \in Nat /\ c > 0 /\ commits[c] \in CommitRow
        BY <1>1, CommitsAreNumbers
      <4>2. IF c = 1 THEN commits[c].parent = 0 ELSE commits[c].parent \in 1..(c - 1)
        BY <1>1 DEF CommitsGrow
      <4>3. commits[c].kind \in C!Kinds
        BY <4>1 DEF CommitRow
      <4> QED BY <4>1, <4>2, <4>3
    <3> QED BY <3>1
  <2>2. \A r \in DOMAIN candidates : candidates[r].status \in C!Statuses /\ jobs[r] \in C!JobStatuses
    BY Tables DEF CandidateRow
  <2> QED BY <1>1, <2>1, <2>2 DEF C!TypeOK, NamesFit, StoryTyped
<1>3. C!TurnsRead
  <2>1. \A c \in C!Messages(active.head) : c \in DOMAIN commits
    BY <1>1, AncestryIsBefore DEF NamesFit, C!Messages
  <2>2. \A c \in DOMAIN commits : commits[c].kind = "user" => turns[commits[c].of].user = c
    BY DEF StoryInv, CommitFits
  <2> QED BY <2>1, <2>2 DEF C!TurnsRead
<1>4. C!SelectionsRead
  BY DEF StoryInv, TurnFits, C!SelectionsRead
<1>5. ASSUME NEW r \in DOMAIN candidates, candidates[r].status = "ready"
      PROVE  /\ C!Reaches(candidates[r].commit, runs[r].output)
             /\ C!Reaches(branches[candidates[r].branch], candidates[r].commit)
             /\ {d \in DOMAIN commits : commits[d].kind = "assistant" /\ commits[d].of = r}
                  = {candidates[r].commit}
  <2>1. ReadyFits(r)
    BY <1>5 DEF StoryInv, CandidateFits
  <2>2. \A d \in DOMAIN commits : commits[d].kind = "assistant" /\ commits[d].of = r => d = candidates[r].commit
    BY DEF StoryInv, CommitFits
  <2> QED BY <2>1, <2>2 DEF ReadyFits
<1>6. \A r \in DOMAIN candidates : C!CandidateReads(r)
  BY DEF StoryInv, CandidateFits
<1>7. C!StoryReads
  BY <1>3, <1>4, <1>5, <1>6 DEF C!StoryReads, StoryInv
<1>8. C!RepliesFollowTheirTurn
  <2>1. ASSUME NEW b \in DOMAIN branches, NEW c \in C!Messages(branches[b]), commits[c].kind = "assistant"
        PROVE  Follows(c, candidates[commits[c].of].base)
    <3>1. c \in DOMAIN commits
      BY <1>1, AncestryIsBefore DEF NamesFit, C!Messages
    <3> QED BY <2>1, <3>1 DEF StoryInv, CommitFits
  <2> QED BY <2>1 DEF C!RepliesFollowTheirTurn, Follows
<1> QED BY <1>2, <1>7, <1>8 DEF StoryInv

-----------------------------------------------------------------------------
(* The theorems.                                                            *)
PromisesInv == which = "story" => StoryInv

\* What a behaviour is about does not change, and the graph leaves the story alone.
LEMMA PromisesAdvance ==
  PromisesInv /\ [Next]_vars => PromisesInv' /\ (which = "story" => C!GoesBackBySelection)
<1> SUFFICES ASSUME PromisesInv, [Next]_vars
             PROVE  PromisesInv' /\ (which = "story" => C!GoesBackBySelection)
  OBVIOUS
<1>1. CASE which = "story" /\ C!Next /\ UNCHANGED <<which, graph>>
  BY <1>1, StoryAdvances DEF PromisesInv
<1>2. CASE which = "graph" /\ R!Next /\ UNCHANGED <<which, story>>
  BY <1>2 DEF PromisesInv
<1>3. CASE UNCHANGED vars
  BY <1>3, StoryRests DEF PromisesInv, vars
<1> QED BY <1>1, <1>2, <1>3 DEF Next

\* Every behaviour of a conversation keeps the invariant.
THEOREM StoryHolds == Spec => []PromisesInv
<1>1. Init => PromisesInv
  BY StoryBegins DEF Init, PromisesInv
<1> QED BY <1>1, PromisesAdvance, PTL DEF Spec

\* For any number of turns, candidates, forks and writers: no order of submissions,
\* regenerations, selections, resolutions, runs and other commits makes the story unreadable,
\* puts a reply after another message than its turn's, or makes a request twice.
THEOREM StoriesAreSound == Spec => []StoryIsSound
<1>1. PromisesInv => StoryIsSound
  BY StoryServes DEF PromisesInv, StoryIsSound
<1> QED BY <1>1, StoryHolds, PTL

\* The projector never takes a message off what is shown, however late its reply comes.
THEOREM HeadsGoBackBySelection == Spec => OnlySelectionsGoBack
<1>1. PromisesInv /\ [Next]_vars => [which = "story" => C!GoesBackBySelection]_vars
  BY PromisesAdvance
<1> QED BY <1>1, StoryHolds, PTL DEF Spec, OnlySelectionsGoBack
=============================================================================
