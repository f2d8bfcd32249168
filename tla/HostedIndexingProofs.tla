------------------------- MODULE HostedIndexingProofs -------------------------
(***************************************************************************)
(* Theorems about HostedIndexing, for every set of commits, every limit and *)
(* any number of faults.                                                    *)
(***************************************************************************)
EXTENDS HostedIndexing, FiniteSetTheorems, TLAPS

(***************************************************************************)
(* What the two state functions return: types, and the fact that what a     *)
(* reservation returns for dispatch is what it records as queued.           *)
(***************************************************************************)
\* The commit and attempt of a reservation, as the saved state records them.
PairOf(r) == <<r.candidate.sha, r.attempt>>

\* A state without entries is a state.
LEMMA EmptyStateType == ASSUME NEW t \in Nat PROVE emptyState(t) \in States
  BY DEF emptyState, States

\* Looking a listed commit up finds a candidate of that commit.
LEMMA CandidateOfListed ==
  ASSUME NEW list, IsListing(list), NEW sha \in Listed(list)
  PROVE  /\ CandidateOf(list, sha) \in Candidates
         /\ CandidateOf(list, sha).sha = sha
         /\ sha \in Shas
  <1>1. PICK i \in DOMAIN list : list[i].sha = sha
    BY DEF Listed
  <1>2. /\ PositionOf(list, sha) \in DOMAIN list
        /\ list[PositionOf(list, sha)].sha = sha
    BY <1>1 DEF PositionOf
  <1>3. list \in Seq(Candidates)
    BY DEF IsListing
  <1>4. list[PositionOf(list, sha)] \in Candidates
    BY <1>2, <1>3
  <1> QED BY <1>2, <1>4 DEF CandidateOf, Candidates

\* Attempts are numbered from 1.
LEMMA NextAttemptType ==
  ASSUME NEW state \in States, NEW reset, NEW sha \in Shas
  PROVE  NextAttempt(state, reset, sha) \in Nat \ {0}
  <1>1. state.entries[sha] \in Entries \cup {NoEntry}
    BY DEF States
  <1>2. CASE state.entries[sha] = NoEntry
    BY <1>2 DEF NextAttempt
  <1>3. CASE state.entries[sha] # NoEntry
    <2>1. state.entries[sha].attempts \in Nat \ {0}
      BY <1>1, <1>3 DEF Entries
    <2> QED BY <2>1, <1>3 DEF NextAttempt
  <1> QED BY <1>2, <1>3

\* A queued entry is an entry, so it is never mistaken for none.
LEMMA QueuedEntryType ==
  ASSUME NEW candidate \in Candidates, NEW attempt \in Nat \ {0}, NEW t \in Nat
  PROVE  /\ QueuedEntry(candidate, attempt, t) \in Entries
         /\ QueuedEntry(candidate, attempt, t) # NoEntry
         /\ QueuedEntry(candidate, attempt, t).status = "queued"
         /\ QueuedEntry(candidate, attempt, t).attempts = attempt
  BY IndexStateAssumption DEF QueuedEntry, Entries, Statuses, Layouts

\* A chosen commit is a listed one.
LEMMA ChosenListed ==
  ASSUME NEW list, NEW reset, NEW state, NEW t
  PROVE  Chosen(list, reset, state, t) \subseteq Listed(list)
  BY DEF Chosen

\* Reserving turns a state into a state.
LEMMA ReserveType ==
  ASSUME NEW list, IsListing(list), NEW reset, NEW state \in States,
         NEW t \in Nat
  PROVE  reserveCandidates(list, reset, state, t) \in States
  <1>1. ASSUME NEW sha \in Shas
        PROVE  ReservedEntry(list, reset, state, t, sha) \in Entries \cup {NoEntry}
    <2>1. CASE sha \in Chosen(list, reset, state, t)
      <3>1. CandidateOf(list, sha) \in Candidates
        BY <2>1, ChosenListed, CandidateOfListed
      <3> QED BY <2>1, <3>1, NextAttemptType, QueuedEntryType DEF ReservedEntry
    <2>2. CASE sha \notin Chosen(list, reset, state, t)
      <3>1. CASE sha \notin Listed(list) \/ Existing(state, reset, sha) = NoEntry
        BY <2>2, <3>1 DEF ReservedEntry
      <3>2. CASE sha \in Listed(list) /\ Existing(state, reset, sha) # NoEntry
        <4>1. Existing(state, reset, sha) \in Entries
          BY <3>2 DEF Existing, States
        <4>2. CandidateOf(list, sha) \in Candidates
          BY <3>2, CandidateOfListed
        <4>3. [Existing(state, reset, sha) EXCEPT !.candidate = CandidateOf(list, sha)]
                \in Entries
          BY <4>1, <4>2 DEF Entries
        <4> QED BY <2>2, <3>2, <4>3 DEF ReservedEntry
      <3> QED BY <3>1, <3>2
    <2> QED BY <2>1, <2>2
  <1> QED BY <1>1 DEF reserveCandidates, States

\* What is returned for dispatch has the type of a reservation.
LEMMA SelectedType ==
  ASSUME NEW list, IsListing(list), NEW reset, NEW state \in States, NEW t
  PROVE  Selected(list, reset, state, t) \subseteq Reservation
  BY ChosenListed, CandidateOfListed, NextAttemptType DEF Selected, Reservation

\* What is returned for dispatch is recorded as queued, with that attempt.
LEMMA SelectedQueued ==
  ASSUME NEW list, IsListing(list), NEW reset, NEW state \in States,
         NEW t \in Nat, NEW r \in Selected(list, reset, state, t)
  PROVE  PairOf(r) \in QueuedAttempts(reserveCandidates(list, reset, state, t))
  <1>1. PICK sha \in Chosen(list, reset, state, t) :
           r = [candidate |-> CandidateOf(list, sha),
                attempt   |-> NextAttempt(state, reset, sha)]
    BY DEF Selected
  <1>2. /\ CandidateOf(list, sha) \in Candidates
        /\ CandidateOf(list, sha).sha = sha
        /\ sha \in Shas
    BY <1>1, ChosenListed, CandidateOfListed
  <1>3. NextAttempt(state, reset, sha) \in Nat \ {0}
    BY <1>2, NextAttemptType
  <1>4. PairOf(r) = <<sha, NextAttempt(state, reset, sha)>>
    BY <1>1, <1>2 DEF PairOf
  <1> DEFINE after == reserveCandidates(list, reset, state, t)
             queued == QueuedEntry(CandidateOf(list, sha),
                                   NextAttempt(state, reset, sha), t)
  <1>5. after.entries[sha] = queued
    <2>1. ReserveChanges(list, reset, state, t)
      BY <1>1 DEF ReserveChanges
    <2>2. after.entries[sha] = ReservedEntry(list, reset, state, t, sha)
      BY <2>1, <1>2 DEF reserveCandidates
    <2> QED BY <2>2, <1>1 DEF ReservedEntry
  <1>6. queued # NoEntry /\ queued.status = "queued"
          /\ queued.attempts = NextAttempt(state, reset, sha)
    BY <1>2, <1>3, QueuedEntryType
  <1>7. <<sha, after.entries[sha].attempts>> \in QueuedAttempts(after)
    BY <1>2, <1>5, <1>6 DEF QueuedAttempts
  <1> QED BY <1>4, <1>5, <1>6, <1>7

\* Recording a result turns a state into a state.
LEMMA CompleteType ==
  ASSUME NEW state \in States, NEW candidate \in Candidates,
         NEW attempt \in Nat \ {0}, NEW conclusion \in Conclusions, NEW t \in Nat
  PROVE  completeCandidate(state, candidate, attempt, conclusion, t) \in States
  <1> DEFINE e == state.entries[candidate.sha]
  <1>1. candidate.sha \in Shas
    BY DEF Candidates
  <1>2. e \in Entries \cup {NoEntry}
    BY <1>1 DEF States
  <1>3. e # NoEntry => e.attempts \in Nat \ {0}
    BY <1>2 DEF Entries
  <1>4. t + Retention \in Nat
    BY IndexStateAssumption
  <1>5. CompletedEntry(e, candidate, attempt, conclusion, t) \in Entries
    BY <1>3, <1>4 DEF CompletedEntry, Entries, Statuses, Layouts
  <1> QED BY <1>1, <1>5 DEF completeCandidate, States

\* Parsing a state gives a state with the same attempts queued.
LEMMA ParseType ==
  ASSUME NEW state \in States
  PROVE  parseState(state) \in States
  <1>1. ASSUME NEW sha \in Shas
        PROVE  ParseEntry(state.entries[sha]) \in Entries \cup {NoEntry}
    BY DEF ParseEntry, States, Entries, Layouts
  <1> QED BY <1>1 DEF parseState, States

LEMMA ParseQueued ==
  ASSUME NEW state \in States
  PROVE  QueuedAttempts(parseState(state)) = QueuedAttempts(state)
  <1>1. ASSUME NEW sha \in Shas
        PROVE  /\ (parseState(state).entries[sha] = NoEntry)
                    <=> (state.entries[sha] = NoEntry)
               /\ state.entries[sha] # NoEntry =>
                    /\ parseState(state).entries[sha].status
                         = state.entries[sha].status
                    /\ parseState(state).entries[sha].attempts
                         = state.entries[sha].attempts
    <2>1. parseState(state).entries[sha] = ParseEntry(state.entries[sha])
      BY DEF parseState, States
    <2>2. CASE state.entries[sha] = NoEntry
      BY <2>1, <2>2 DEF ParseEntry
    <2>3. CASE state.entries[sha] # NoEntry
      <3>1. state.entries[sha] \in Entries
        BY <2>3 DEF States
      <3>2. [state.entries[sha] EXCEPT !.layout = "parsed"] \in Entries
        BY <3>1 DEF Entries, Layouts
      <3>3. [state.entries[sha] EXCEPT !.layout = "parsed"] # NoEntry
        BY <3>2, IndexStateAssumption
      <3> QED BY <2>1, <2>3, <3>1, <3>3 DEF ParseEntry, Entries
    <2> QED BY <2>2, <2>3
  <1> QED BY <1>1 DEF QueuedAttempts

-----------------------------------------------------------------------------
(***************************************************************************)
(* What becomes of the entry of each commit.                                *)
(***************************************************************************)
\* The entry says the same of the commit; only its candidate may differ.
SameEntry(f, e) ==
    /\ f # NoEntry /\ e # NoEntry
    /\ f.status = e.status /\ f.attempts = e.attempts
    /\ f.artifactExpiresAt = e.artifactExpiresAt /\ f.layout = e.layout

\* A reservation counts on from the entry, unless that is a success.
LEMMA NextAttemptIs ==
  ASSUME NEW state, NEW reset, NEW sha, state.entries[sha] # NoEntry,
         sha = reset \/ state.entries[sha].status # "success"
  PROVE  NextAttempt(state, reset, sha) = state.entries[sha].attempts + 1
  BY DEF NextAttempt

\* Without a reset only a commit below the limit is chosen, or one whose
\* successful result is no longer kept.
LEMMA ChosenIsEligible ==
  ASSUME NEW list, NEW reset, NEW state \in States, NEW t, NEW sha \in Shas,
         sha # reset, sha \in Chosen(list, reset, state, t)
  PROVE  /\ NextAttempt(state, reset, sha) <= MaxAttempts
         /\ state.entries[sha] # NoEntry /\ state.entries[sha].status = "success" =>
               ~ (state.entries[sha].artifactExpiresAt > t)
  <1> DEFINE e == state.entries[sha]
  <1>1. Eligible(e, t)
    BY DEF Chosen, Existing
  <1>2. e \in Entries \cup {NoEntry}
    BY DEF States
  <1>3. CASE e = NoEntry
    BY <1>3, IndexStateAssumption DEF NextAttempt
  <1>4. CASE e # NoEntry /\ e.status = "success"
    BY <1>1, <1>4, IndexStateAssumption DEF NextAttempt, Eligible, Retained
  <1>5. CASE e # NoEntry /\ e.status # "success"
    <2>1. ~ (e.attempts >= MaxAttempts) /\ e.attempts \in Nat
      BY <1>1, <1>2, <1>5 DEF Eligible, Exhausted, Unfinished, Entries
    <2>2. NextAttempt(state, reset, sha) = e.attempts + 1
      BY <1>5, NextAttemptIs
    <2> QED BY <1>5, <2>1, <2>2, IndexStateAssumption
  <1> QED BY <1>3, <1>4, <1>5

\* A listed commit that is reset is chosen.
LEMMA ResetIsChosen ==
  ASSUME NEW list, NEW reset \in Listed(list), NEW state, NEW t
  PROVE  reset \in Chosen(list, reset, state, t)
  <1>1. Eligible(Existing(state, reset, reset), t)
    BY DEF Eligible, Existing, Retained, Exhausted, Waiting, Unfinished
  <1>2. {s \in Listed(list) : /\ Eligible(Existing(state, reset, s), t)
                                 /\ Ahead(list, reset, s, reset)} = {}
    BY DEF Ahead
  <1>3. Cardinality({}) < MaxIndexes
    BY FS_EmptySet, IndexStateAssumption
  <1> QED BY <1>1, <1>2, <1>3 DEF Chosen

\* What reserveCandidates makes of an entry: it queues the commit, or keeps the
\* entry, or there is none.
LEMMA ReservedEntryIs ==
  ASSUME NEW list, IsListing(list), NEW reset, NEW state \in States,
         NEW t \in Nat, NEW sha \in Shas, NEW f,
         f = reserveCandidates(list, reset, state, t).entries[sha]
  PROVE  \/ /\ sha \in Chosen(list, reset, state, t) /\ f # NoEntry
            /\ f.status = "queued" /\ f.attempts = NextAttempt(state, reset, sha)
            /\ f.artifactExpiresAt = 0 /\ f.layout = "parsed"
         \/ /\ sha \notin Chosen(list, reset, state, t) /\ sha # reset
            /\ SameEntry(f, state.entries[sha])
         \/ /\ sha \notin Chosen(list, reset, state, t) /\ f = NoEntry
            /\ \/ sha \notin Listed(list) \/ sha = reset
               \/ state.entries[sha] = NoEntry
  <1> DEFINE e == state.entries[sha]
             chosen == Chosen(list, reset, state, t)
  <1>1. e \in Entries \cup {NoEntry}
    BY DEF States
  <1>2. CASE ~ ReserveChanges(list, reset, state, t)
    <2>1. f = e /\ sha \notin chosen
      BY <1>2 DEF reserveCandidates, ReserveChanges
    <2>2. e # NoEntry => sha # reset
      BY <1>2 DEF ReserveChanges
    <2> QED BY <2>1, <2>2 DEF SameEntry
  <1>3. CASE ReserveChanges(list, reset, state, t)
    <2>1. f = ReservedEntry(list, reset, state, t, sha)
      BY <1>3 DEF reserveCandidates
    <2>2. CASE sha \in chosen
      <3>1. CandidateOf(list, sha) \in Candidates
        BY <2>2, ChosenListed, CandidateOfListed
      <3>2. f = QueuedEntry(CandidateOf(list, sha), NextAttempt(state, reset, sha), t)
        BY <2>1, <2>2 DEF ReservedEntry
      <3>3. f # NoEntry
        BY <3>1, <3>2, NextAttemptType, QueuedEntryType
      <3> QED BY <2>2, <3>2, <3>3 DEF QueuedEntry
    <2>3. CASE /\ sha \notin chosen
               /\ sha \notin Listed(list) \/ Existing(state, reset, sha) = NoEntry
      <3>1. f = NoEntry
        BY <2>1, <2>3 DEF ReservedEntry
      <3> QED BY <2>3, <3>1 DEF Existing
    <2>4. CASE /\ sha \notin chosen /\ sha \in Listed(list)
               /\ Existing(state, reset, sha) # NoEntry
      <3>1. sha # reset /\ e # NoEntry /\ Existing(state, reset, sha) = e
        BY <2>4 DEF Existing
      <3>2. f = [e EXCEPT !.candidate = CandidateOf(list, sha)]
        BY <2>1, <2>4, <3>1 DEF ReservedEntry
      <3>3. e \in Entries /\ CandidateOf(list, sha) \in Candidates
        BY <1>1, <2>4, <3>1, CandidateOfListed
      <3>4. f \in Entries /\ f # NoEntry
        BY <3>2, <3>3, IndexStateAssumption DEF Entries
      <3>5. /\ f.status = e.status /\ f.attempts = e.attempts
            /\ f.artifactExpiresAt = e.artifactExpiresAt /\ f.layout = e.layout
        BY <3>2, <3>3 DEF Entries
      <3> QED BY <2>4, <3>1, <3>4, <3>5 DEF SameEntry
    <2> QED BY <2>2, <2>3, <2>4
  <1> QED BY <1>2, <1>3

\* What completeCandidate makes of an entry: it keeps it, or records the result.
LEMMA CompletedEntryIs ==
  ASSUME NEW state \in States, NEW candidate \in Candidates,
         NEW attempt \in Nat \ {0}, NEW conclusion \in Conclusions, NEW t \in Nat,
         NEW sha \in Shas, NEW f,
         f = completeCandidate(state, candidate, attempt, conclusion, t).entries[sha]
  PROVE  LET e == state.entries[sha] IN
         \/ /\ f = e
            /\ sha # candidate.sha \/ StaleCompletion(e, attempt, conclusion)
         \/ /\ sha = candidate.sha /\ ~ StaleCompletion(e, attempt, conclusion)
            /\ f # NoEntry /\ f.attempts = attempt
            /\ f.status = IF conclusion = "success" THEN "success" ELSE "failed"
            /\ conclusion = "success" => f.artifactExpiresAt = t + Retention
  <1> DEFINE e == state.entries[sha]
  <1>1. e \in Entries \cup {NoEntry} /\ candidate.sha \in Shas
    BY DEF States, Candidates
  <1>2. CASE StaleCompletion(state.entries[candidate.sha], attempt, conclusion)
    BY <1>2 DEF completeCandidate
  <1>3. CASE ~ StaleCompletion(state.entries[candidate.sha], attempt, conclusion)
    <2>1. CASE sha # candidate.sha
      BY <1>1, <1>3, <2>1 DEF completeCandidate, States
    <2>2. CASE sha = candidate.sha
      <3>1. f = CompletedEntry(e, candidate, attempt, conclusion, t)
        BY <1>1, <1>3, <2>2 DEF completeCandidate, States
      <3>2. e # NoEntry => e.attempts \in Nat
        BY <1>1 DEF Entries
      <3>3. e # NoEntry => ~ (attempt < e.attempts)
        BY <1>3, <2>2 DEF StaleCompletion
      <3>4. f.attempts = attempt
        BY <3>1, <3>2, <3>3 DEF CompletedEntry
      <3>5. f \in Entries
        <4>1. t + Retention \in Nat
          BY IndexStateAssumption
        <4>2. e # NoEntry => e.attempts \in Nat \ {0}
          BY <1>1 DEF Entries
        <4> QED BY <3>1, <4>1, <4>2 DEF CompletedEntry, Entries, Statuses, Layouts
      <3>6. f # NoEntry
        BY <3>5, IndexStateAssumption
      <3>7. /\ f.status = IF conclusion = "success" THEN "success" ELSE "failed"
            /\ conclusion = "success" => f.artifactExpiresAt = t + Retention
        BY <3>1 DEF CompletedEntry
      <3> QED BY <1>3, <2>2, <3>4, <3>6, <3>7
    <2> QED BY <2>1, <2>2
  <1> QED BY <1>2, <1>3

\* A parsed entry says the same, with its keys in the parser's order.
LEMMA ParsedEntryIs ==
  ASSUME NEW state \in States, NEW sha \in Shas, NEW f,
         f = parseState(state).entries[sha]
  PROVE  LET e == state.entries[sha] IN
         /\ f = NoEntry <=> e = NoEntry
         /\ e # NoEntry =>
               /\ f.status = e.status /\ f.attempts = e.attempts
               /\ f.artifactExpiresAt = e.artifactExpiresAt /\ f.layout = "parsed"
               /\ e.layout = "parsed" => f = e
  <1> DEFINE e == state.entries[sha]
  <1>1. f = ParseEntry(e)
    BY DEF parseState, States
  <1>2. CASE e = NoEntry
    BY <1>1, <1>2 DEF ParseEntry
  <1>3. CASE e # NoEntry
    <2>1. e \in Entries
      BY <1>3 DEF States
    <2>2. f = [e EXCEPT !.layout = "parsed"]
      BY <1>1, <1>3 DEF ParseEntry
    <2>3. f \in Entries /\ f # NoEntry
      BY <2>1, <2>2, IndexStateAssumption DEF Entries, Layouts
    <2>4. /\ f.status = e.status /\ f.attempts = e.attempts
          /\ f.artifactExpiresAt = e.artifactExpiresAt /\ f.layout = "parsed"
      BY <2>1, <2>2 DEF Entries
    <2>5. e.layout = "parsed" => f = e
      BY <2>1, <2>2 DEF Entries
    <2> QED BY <1>3, <2>3, <2>4, <2>5
  <1> QED BY <1>2, <1>3

-----------------------------------------------------------------------------

(***************************************************************************)
(* Types.  The type of a finalizer's mutation depends on the run that it    *)
(* reports for: it is the active run of its group, with a conclusion.       *)
(***************************************************************************)
FinalizersRun ==
    \A sha \in Shas :
        client[sha].pc # "idle" =>
            /\ group[sha].active # NoRun
            /\ group[sha].active.phase = "finalize"
            /\ group[sha].active.conclusion \in Conclusions

TypeInv == TypeOK /\ FinalizersRun

USE DEF envVars, repoVars, runVars

\* Every listing that a scan can hold is one.
LEMMA ScanListing ==
  ASSUME ScanTypeOK PROVE IsListing(scan.listing)
  <1>1. IsListing(<<>>)
    BY DEF IsListing
  <1>2. scan.listing \in Listings \cup {<<>>}
    BY DEF ScanTypeOK
  <1> QED BY <1>1, <1>2, HostedIndexingAssumption

\* What a reader of the file sees is a state.
LEMMA ReadType ==
  ASSUME TypeOK PROVE read \in States
  BY EmptyStateType, ParseType DEF TypeOK, EnvTypeOK, RepoTypeOK, read

\* An idle client, and the empty mutation, have their types.
LEMMA IdleTypes ==
  /\ NoMutation \in Mutation
  /\ IdleClient \in [pc : {"idle", "read", "write"}, tries : Nat,
                     mutation : Mutation, ambiguous : SUBSET Mutation]
  /\ IdleScan \in [pc : {"idle", "reserve", "dispatch"},
                   listing : Listings \cup {<<>>}, reset : Shas \cup {NoSha},
                   queue : SUBSET Reservation]
  <1>1. emptyState(0) \in States
    BY EmptyStateType
  <1>2. NoMutation \in Mutation
    BY <1>1 DEF NoMutation, Mutation
  <1> QED BY <1>2 DEF IdleClient, IdleScan

\* What update computes has the type of a mutation.
LEMMA MutateType ==
  ASSUME TypeInv, NEW w \in Clients, client[w].pc # "idle"
  PROVE  mutate(w, read) \in Mutation
  <1>1. read \in States /\ now \in Nat /\ repo.version \in Nat
    BY ReadType DEF TypeInv, TypeOK, EnvTypeOK, RepoTypeOK
  <1>2. CASE w = Scanner
    <2>1. IsListing(scan.listing)
      BY ScanListing DEF TypeInv, TypeOK
    <2>2. reserveCandidates(scan.listing, scan.reset, read, now) \in States
      BY <1>1, <2>1, ReserveType
    <2>3. Selected(scan.listing, scan.reset, read, now) \subseteq Reservation
      BY <1>1, <2>1, SelectedType
    <2> QED BY <1>1, <1>2, <2>2, <2>3 DEF mutate, Mutation
  <1>3. CASE w # Scanner
    <2> DEFINE run == group[w].active
    <2>1. w \in Shas
      BY <1>3 DEF Clients
    <2>2. run \in Run /\ run.conclusion \in Conclusions
      BY <2>1 DEF TypeInv, TypeOK, FinalizersRun, RunTypeOK
    <2>3. run.candidate \in Candidates /\ run.attempt \in Nat \ {0}
      BY <2>2 DEF Run
    <2>4. completeCandidate(read, run.candidate, run.attempt, run.conclusion, now)
            \in States
      BY <1>1, <2>2, <2>3, CompleteType
    <2> QED BY <1>1, <1>3, <2>4 DEF mutate, Mutation
  <1> QED BY <1>2, <1>3

\* The end of a run keeps the types of the runs, and idles no other finalizer's.
LEMMA EndRunType ==
  ASSUME TypeInv, NEW sha \in Shas, NEW recorded \in BOOLEAN,
         client[sha].pc # "idle", EndRun(sha, recorded)
  PROVE  /\ RunTypeOK'
         /\ \A other \in Shas \ {sha} : group'[other] = group[other]
  <1> DEFINE run == group[sha].active
  <1>1. run \in Run /\ run.conclusion \in Conclusions
    BY DEF TypeInv, TypeOK, FinalizersRun, RunTypeOK
  <1>2. NextInGroup(group[sha]) \in [active : Run \cup {NoRun},
                                     pending : Run \cup {NoRun}]
    BY DEF NextInGroup, TypeInv, TypeOK, RunTypeOK
  <1>3. /\ group' \in [Shas -> [active : Run \cup {NoRun}, pending : Run \cup {NoRun}]]
        /\ \A other \in Shas \ {sha} : group'[other] = group[other]
    BY <1>2 DEF EndRun, TypeInv, TypeOK, RunTypeOK
  <1>4. finished' \in [Shas -> Run \cup {NoRun}]
    BY <1>1 DEF EndRun, TypeInv, TypeOK, RunTypeOK
  <1>5. newest' \in [Shas -> [serial : Nat, conclusion : Conclusions \cup {"none"}]]
    BY <1>1 DEF EndRun, TypeInv, TypeOK, RunTypeOK
  <1> QED BY <1>3, <1>4, <1>5 DEF EndRun, TypeInv, TypeOK, RunTypeOK

\* Returning from update, and throwing out of it, keep types.
LEMMA ReturnType ==
  ASSUME TypeInv, NEW w \in Clients, client[w].pc # "idle",
         NEW selected \in SUBSET Reservation, Return(w, selected)
  PROVE  UpdateTypeOK' /\ ScanTypeOK' /\ RunTypeOK' /\ FinalizersRun'
  <1>1. UpdateTypeOK' /\ client'[w].pc = "idle"
          /\ \A v \in Clients \ {w} : client'[v] = client[v]
    BY IdleTypes DEF Return, TypeInv, TypeOK, UpdateTypeOK, IdleClient
  <1>2. CASE w = Scanner
    <2>1. ScanTypeOK'
      BY <1>2 DEF Return, TypeInv, TypeOK, ScanTypeOK
    <2>2. RunTypeOK' /\ group' = group
      BY <1>2 DEF Return, TypeInv, TypeOK, RunTypeOK
    <2> QED BY <1>1, <1>2, <2>1, <2>2, HostedIndexingAssumption
            DEF FinalizersRun, TypeInv, Clients
  <1>3. CASE w # Scanner
    <2>1. w \in Shas /\ EndRun(w, TRUE) /\ UNCHANGED scan
      BY <1>3 DEF Return, Clients
    <2>2. RunTypeOK' /\ \A other \in Shas \ {w} : group'[other] = group[other]
      BY <2>1, EndRunType
    <2>3. ScanTypeOK'
      BY <2>1 DEF TypeInv, TypeOK, ScanTypeOK
    <2> QED BY <1>1, <2>1, <2>2, <2>3 DEF FinalizersRun, TypeInv, Clients
  <1> QED BY <1>2, <1>3

LEMMA AbortType ==
  ASSUME TypeInv, NEW w \in Clients, client[w].pc # "idle", Abort(w)
  PROVE  UpdateTypeOK' /\ ScanTypeOK' /\ RunTypeOK' /\ FinalizersRun'
  <1>1. UpdateTypeOK' /\ client'[w].pc = "idle"
          /\ \A v \in Clients \ {w} : client'[v] = client[v]
    BY IdleTypes DEF Abort, TypeInv, TypeOK, UpdateTypeOK, IdleClient
  <1>2. CASE w = Scanner
    <2>1. ScanTypeOK'
      BY <1>2, IdleTypes DEF Abort, ScanTypeOK
    <2>2. RunTypeOK' /\ group' = group
      BY <1>2 DEF Abort, TypeInv, TypeOK, RunTypeOK
    <2> QED BY <1>1, <1>2, <2>1, <2>2, HostedIndexingAssumption
            DEF FinalizersRun, TypeInv, Clients
  <1>3. CASE w # Scanner
    <2>1. w \in Shas /\ EndRun(w, FALSE) /\ UNCHANGED scan
      BY <1>3 DEF Abort, Clients
    <2>2. RunTypeOK' /\ \A other \in Shas \ {w} : group'[other] = group[other]
      BY <2>1, EndRunType
    <2>3. ScanTypeOK'
      BY <2>1 DEF TypeInv, TypeOK, ScanTypeOK
    <2> QED BY <1>1, <2>1, <2>2, <2>3 DEF FinalizersRun, TypeInv, Clients
  <1> QED BY <1>2, <1>3

\* So does another turn of its loop.
LEMMA RetryType ==
  ASSUME TypeInv, NEW w \in Clients, client[w].pc # "idle",
         NEW ambiguous \in SUBSET Mutation, Retry(w, ambiguous)
  PROVE  UpdateTypeOK' /\ ScanTypeOK' /\ RunTypeOK' /\ FinalizersRun'
  <1>1. UpdateTypeOK' /\ \A v \in Clients \ {w} : client'[v] = client[v]
    BY IdleTypes DEF Retry, TypeInv, TypeOK, UpdateTypeOK
  <1>2. ScanTypeOK' /\ RunTypeOK' /\ group' = group
    BY DEF Retry, TypeInv, TypeOK, ScanTypeOK, RunTypeOK
  <1> QED BY <1>1, <1>2 DEF FinalizersRun, TypeInv, Clients

\* A bound is spent, and a write committed, within their types.
LEMMA SpendType ==
  ASSUME EnvTypeOK, NEW kind \in {"faults", "resets", "reruns", "listings"},
         Spend(kind), UNCHANGED envVars
  PROVE  EnvTypeOK'
  BY DEF EnvTypeOK, Spend

LEMMA CommitType ==
  ASSUME RepoTypeOK, NEW state \in States, Commit(state), late' \in SUBSET Mutation
  PROVE  RepoTypeOK'
  <1>1. QueuedAttempts(state) \subseteq Shas \X (Nat \ {0})
    BY DEF QueuedAttempts, States, Entries
  <1> QED BY <1>1 DEF RepoTypeOK, Commit

\* Initially everything has its type.
LEMMA TypeInit == Init => TypeInv
  <1> SUFFICES ASSUME Init PROVE TypeInv
    OBVIOUS
  <1>1. emptyState(0) \in States
    BY EmptyStateType
  <1>2. EnvTypeOK
    BY HostedIndexingAssumption DEF Init, EnvTypeOK
  <1>3. RepoTypeOK
    BY <1>1 DEF Init, RepoTypeOK
  <1>4. UpdateTypeOK
    BY IdleTypes DEF Init, UpdateTypeOK
  <1>5. ScanTypeOK
    BY IdleTypes DEF Init, ScanTypeOK
  <1>6. RunTypeOK
    BY DEF Init, RunTypeOK, EmptyGroup
  <1>7. FinalizersRun
    BY DEF Init, FinalizersRun, IdleClient, Clients
  <1> QED BY <1>2, <1>3, <1>4, <1>5, <1>6, <1>7 DEF TypeInv, TypeOK

\* Every step of update keeps the types.
LEMMA UpdateTypeStep ==
  ASSUME TypeInv, NEW w \in Clients, Update(w)
  PROVE  TypeInv'
  <1>1. client[w].pc # "idle" => client[w].mutation \in Mutation
                                  /\ client[w].ambiguous \in SUBSET Mutation
    BY DEF TypeInv, TypeOK, UpdateTypeOK
  <1>2. \A m \in Mutation : m.selected \in SUBSET Reservation /\ m.state \in States
    BY DEF Mutation
  <1>3. "faults" \in {"faults", "resets", "reruns", "listings"}
          /\ "faults" \in {"faults", "resets", "reruns", "listings"}
    OBVIOUS
  <1>4. CASE Read(w)
    <2>1. client[w].pc # "idle" /\ mutate(w, read) \in Mutation
      BY <1>4, MutateType DEF Read
    <2>2. EnvTypeOK' /\ RepoTypeOK'
      BY <1>4 DEF Read, TypeInv, TypeOK, EnvTypeOK, RepoTypeOK
    <2>3. CASE \E m \in client[w].ambiguous : Return(w, m.selected)
      BY <2>1, <2>2, <2>3, <1>1, <1>2, ReturnType DEF TypeInv, TypeOK
    <2>4. CASE Return(w, mutate(w, read).selected)
      <3>1. mutate(w, read).selected \in SUBSET Reservation
        BY <2>1, <1>2
      <3> QED BY <2>1, <2>2, <2>4, <3>1, ReturnType DEF TypeInv, TypeOK
    <2>5. CASE /\ client' = [client EXCEPT ![w].pc = "write",
                                           ![w].mutation = mutate(w, read)]
               /\ UNCHANGED <<scan, runVars>>
      <3>1. UpdateTypeOK' /\ \A v \in Clients \ {w} : client'[v] = client[v]
        BY <2>1, <2>5 DEF TypeInv, TypeOK, UpdateTypeOK
      <3>2. ScanTypeOK' /\ RunTypeOK' /\ group' = group
        BY <2>5 DEF TypeInv, TypeOK, ScanTypeOK, RunTypeOK
      <3>3. FinalizersRun'
        BY <2>1, <3>1, <3>2 DEF FinalizersRun, TypeInv, Clients
      <3> QED BY <2>2, <3>1, <3>2, <3>3 DEF TypeInv, TypeOK
    <2> QED BY <1>4, <2>3, <2>4, <2>5 DEF Read
  <1>5. CASE ReadFails(w)
    <2>1. client[w].pc # "idle" /\ Spend("faults") /\ UNCHANGED <<envVars, repoVars>>
            /\ Retry(w, client[w].ambiguous)
      BY <1>5 DEF ReadFails, Fault
    <2>2. EnvTypeOK'
      BY <2>1, SpendType DEF TypeInv, TypeOK
    <2>3. RepoTypeOK'
      BY <2>1 DEF TypeInv, TypeOK, RepoTypeOK
    <2> QED BY <1>1, <2>1, <2>2, <2>3, RetryType DEF TypeInv, TypeOK
  <1>6. CASE GiveUp(w)
    <2>1. client[w].pc # "idle" /\ Abort(w)
      BY <1>6 DEF GiveUp
    <2>2. EnvTypeOK' /\ RepoTypeOK'
      BY <1>6 DEF GiveUp, TypeInv, TypeOK, EnvTypeOK, RepoTypeOK
    <2> QED BY <2>1, <2>2, AbortType DEF TypeInv, TypeOK
  <1>7. CASE WriteAccepted(w)
    <2>1. /\ client[w].pc # "idle" /\ Return(w, client[w].mutation.selected)
          /\ Commit(client[w].mutation.state) /\ UNCHANGED <<envVars, late, budget>>
      BY <1>7 DEF WriteAccepted
    <2>2. EnvTypeOK'
      BY <2>1 DEF TypeInv, TypeOK, EnvTypeOK
    <2>3. late' \in SUBSET Mutation
      BY <2>1 DEF TypeInv, TypeOK, RepoTypeOK
    <2>4. RepoTypeOK'
      BY <1>1, <1>2, <2>1, <2>3, CommitType DEF TypeInv, TypeOK
    <2> QED BY <1>1, <1>2, <2>1, <2>2, <2>4, ReturnType DEF TypeInv, TypeOK
  <1>8. CASE WriteRefused(w)
    <2>1. /\ client[w].pc # "idle"
          /\ Abort(w) \/ Retry(w, client[w].ambiguous)
          /\ UNCHANGED <<envVars, repoVars, budget>>
      BY <1>8 DEF WriteRefused
    <2>2. EnvTypeOK' /\ RepoTypeOK'
      BY <2>1 DEF TypeInv, TypeOK, EnvTypeOK, RepoTypeOK
    <2> QED BY <1>1, <2>1, <2>2, AbortType, RetryType DEF TypeInv, TypeOK
  <1>9. CASE WriteUnanswered(w)
    <2>1. /\ client[w].pc # "idle" /\ Spend("faults") /\ UNCHANGED envVars
          /\ Retry(w, client[w].ambiguous \cup {client[w].mutation})
          /\ late' \subseteq late \cup {client[w].mutation}
          /\ UNCHANGED <<repo, reserved>>
      BY <1>9 DEF WriteUnanswered, Fault
    <2>2. EnvTypeOK'
      BY <2>1, SpendType DEF TypeInv, TypeOK
    <2>3. RepoTypeOK'
      BY <1>1, <2>1 DEF TypeInv, TypeOK, RepoTypeOK
    <2>4. client[w].ambiguous \cup {client[w].mutation} \in SUBSET Mutation
      BY <1>1, <2>1
    <2> QED BY <2>1, <2>2, <2>3, <2>4, RetryType DEF TypeInv, TypeOK
  <1>10. CASE Killed(w)
    <2>1. /\ client[w].pc # "idle" /\ Spend("faults") /\ UNCHANGED envVars
          /\ Abort(w)
          /\ late' \subseteq late \cup {client[w].mutation}
          /\ UNCHANGED <<repo, reserved>>
      BY <1>10 DEF Killed, Fault
    <2>2. EnvTypeOK'
      BY <2>1, SpendType DEF TypeInv, TypeOK
    <2>3. RepoTypeOK'
      BY <1>1, <2>1 DEF TypeInv, TypeOK, RepoTypeOK
    <2> QED BY <2>1, <2>2, <2>3, AbortType DEF TypeInv, TypeOK
  <1> QED BY <1>4, <1>5, <1>6, <1>7, <1>8, <1>9, <1>10 DEF Update

\* A dispatched run has the type of a run, wherever its group puts it.
LEMMA EnqueueType ==
  ASSUME NEW g \in [active : Run \cup {NoRun}, pending : Run \cup {NoRun}],
         NEW run \in Run
  PROVE  /\ Enqueue(g, run) \in [active : Run \cup {NoRun}, pending : Run \cup {NoRun}]
         /\ g.active # NoRun => Enqueue(g, run).active = g.active
  BY DEF Enqueue

LEMMA DispatchType ==
  ASSUME TypeInv, NEW r \in Reservation, Dispatch(r), UNCHANGED client
  PROVE  RunTypeOK' /\ FinalizersRun'
  <1> DEFINE sha == r.candidate.sha
             run == [candidate |-> r.candidate, attempt |-> r.attempt,
                     serial |-> newest[sha].serial + 1, phase |-> "index",
                     conclusion |-> "none"]
  <1>1. sha \in Shas /\ r.attempt \in Nat \ {0} /\ r.candidate \in Candidates
    BY DEF Reservation, Candidates
  <1>2. newest[sha].serial + 1 \in Nat
    BY <1>1 DEF TypeInv, TypeOK, RunTypeOK
  <1>3. run \in Run
    BY <1>1, <1>2 DEF Run
  <1>4. group' = [group EXCEPT ![sha] = Enqueue(group[sha], run)]
    BY DEF Dispatch
  <1>5. group[sha] \in [active : Run \cup {NoRun}, pending : Run \cup {NoRun}]
    BY <1>1 DEF TypeInv, TypeOK, RunTypeOK
  <1>6. group' \in [Shas -> [active : Run \cup {NoRun}, pending : Run \cup {NoRun}]]
    BY <1>3, <1>4, <1>5, EnqueueType DEF TypeInv, TypeOK, RunTypeOK
  <1>7. dispatched' \subseteq Shas \X (Nat \ {0}) /\ finished' = finished
    BY <1>1 DEF Dispatch, TypeInv, TypeOK, RunTypeOK
  <1>8. newest' \in [Shas -> [serial : Nat, conclusion : Conclusions \cup {"none"}]]
    BY <1>1, <1>2 DEF Dispatch, TypeInv, TypeOK, RunTypeOK
  <1>9. RunTypeOK'
    BY <1>6, <1>7, <1>8 DEF TypeInv, TypeOK, RunTypeOK
  <1>10. ASSUME NEW s \in Shas, group[s].active # NoRun
         PROVE  group'[s].active = group[s].active
    BY <1>3, <1>4, <1>5, <1>10, EnqueueType DEF TypeInv, TypeOK, RunTypeOK
  <1> QED BY <1>9, <1>10 DEF FinalizersRun, TypeInv

\* Every other step keeps the types as well.
LEMMA OtherTypeStep ==
  ASSUME TypeInv,
         \/ LateWriteArrives \/ StartScan \/ DispatchNext \/ EndScan
         \/ \E sha \in Shas : IndexEnds(sha) \/ Rerun(sha)
         \/ ListingChanges \/ Tick
  PROVE  TypeInv'
  <1> USE DEF TypeInv, TypeOK
  <1>1. CASE LateWriteArrives
    <2>1. PICK m \in late :
            /\ late' = late \ {m}
            /\ Commit(m.state) \/ UNCHANGED <<repo, reserved>>
            /\ UNCHANGED <<envVars, client, scan, runVars, budget>>
      BY <1>1 DEF LateWriteArrives
    <2>2. m.state \in States /\ late' \in SUBSET Mutation
      BY <2>1 DEF RepoTypeOK, Mutation
    <2>3. RepoTypeOK'
      BY <2>1, <2>2, CommitType DEF RepoTypeOK
    <2> QED BY <2>1, <2>3
            DEF EnvTypeOK, UpdateTypeOK, ScanTypeOK, RunTypeOK, FinalizersRun
  <1>2. CASE StartScan
    <2>1. EnvTypeOK'
      BY <1>2, SpendType DEF StartScan, EnvTypeOK
    <2>2. RepoTypeOK' /\ RunTypeOK'
      BY <1>2 DEF StartScan, RepoTypeOK, RunTypeOK
    <2>3. UpdateTypeOK' /\ \A v \in Clients \ {Scanner} : client'[v] = client[v]
      BY <1>2, IdleTypes DEF StartScan, UpdateTypeOK, Clients
    <2>4. ASSUME NEW sha \in Listed(listing) PROVE sha \in Shas
      BY HostedIndexingAssumption, CandidateOfListed DEF EnvTypeOK
    <2>5. ScanTypeOK'
      BY <1>2, <2>4 DEF StartScan, ScanTypeOK, EnvTypeOK
    <2>6. FinalizersRun'
      BY <1>2, <2>3, HostedIndexingAssumption DEF StartScan, FinalizersRun, Clients
    <2> QED BY <2>1, <2>2, <2>3, <2>5, <2>6
  <1>3. CASE DispatchNext
    <2>1. PICK r \in scan.queue :
            /\ scan' = [scan EXCEPT !.queue = @ \ {r}]
            /\ Dispatch(r) \/ (Spend("faults") /\ UNCHANGED runVars)
      BY <1>3 DEF DispatchNext, Fault
    <2>2. UNCHANGED <<envVars, repoVars, client>>
      BY <1>3 DEF DispatchNext
    <2>3. r \in Reservation
      BY DEF ScanTypeOK
    <2>4. ScanTypeOK'
      BY <2>1 DEF ScanTypeOK
    <2>5. RepoTypeOK' /\ UpdateTypeOK'
      BY <2>2 DEF RepoTypeOK, UpdateTypeOK
    <2>6. CASE Dispatch(r)
      <3>1. EnvTypeOK'
        BY <2>2, <2>6 DEF Dispatch, EnvTypeOK
      <3> QED BY <2>2, <2>3, <2>4, <2>5, <2>6, <3>1, DispatchType
    <2>7. CASE Spend("faults") /\ UNCHANGED runVars
      <3>1. EnvTypeOK'
        BY <2>2, <2>7, SpendType
      <3>2. RunTypeOK' /\ FinalizersRun'
        BY <2>2, <2>7 DEF RunTypeOK, FinalizersRun
      <3> QED BY <2>4, <2>5, <3>1, <3>2
    <2> QED BY <2>1, <2>6, <2>7
  <1>4. CASE EndScan
    <2>1. EnvTypeOK'
      BY <1>4, SpendType DEF EndScan, Fault, EnvTypeOK
    <2> QED BY <1>4, <2>1, IdleTypes
            DEF EndScan, RepoTypeOK, UpdateTypeOK, ScanTypeOK, RunTypeOK, FinalizersRun
  <1>5. ASSUME NEW sha \in Shas, IndexEnds(sha) PROVE TypeInv'
    <2>1. PICK conclusion \in Conclusions :
            group' = [group EXCEPT ![sha].active.phase = "finalize",
                                   ![sha].active.conclusion = conclusion]
      BY <1>5 DEF IndexEnds
    <2>2. group[sha].active \in Run
      BY <1>5 DEF IndexEnds, RunTypeOK
    <2>3. [group[sha].active EXCEPT !.phase = "finalize", !.conclusion = conclusion]
            \in Run
      BY <2>2 DEF Run
    <2>4. /\ group'[sha].active = [group[sha].active EXCEPT !.phase = "finalize",
                                                            !.conclusion = conclusion]
          /\ group'[sha].pending = group[sha].pending
          /\ group'[sha] \in [active : Run \cup {NoRun}, pending : Run \cup {NoRun}]
          /\ \A s \in Shas \ {sha} : group'[s] = group[s]
      BY <2>1, <2>3 DEF RunTypeOK
    <2>5. group' \in [Shas -> [active : Run \cup {NoRun}, pending : Run \cup {NoRun}]]
      BY <2>1, <2>4 DEF RunTypeOK
    <2>6. RunTypeOK'
      BY <1>5, <2>5 DEF IndexEnds, RunTypeOK
    <2>7. UpdateTypeOK' /\ \A v \in Clients \ {sha} : client'[v] = client[v]
      BY <1>5, IdleTypes DEF IndexEnds, UpdateTypeOK, Clients
    <2>8. FinalizersRun'
      <3>1. group'[sha].active # NoRun /\ group'[sha].active.phase = "finalize"
              /\ group'[sha].active.conclusion = conclusion
        BY <2>2, <2>3, <2>4, NoRunAssumption DEF Run
      <3> QED BY <2>4, <2>7, <3>1 DEF FinalizersRun, Clients
    <2>9. EnvTypeOK' /\ RepoTypeOK' /\ ScanTypeOK'
      BY <1>5 DEF IndexEnds, EnvTypeOK, RepoTypeOK, ScanTypeOK
    <2> QED BY <2>6, <2>7, <2>8, <2>9
  <1>6. ASSUME NEW sha \in Shas, Rerun(sha) PROVE TypeInv'
    <2> DEFINE run == [finished[sha] EXCEPT !.phase = "index", !.conclusion = "none"]
    <2>1. finished[sha] \in Run
      BY <1>6 DEF Rerun, RunTypeOK
    <2>2. run \in Run
      BY <2>1 DEF Run
    <2>3. group' = [group EXCEPT ![sha] = Enqueue(group[sha], run)]
      BY <1>6 DEF Rerun
    <2>4. group[sha] \in [active : Run \cup {NoRun}, pending : Run \cup {NoRun}]
      BY DEF RunTypeOK
    <2>5. group' \in [Shas -> [active : Run \cup {NoRun}, pending : Run \cup {NoRun}]]
      BY <2>2, <2>3, <2>4, EnqueueType DEF RunTypeOK
    <2>6. newest' \in [Shas -> [serial : Nat, conclusion : Conclusions \cup {"none"}]]
      BY <1>6 DEF Rerun, RunTypeOK
    <2>7. RunTypeOK'
      BY <1>6, <2>5, <2>6 DEF Rerun, RunTypeOK
    <2>8. ASSUME NEW s \in Shas, group[s].active # NoRun
          PROVE  group'[s].active = group[s].active
      BY <2>2, <2>3, <2>4, <2>8, EnqueueType DEF RunTypeOK
    <2>9. EnvTypeOK'
      BY <1>6, SpendType DEF Rerun
    <2>10. RepoTypeOK' /\ UpdateTypeOK' /\ ScanTypeOK' /\ client' = client
      BY <1>6 DEF Rerun, RepoTypeOK, UpdateTypeOK, ScanTypeOK
    <2>11. FinalizersRun'
      BY <2>8, <2>10 DEF FinalizersRun
    <2> QED BY <2>7, <2>9, <2>10, <2>11
  <1>7. CASE ListingChanges
    <2>1. EnvTypeOK'
      BY <1>7 DEF ListingChanges, Spend, EnvTypeOK
    <2> QED BY <1>7, <2>1 DEF ListingChanges, RepoTypeOK, UpdateTypeOK, ScanTypeOK,
                              RunTypeOK, FinalizersRun
  <1>8. CASE Tick
    BY <1>8 DEF Tick, EnvTypeOK, RepoTypeOK, UpdateTypeOK, ScanTypeOK, RunTypeOK,
                FinalizersRun
  <1> QED BY <1>1, <1>2, <1>3, <1>4, <1>5, <1>6, <1>7, <1>8

\* So does a stutter.
LEMMA TypeStutter == ASSUME TypeInv, UNCHANGED vars PROVE TypeInv'
  BY DEF vars, TypeInv, TypeOK, EnvTypeOK, RepoTypeOK, UpdateTypeOK, ScanTypeOK,
         RunTypeOK, FinalizersRun

\* Every variable keeps its type, and every finalizer reports for a run that
\* ended: no result is recorded for work that is not over.
THEOREM TypeCorrect == Spec => []TypeOK
  <1>1. TypeInv /\ [Next]_vars => TypeInv'
    <2> SUFFICES ASSUME TypeInv, [Next]_vars PROVE TypeInv'
      OBVIOUS
    <2>1. CASE UNCHANGED vars
      BY <2>1, TypeStutter
    <2>2. CASE Next
      BY <2>2, UpdateTypeStep, OtherTypeStep DEF Next
    <2> QED BY <2>1, <2>2
  <1>2. TypeInv => TypeOK
    BY DEF TypeInv
  <1> QED BY <1>1, <1>2, TypeInit, PTL DEF Spec

-----------------------------------------------------------------------------
(***************************************************************************)
(* Only reserved work is dispatched.  The invariant that carries it: a      *)
(* mutation, in the hands of its client or ambiguous, returns only what its *)
(* own state records as queued, and all that the file records as queued is  *)
(* reserved.  So a mutation that was written, or that reads back equal to   *)
(* the file, returns reserved work.                                         *)
(***************************************************************************)
Backed(m) == {Pair(r) : r \in m.selected} \subseteq QueuedAttempts(m.state)

ClientsBacked ==
    \A w \in Clients :
        /\ Backed(client[w].mutation)
        /\ \A m \in client[w].ambiguous : Backed(m)

FileReserved == QueuedAttempts(repo.state) \subseteq reserved

WorkInv == OnlyReservedWork /\ ClientsBacked /\ FileReserved

\* Nothing is queued in an empty state.
LEMMA EmptyQueued ==
  ASSUME NEW t PROVE QueuedAttempts(emptyState(t)) = {}
  BY DEF QueuedAttempts, emptyState

\* All that a reader sees queued is reserved.
LEMMA ReadReserved ==
  ASSUME TypeOK, FileReserved
  PROVE  QueuedAttempts(read) \subseteq reserved
  BY EmptyQueued, ParseQueued DEF TypeOK, RepoTypeOK, FileReserved, read

\* What update computes is backed by the state it computes.
LEMMA MutateBacked ==
  ASSUME TypeInv, NEW w \in Clients
  PROVE  Backed(mutate(w, read))
  <1>1. read \in States /\ now \in Nat
    BY ReadType DEF TypeInv, TypeOK, EnvTypeOK
  <1>2. CASE w = Scanner
    <2>1. IsListing(scan.listing)
      BY ScanListing DEF TypeInv, TypeOK
    <2>2. \A r \in Selected(scan.listing, scan.reset, read, now) :
             PairOf(r) \in QueuedAttempts(
                             reserveCandidates(scan.listing, scan.reset, read, now))
      BY <1>1, <2>1, SelectedQueued
    <2> QED BY <1>2, <2>2 DEF mutate, Backed, Pair, PairOf
  <1>3. CASE w # Scanner
    BY <1>3 DEF mutate, Backed
  <1> QED BY <1>2, <1>3

\* Leaving update, or another turn of it, keeps the clients' mutations backed.
LEMMA IdleBacked == Backed(NoMutation)
  BY DEF Backed, NoMutation

\* update may return what is reserved.
LEMMA ReturnWork ==
  ASSUME TypeInv, WorkInv, NEW w \in Clients,
         NEW selected \in SUBSET Reservation, Return(w, selected),
         {Pair(r) : r \in selected} \subseteq reserved',
         reserved \subseteq reserved'
  PROVE  OnlyReservedWork' /\ ClientsBacked'
  <1>1. ClientsBacked'
    BY IdleBacked DEF Return, TypeInv, TypeOK, UpdateTypeOK, WorkInv, ClientsBacked,
                      IdleClient
  <1>2. CASE w = Scanner
    <2>1. scan'.queue = selected /\ dispatched' = dispatched
      BY <1>2 DEF Return, TypeInv, TypeOK, ScanTypeOK
    <2> QED BY <1>1, <2>1 DEF OnlyReservedWork, WorkInv, Pair
  <1>3. CASE w # Scanner
    <2>1. scan' = scan /\ dispatched' = dispatched
      BY <1>3 DEF Return, EndRun
    <2> QED BY <1>1, <2>1 DEF OnlyReservedWork, WorkInv, Pair
  <1> QED BY <1>2, <1>3

LEMMA AbortWork ==
  ASSUME TypeInv, WorkInv, NEW w \in Clients, Abort(w), reserved' = reserved
  PROVE  OnlyReservedWork' /\ ClientsBacked'
  <1>1. ClientsBacked'
    BY IdleBacked DEF Abort, TypeInv, TypeOK, UpdateTypeOK, WorkInv, ClientsBacked,
                      IdleClient
  <1>2. CASE w = Scanner
    <2>1. scan'.queue = {} /\ dispatched' = dispatched
      BY <1>2 DEF Abort, IdleScan
    <2> QED BY <1>1, <2>1 DEF OnlyReservedWork, WorkInv
  <1>3. CASE w # Scanner
    <2>1. scan' = scan /\ dispatched' = dispatched
      BY <1>3 DEF Abort, EndRun
    <2> QED BY <1>1, <2>1 DEF OnlyReservedWork, WorkInv, Pair
  <1> QED BY <1>2, <1>3

LEMMA RetryWork ==
  ASSUME TypeInv, WorkInv, NEW w \in Clients, NEW ambiguous, Retry(w, ambiguous),
         \A m \in ambiguous : Backed(m), reserved' = reserved
  PROVE  OnlyReservedWork' /\ ClientsBacked'
  <1>1. ClientsBacked'
    BY IdleBacked DEF Retry, TypeInv, TypeOK, UpdateTypeOK, WorkInv, ClientsBacked
  <1>2. scan' = scan /\ dispatched' = dispatched
    BY DEF Retry
  <1> QED BY <1>1, <1>2 DEF OnlyReservedWork, WorkInv, Pair

\* A commit reserves what it records.
LEMMA CommitWork ==
  ASSUME NEW state, Commit(state)
  PROVE  FileReserved' /\ reserved \subseteq reserved'
           /\ QueuedAttempts(state) \subseteq reserved'
  BY DEF Commit, FileReserved, QueuedAttempts

LEMMA WorkInit == Init => WorkInv
  <1> SUFFICES ASSUME Init PROVE WorkInv
    OBVIOUS
  <1>1. OnlyReservedWork
    BY DEF Init, IdleScan, OnlyReservedWork
  <1>2. ClientsBacked
    BY IdleBacked DEF Init, IdleClient, ClientsBacked
  <1>3. FileReserved
    BY EmptyQueued DEF Init, FileReserved
  <1> QED BY <1>1, <1>2, <1>3 DEF WorkInv

\* Every step of update keeps the invariant.
LEMMA UpdateWorkStep ==
  ASSUME TypeInv, WorkInv, NEW w \in Clients, Update(w)
  PROVE  WorkInv'
  <1>1. /\ client[w].mutation \in Mutation /\ Backed(client[w].mutation)
        /\ \A m \in client[w].ambiguous : m \in Mutation /\ Backed(m)
    BY DEF TypeInv, TypeOK, UpdateTypeOK, WorkInv, ClientsBacked
  <1>2. \A m \in Mutation : m.selected \in SUBSET Reservation
    BY DEF Mutation
  <1>3. CASE Read(w)
    <2> DEFINE mutation == mutate(w, read)
    <2>1. /\ client[w].pc # "idle"
          /\ mutation \in Mutation /\ Backed(mutation)
      BY <1>3, MutateType, MutateBacked DEF Read
    <2>2. reserved' = reserved /\ FileReserved'
      BY <1>3 DEF Read, WorkInv, FileReserved
    <2>3. \A m : Backed(m) /\ m.state = read
                   => {Pair(r) : r \in m.selected} \subseteq reserved
      BY ReadReserved DEF TypeInv, WorkInv, Backed
    <2>4. CASE \E m \in client[w].ambiguous : m.state = read /\ Return(w, m.selected)
      BY <1>1, <1>2, <2>2, <2>3, <2>4, ReturnWork DEF WorkInv
    <2>5. CASE mutation.state = read /\ Return(w, mutation.selected)
      BY <1>2, <2>1, <2>2, <2>3, <2>5, ReturnWork DEF WorkInv
    <2>6. CASE /\ client' = [client EXCEPT ![w].pc = "write",
                                           ![w].mutation = mutation]
               /\ UNCHANGED <<scan, runVars>>
      <3>1. ClientsBacked'
        BY <2>1, <2>6 DEF TypeInv, TypeOK, UpdateTypeOK, WorkInv, ClientsBacked
      <3>2. OnlyReservedWork'
        BY <2>2, <2>6 DEF WorkInv, OnlyReservedWork, Pair
      <3> QED BY <2>2, <3>1, <3>2 DEF WorkInv
    <2> QED BY <1>3, <2>4, <2>5, <2>6 DEF Read, sameState
  <1>4. CASE ReadFails(w)
    <2>1. Retry(w, client[w].ambiguous) /\ reserved' = reserved /\ repo' = repo
      BY <1>4 DEF ReadFails
    <2> QED BY <1>1, <2>1, RetryWork DEF WorkInv, FileReserved
  <1>5. CASE GiveUp(w)
    <2>1. Abort(w) /\ reserved' = reserved /\ repo' = repo
      BY <1>5 DEF GiveUp
    <2> QED BY <2>1, AbortWork DEF WorkInv, FileReserved
  <1>6. CASE WriteAccepted(w)
    <2>1. Return(w, client[w].mutation.selected) /\ Commit(client[w].mutation.state)
      BY <1>6 DEF WriteAccepted
    <2>2. FileReserved' /\ reserved \subseteq reserved'
            /\ QueuedAttempts(client[w].mutation.state) \subseteq reserved'
      BY <2>1, CommitWork
    <2>3. {Pair(r) : r \in client[w].mutation.selected} \subseteq reserved'
      BY <1>1, <2>2 DEF Backed
    <2> QED BY <1>1, <1>2, <2>1, <2>2, <2>3, ReturnWork DEF WorkInv
  <1>7. CASE WriteRefused(w)
    <2>1. /\ Abort(w) \/ Retry(w, client[w].ambiguous)
          /\ reserved' = reserved /\ repo' = repo
      BY <1>7 DEF WriteRefused
    <2> QED BY <1>1, <2>1, AbortWork, RetryWork DEF WorkInv, FileReserved
  <1>8. CASE WriteUnanswered(w)
    <2>1. /\ Retry(w, client[w].ambiguous \cup {client[w].mutation})
          /\ reserved' = reserved /\ repo' = repo
      BY <1>8 DEF WriteUnanswered
    <2> QED BY <1>1, <2>1, RetryWork DEF WorkInv, FileReserved
  <1>9. CASE Killed(w)
    <2>1. Abort(w) /\ reserved' = reserved /\ repo' = repo
      BY <1>9 DEF Killed
    <2> QED BY <2>1, AbortWork DEF WorkInv, FileReserved
  <1> QED BY <1>3, <1>4, <1>5, <1>6, <1>7, <1>8, <1>9 DEF Update

\* Every other step does.
LEMMA OtherWorkStep ==
  ASSUME TypeInv, WorkInv,
         \/ LateWriteArrives \/ StartScan \/ DispatchNext \/ EndScan
         \/ \E sha \in Shas : IndexEnds(sha) \/ Rerun(sha)
         \/ ListingChanges \/ Tick
  PROVE  WorkInv'
  <1> USE DEF WorkInv
  <1>1. CASE LateWriteArrives
    <2>1. PICK m \in late :
            /\ Commit(m.state) \/ UNCHANGED <<repo, reserved>>
            /\ UNCHANGED <<client, scan, dispatched>>
      BY <1>1 DEF LateWriteArrives
    <2>2. FileReserved' /\ reserved \subseteq reserved'
      BY <2>1, CommitWork DEF FileReserved
    <2> QED BY <2>1, <2>2 DEF OnlyReservedWork, ClientsBacked, Pair
  <1>2. CASE StartScan
    <2>1. scan'.queue = scan.queue /\ UNCHANGED <<repo, reserved, dispatched>>
      BY <1>2 DEF StartScan, TypeInv, TypeOK, ScanTypeOK
    <2>2. ClientsBacked'
      BY <1>2, IdleBacked DEF StartScan, TypeInv, TypeOK, UpdateTypeOK, ClientsBacked,
                              IdleClient
    <2> QED BY <2>1, <2>2 DEF OnlyReservedWork, FileReserved, Pair
  <1>3. CASE DispatchNext
    <2>1. PICK r \in scan.queue :
            /\ scan' = [scan EXCEPT !.queue = @ \ {r}]
            /\ Dispatch(r) \/ UNCHANGED dispatched
            /\ UNCHANGED <<repo, reserved, client>>
      BY <1>3 DEF DispatchNext
    <2>2. Pair(r) \in reserved
      BY DEF OnlyReservedWork
    <2>3. dispatched' \subseteq reserved
      BY <2>1, <2>2 DEF Dispatch, OnlyReservedWork, Pair
    <2>4. scan'.queue \subseteq scan.queue
      BY <2>1 DEF TypeInv, TypeOK, ScanTypeOK
    <2> QED BY <2>1, <2>3, <2>4 DEF OnlyReservedWork, ClientsBacked, FileReserved, Pair
  <1>4. CASE EndScan
    <2>1. scan'.queue = {} /\ UNCHANGED <<repo, reserved, client, dispatched>>
      BY <1>4 DEF EndScan, IdleScan
    <2> QED BY <2>1 DEF OnlyReservedWork, ClientsBacked, FileReserved
  <1>5. ASSUME NEW sha \in Shas, IndexEnds(sha) PROVE WorkInv'
    <2>1. ClientsBacked'
      BY <1>5, IdleBacked DEF IndexEnds, TypeInv, TypeOK, UpdateTypeOK, ClientsBacked,
                              IdleClient
    <2> QED BY <1>5, <2>1 DEF IndexEnds, OnlyReservedWork, FileReserved, Pair
  <1>6. ASSUME NEW sha \in Shas, Rerun(sha) PROVE WorkInv'
    BY <1>6 DEF Rerun, OnlyReservedWork, ClientsBacked, FileReserved, Pair
  <1>7. CASE ListingChanges
    BY <1>7 DEF ListingChanges, OnlyReservedWork, ClientsBacked, FileReserved, Pair
  <1>8. CASE Tick
    BY <1>8 DEF Tick, OnlyReservedWork, ClientsBacked, FileReserved, Pair
  <1> QED BY <1>1, <1>2, <1>3, <1>4, <1>5, <1>6, <1>7, <1>8

\* No indexing run is started for an attempt that the saved state never
\* recorded, however many answers are lost, delayed or misread.
THEOREM WorkIsReserved == Spec => []OnlyReservedWork
  <1>1. TypeInv /\ WorkInv /\ [Next]_vars => (TypeInv /\ WorkInv)'
    <2> SUFFICES ASSUME TypeInv, WorkInv, [Next]_vars PROVE (TypeInv /\ WorkInv)'
      OBVIOUS
    <2>1. CASE UNCHANGED vars
      BY <2>1, TypeStutter DEF vars, WorkInv, OnlyReservedWork, ClientsBacked,
                               FileReserved, Pair
    <2>2. CASE Next
      BY <2>2, UpdateTypeStep, OtherTypeStep, UpdateWorkStep, OtherWorkStep DEF Next
    <2> QED BY <2>1, <2>2
  <1>2. WorkInv => OnlyReservedWork
    BY DEF WorkInv
  <1> QED BY <1>1, <1>2, TypeInit, WorkInit, PTL DEF Spec

-----------------------------------------------------------------------------
(***************************************************************************)
(* The file, its conditional writes and their retries implement the ledger: *)
(* every change of what a reader sees is one whole reservation or           *)
(* completion, computed from what the reader saw just before it.            *)
(***************************************************************************)
USE DEF envVars, repoVars, runVars

\* The ledger's operators are this module's.
LEMMA SameEmpty == ASSUME NEW t PROVE Abstract!emptyState(t) = emptyState(t)
  BY DEF emptyState, Abstract!emptyState

LEMMA SameCardinality ==
  ASSUME NEW S PROVE Abstract!Cardinality(S) = Cardinality(S)
  BY DEF Cardinality, Abstract!Cardinality

LEMMA SameListing ==
  ASSUME NEW l, NEW sha
  PROVE  /\ Abstract!Listed(l) = Listed(l)
         /\ Abstract!PositionOf(l, sha) = PositionOf(l, sha)
         /\ Abstract!CandidateOf(l, sha) = CandidateOf(l, sha)
  <1>1. Abstract!PositionOf(l, sha) = PositionOf(l, sha)
    BY DEF PositionOf, Abstract!PositionOf
  <1> QED BY <1>1 DEF Listed, Abstract!Listed, CandidateOf, Abstract!CandidateOf

LEMMA SameChosen ==
  ASSUME NEW l, NEW reset, NEW state, NEW t
  PROVE  Abstract!Chosen(l, reset, state, t) = Chosen(l, reset, state, t)
  <1>1. \A s, sha : Abstract!Ahead(l, reset, s, sha) = Ahead(l, reset, s, sha)
    BY SameListing DEF Ahead, Abstract!Ahead
  <1>2. \A s : Abstract!Eligible(Abstract!Existing(state, reset, s), t)
                 = Eligible(Existing(state, reset, s), t)
    BY DEF Eligible, Waiting, Exhausted, Unfinished, Retained, Existing,
           Abstract!Eligible, Abstract!Waiting, Abstract!Exhausted,
           Abstract!Unfinished, Abstract!Retained, Abstract!Existing
  <1>3. Abstract!Listed(l) = Listed(l)
    BY SameListing
  <1> DEFINE Before(sha) == {s \in Listed(l) :
                               /\ Eligible(Existing(state, reset, s), t)
                               /\ Ahead(l, reset, s, sha)}
  <1>4. Chosen(l, reset, state, t)
          = {sha \in Listed(l) : /\ Eligible(Existing(state, reset, sha), t)
                                 /\ Cardinality(Before(sha)) < MaxIndexes}
    BY DEF Chosen
  <1>5. Abstract!Chosen(l, reset, state, t)
          = {sha \in Listed(l) :
               /\ Abstract!Eligible(Abstract!Existing(state, reset, sha), t)
               /\ Abstract!Cardinality(
                    {s \in Listed(l) :
                       /\ Abstract!Eligible(Abstract!Existing(state, reset, s), t)
                       /\ Abstract!Ahead(l, reset, s, sha)}) < MaxIndexes}
    BY <1>3 DEF Abstract!Chosen
  <1>6. \A sha : {s \in Listed(l) :
                    /\ Abstract!Eligible(Abstract!Existing(state, reset, s), t)
                    /\ Abstract!Ahead(l, reset, s, sha)} = Before(sha)
    BY <1>1, <1>2
  <1>7. \A sha : Abstract!Cardinality(Before(sha)) = Cardinality(Before(sha))
    BY SameCardinality
  <1> HIDE DEF Before
  <1> QED BY <1>2, <1>4, <1>5, <1>6, <1>7

LEMMA SameReserve ==
  ASSUME NEW l, NEW reset, NEW state, NEW t
  PROVE  Abstract!reserveCandidates(l, reset, state, t)
           = reserveCandidates(l, reset, state, t)
  <1>1. Abstract!Chosen(l, reset, state, t) = Chosen(l, reset, state, t)
    BY SameChosen
  <1>2. Abstract!Listed(l) = Listed(l)
          /\ \A sha : Abstract!CandidateOf(l, sha) = CandidateOf(l, sha)
    BY SameListing
  <1>3. Abstract!ReserveChanges(l, reset, state, t) = ReserveChanges(l, reset, state, t)
    BY <1>1, <1>2 DEF ReserveChanges, Abstract!ReserveChanges
  <1>4. \A sha : Abstract!ReservedEntry(l, reset, state, t, sha)
                   = ReservedEntry(l, reset, state, t, sha)
    BY <1>1, <1>2 DEF ReservedEntry, Existing, NextAttempt, QueuedEntry,
                      Abstract!ReservedEntry, Abstract!Existing,
                      Abstract!NextAttempt, Abstract!QueuedEntry
  <1> QED BY <1>3, <1>4 DEF reserveCandidates, Abstract!reserveCandidates

LEMMA SameComplete ==
  ASSUME NEW state, NEW candidate, NEW attempt, NEW conclusion, NEW t
  PROVE  Abstract!completeCandidate(state, candidate, attempt, conclusion, t)
           = completeCandidate(state, candidate, attempt, conclusion, t)
  BY DEF completeCandidate, StaleCompletion, CompletedEntry,
         Abstract!completeCandidate, Abstract!StaleCompletion,
         Abstract!CompletedEntry

LEMMA SameParse ==
  ASSUME NEW state
  PROVE  /\ Abstract!parseState(state) = parseState(state)
         /\ Abstract!QueuedAttempts(state) = QueuedAttempts(state)
  BY DEF parseState, ParseEntry, QueuedAttempts,
         Abstract!parseState, Abstract!ParseEntry, Abstract!QueuedAttempts

-----------------------------------------------------------------------------
(***************************************************************************)
(* What a client may write next: the ledger, after one operation.           *)
(***************************************************************************)
ReserveOutcome(state) ==
    \E l \in Listings, reset \in Shas \cup {NoSha}, t \in 0..now :
        /\ reset # NoSha => reset \in Listed(l)
        /\ state = reserveCandidates(l, reset, Ledger, t)

CompleteOutcome(state) ==
    \E candidate \in Candidates, conclusion \in Conclusions, t \in 0..now :
        \E p \in reserved :
            /\ p[1] = candidate.sha
            /\ state = completeCandidate(Ledger, candidate, p[2], conclusion, t)

Outcome(state) == ReserveOutcome(state) \/ CompleteOutcome(state)

(***************************************************************************)
(* The invariant.  A mutation that can still land was computed from the     *)
(* version it names; a scan that is in update holds a listing; a run, in    *)
(* whatever place, is of a reserved attempt.                                *)
(***************************************************************************)
Justified(m) ==
    /\ m.base <= repo.version
    /\ m.base = repo.version => Outcome(m.state)

WritesJustified ==
    /\ \A m \in late : Justified(m)
    /\ \A w \in Clients : client[w].pc = "write" => Justified(client[w].mutation)

ScanSound ==
    /\ (client[Scanner].pc # "idle") <=> (scan.pc = "reserve")
    /\ scan.pc = "reserve" =>
         /\ scan.listing \in Listings
         /\ scan.reset # NoSha => scan.reset \in Listed(scan.listing)

RunOf(sha, run) ==
    run # NoRun => run.candidate.sha = sha /\ <<sha, run.attempt>> \in reserved

RunsReserved ==
    \A sha \in Shas :
        /\ RunOf(sha, group[sha].active)
        /\ RunOf(sha, group[sha].pending)
        /\ RunOf(sha, finished[sha])

RefInv == WritesJustified /\ ScanSound /\ RunsReserved

\* Computed from an empty state, or from another that holds no more entries,
\* a result that changes anything is the same.
LEMMA ReserveFromEmpty ==
  ASSUME NEW l, NEW reset, NEW t, NEW u,
         reserveCandidates(l, reset, emptyState(t), t) # emptyState(t)
  PROVE  reserveCandidates(l, reset, emptyState(t), t)
           = reserveCandidates(l, reset, emptyState(u), t)
  <1>1. \A v : emptyState(v).entries = emptyState(u).entries
    BY DEF emptyState
  <1>2. \A sha : NextAttempt(emptyState(t), reset, sha)
                   = NextAttempt(emptyState(u), reset, sha)
    BY <1>1 DEF NextAttempt
  <1>3. \A sha : Existing(emptyState(t), reset, sha) = Existing(emptyState(u), reset, sha)
    BY <1>1 DEF Existing
  <1>4. Chosen(l, reset, emptyState(t), t) = Chosen(l, reset, emptyState(u), t)
    BY <1>3 DEF Chosen
  <1>5. \A sha : ReservedEntry(l, reset, emptyState(t), t, sha)
                   = ReservedEntry(l, reset, emptyState(u), t, sha)
    BY <1>2, <1>3, <1>4 DEF ReservedEntry
  <1>6. ReserveChanges(l, reset, emptyState(t), t)
          = ReserveChanges(l, reset, emptyState(u), t)
    BY <1>1, <1>4 DEF ReserveChanges
  <1> QED BY <1>5, <1>6 DEF reserveCandidates

LEMMA CompleteFromEmpty ==
  ASSUME NEW candidate \in Candidates, NEW attempt, NEW conclusion, NEW t, NEW u
  PROVE  completeCandidate(emptyState(t), candidate, attempt, conclusion, t)
           = completeCandidate(emptyState(u), candidate, attempt, conclusion, t)
  <1>1. candidate.sha \in Shas
    BY DEF Candidates
  <1>2. emptyState(t).entries = emptyState(u).entries
          /\ emptyState(u).entries[candidate.sha] = NoEntry
    BY <1>1 DEF emptyState
  <1> QED BY <1>2 DEF completeCandidate, StaleCompletion

\* What update is about to write is an outcome.
LEMMA MutateOutcome ==
  ASSUME TypeInv, RefInv, NEW w \in Clients, client[w].pc # "idle",
         mutate(w, read).state # read
  PROVE  mutate(w, read).base = repo.version /\ Outcome(mutate(w, read).state)
  <1>1. now \in Nat /\ now \in 0..now /\ repo.version \in Nat
    BY DEF TypeInv, TypeOK, EnvTypeOK, RepoTypeOK
  <1>2. CASE w = Scanner
    <2> DEFINE after == reserveCandidates(scan.listing, scan.reset, read, now)
    <2>1. mutate(w, read).state = after /\ mutate(w, read).base = repo.version
      BY <1>2 DEF mutate
    <2>2. after = reserveCandidates(scan.listing, scan.reset, Ledger, now)
      <3>1. CASE repo.version = 0
        <4>1. read = emptyState(now) /\ Ledger = emptyState(0)
          BY <3>1 DEF read, Ledger
        <4>2. after # emptyState(now)
          BY <2>1, <4>1
        <4> QED BY <4>1, <4>2, ReserveFromEmpty
      <3>2. CASE repo.version # 0
        BY <3>2 DEF read, Ledger
      <3> QED BY <3>1, <3>2
    <2>3. scan.listing \in Listings /\ (scan.reset # NoSha => scan.reset \in Listed(scan.listing))
            /\ scan.reset \in Shas \cup {NoSha}
      BY <1>2 DEF RefInv, ScanSound, TypeInv, TypeOK, ScanTypeOK
    <2>4. ReserveOutcome(after)
      BY <1>1, <2>2, <2>3 DEF ReserveOutcome
    <2> QED BY <2>1, <2>4 DEF Outcome
  <1>3. CASE w # Scanner
    <2> DEFINE run == group[w].active
               after == completeCandidate(read, run.candidate, run.attempt,
                                          run.conclusion, now)
    <2>1. mutate(w, read).state = after /\ mutate(w, read).base = repo.version
      BY <1>3 DEF mutate
    <2>2. w \in Shas
      BY <1>3 DEF Clients
    <2>3. run \in Run /\ run # NoRun /\ run.conclusion \in Conclusions
      BY <2>2 DEF TypeInv, TypeOK, FinalizersRun, RunTypeOK
    <2>4. run.candidate \in Candidates
      BY <2>3 DEF Run
    <2>5. run.candidate.sha = w /\ <<w, run.attempt>> \in reserved
      BY <2>2, <2>3 DEF RefInv, RunsReserved, RunOf
    <2>6. after = completeCandidate(Ledger, run.candidate, run.attempt,
                                    run.conclusion, now)
      <3>1. CASE repo.version = 0
        BY <2>4, <3>1, CompleteFromEmpty DEF read, Ledger
      <3>2. CASE repo.version # 0
        BY <3>2 DEF read, Ledger
      <3> QED BY <3>1, <3>2
    <2>7. CompleteOutcome(after)
      <3> DEFINE p == <<w, run.attempt>>
      <3>1. p \in reserved /\ p[1] = run.candidate.sha /\ p[2] = run.attempt
        BY <2>5
      <3> QED BY <1>1, <2>3, <2>4, <2>6, <3>1 DEF CompleteOutcome
    <2> QED BY <2>1, <2>7 DEF Outcome
  <1> QED BY <1>2, <1>3

\* An outcome stays one as long as the file stays as it is.
LEMMA OutcomeStable ==
  ASSUME NEW state, Outcome(state), UNCHANGED repo, reserved \subseteq reserved',
         now \in Nat, now' \in Nat, now <= now'
  PROVE  Outcome(state)'
  <1>1. Ledger' = Ledger
    BY DEF Ledger
  <1>2. 0..now \subseteq 0..now'
    OBVIOUS
  <1>3. CASE ReserveOutcome(state)
    BY <1>1, <1>2, <1>3 DEF ReserveOutcome, Outcome
  <1>4. CASE CompleteOutcome(state)
    BY <1>1, <1>2, <1>4 DEF CompleteOutcome, Outcome
  <1> QED BY <1>3, <1>4 DEF Outcome

\* A justified write that lands is a step of the ledger.
LEMMA LandingStep ==
  ASSUME NEW m, Justified(m), m.base = repo.version, repo.version \in Nat,
         Commit(m.state), UNCHANGED now
  PROVE  Abstract!LedgerNext
  <1>1. Ledger' = parseState(m.state)
          /\ reserved' = reserved \cup QueuedAttempts(m.state)
    BY DEF Commit, Ledger
  <1>2. Abstract!LedgerBecomes(m.state)
    BY <1>1, SameParse DEF Abstract!LedgerBecomes
  <1>3. CASE ReserveOutcome(m.state)
    <2>1. PICK l \in Listings, reset \in Shas \cup {NoSha}, t \in 0..now :
            /\ reset # NoSha => reset \in Listed(l)
            /\ m.state = reserveCandidates(l, reset, Ledger, t)
      BY <1>3 DEF ReserveOutcome
    <2>2. reset # NoSha => reset \in Abstract!Listed(l)
      BY <2>1, SameListing
    <2>3. Abstract!LedgerBecomes(Abstract!reserveCandidates(l, reset, Ledger, t))
      BY <1>2, <2>1, SameReserve
    <2> QED BY <2>2, <2>3 DEF Abstract!LedgerNext, Abstract!LedgerReserve
  <1>4. CASE CompleteOutcome(m.state)
    <2>1. PICK candidate \in Candidates, conclusion \in Conclusions, t \in 0..now :
            \E p \in reserved :
              /\ p[1] = candidate.sha
              /\ m.state = completeCandidate(Ledger, candidate, p[2], conclusion, t)
      BY <1>4 DEF CompleteOutcome
    <2>2. PICK p \in reserved :
              /\ p[1] = candidate.sha
              /\ m.state = completeCandidate(Ledger, candidate, p[2], conclusion, t)
      BY <2>1
    <2>3. Abstract!LedgerBecomes(
            Abstract!completeCandidate(Ledger, candidate, p[2], conclusion, t))
      BY <1>2, <2>2, SameComplete
    <2>4. candidate \in Abstract!Candidates /\ conclusion \in Abstract!Conclusions
      BY DEF Candidates, Conclusions, Abstract!Candidates, Abstract!Conclusions
    <2> QED BY <2>2, <2>3, <2>4 DEF Abstract!LedgerNext, Abstract!LedgerComplete
  <1> QED BY <1>3, <1>4 DEF Justified, Outcome

\* Writes stay justified: while the file stays as it is, because their outcomes
\* do; when it changes, because it leaves the version they name.
LEMMA JustifiedStable ==
  ASSUME NEW m, Justified(m), m.base \in Nat, repo.version \in Nat,
         now \in Nat, now' \in Nat, now <= now', reserved \subseteq reserved',
         repo' = repo \/ repo'.version = repo.version + 1
  PROVE  Justified(m)'
  <1>1. CASE repo' = repo
    <2>1. m.base = repo.version => Outcome(m.state)'
      BY <1>1, OutcomeStable DEF Justified
    <2> QED BY <1>1, <2>1 DEF Justified
  <1>2. CASE repo'.version = repo.version + 1
    BY <1>2 DEF Justified
  <1> QED BY <1>1, <1>2

LEMMA RunsReservedStable ==
  ASSUME RunsReserved, UNCHANGED <<group, finished>>, reserved \subseteq reserved'
  PROVE  RunsReserved'
  BY DEF RunsReserved, RunOf

\* A run that is enqueued.
LEMMA EnqueueReserved ==
  ASSUME TypeInv, RunsReserved, NEW sha \in Shas, NEW run, RunOf(sha, run),
         group' = [group EXCEPT ![sha] = Enqueue(group[sha], run)],
         finished' = finished, reserved' = reserved
  PROVE  RunsReserved'
  <1>1. \/ group'[sha].active = run /\ group'[sha].pending = group[sha].pending
        \/ group'[sha].active = group[sha].active /\ group'[sha].pending = run
    BY DEF Enqueue, TypeInv, TypeOK, RunTypeOK
  <1>2. \A s \in Shas \ {sha} : group'[s] = group[s]
    BY DEF TypeInv, TypeOK, RunTypeOK
  <1>3. \A s \in Shas : /\ RunOf(s, group[s].active)'
                        /\ RunOf(s, group[s].pending)'
                        /\ RunOf(s, finished[s])'
    <2> SUFFICES ASSUME NEW s \in Shas
                 PROVE  /\ RunOf(s, group[s].active)'
                        /\ RunOf(s, group[s].pending)'
                        /\ RunOf(s, finished[s])'
      OBVIOUS
    <2>1. CASE s = sha
      <3>1. RunOf(sha, group[sha].active)
              /\ RunOf(sha, group[sha].pending) /\ RunOf(sha, finished[sha])
        BY DEF RunsReserved, RunOf
      <3>2. RunOf(sha, group'[sha].active) /\ RunOf(sha, group'[sha].pending)
              /\ RunOf(sha, finished'[sha])
        BY <1>1, <3>1
      <3> QED BY <2>1, <3>2 DEF RunOf
    <2>2. CASE s # sha
      BY <1>2, <2>2 DEF RunsReserved, RunOf
    <2> QED BY <2>1, <2>2
  <1> QED BY <1>3 DEF RunsReserved

\* The end of a run.
LEMMA EndRunReserved ==
  ASSUME TypeInv, RefInv, NEW sha \in Shas, NEW recorded \in BOOLEAN,
         EndRun(sha, recorded), reserved \subseteq reserved'
  PROVE  RunsReserved'
  <1>1. /\ group'[sha].active = group[sha].pending
        /\ group'[sha].pending = NoRun
        /\ finished'[sha] = group[sha].active
        /\ \A s \in Shas \ {sha} : group'[s] = group[s] /\ finished'[s] = finished[s]
    BY DEF EndRun, NextInGroup, TypeInv, TypeOK, RunTypeOK
  <1>2. \A s \in Shas : /\ RunOf(s, group[s].active)'
                        /\ RunOf(s, group[s].pending)'
                        /\ RunOf(s, finished[s])'
    <2> SUFFICES ASSUME NEW s \in Shas
                 PROVE  /\ RunOf(s, group[s].active)'
                        /\ RunOf(s, group[s].pending)'
                        /\ RunOf(s, finished[s])'
      OBVIOUS
    <2>1. CASE s = sha
      BY <1>1, <2>1 DEF RefInv, RunsReserved, RunOf
    <2>2. CASE s # sha
      BY <1>1, <2>2 DEF RefInv, RunsReserved, RunOf
    <2> QED BY <2>1, <2>2
  <1> QED BY <1>2 DEF RunsReserved

\* A client leaves update, or starts another turn of it: its write is no longer
\* its own, and the scan's phase follows.
LEMMA ReturnRef ==
  ASSUME TypeInv, RefInv, NEW w \in Clients, client[w].pc # "idle",
         NEW selected, Return(w, selected), reserved \subseteq reserved'
  PROVE  /\ ScanSound' /\ RunsReserved' /\ client'[w].pc = "idle"
         /\ \A v \in Clients \ {w} : client'[v] = client[v]
  <1>1. client'[w].pc = "idle" /\ \A v \in Clients \ {w} : client'[v] = client[v]
    BY DEF Return, TypeInv, TypeOK, UpdateTypeOK, IdleClient
  <1>2. CASE w = Scanner
    <2>1. scan'.pc = "dispatch" /\ UNCHANGED <<group, finished>>
      BY <1>2 DEF Return, TypeInv, TypeOK, ScanTypeOK
    <2> QED BY <1>1, <1>2, <2>1, RunsReservedStable DEF ScanSound, RefInv
  <1>3. CASE w # Scanner
    <2>1. scan' = scan /\ EndRun(w, TRUE) /\ w \in Shas
      BY <1>3 DEF Return, Clients
    <2>2. client'[Scanner] = client[Scanner]
      BY <1>1, <1>3 DEF Clients
    <2> QED BY <1>1, <2>1, <2>2, EndRunReserved DEF ScanSound, RefInv
  <1> QED BY <1>2, <1>3

LEMMA AbortRef ==
  ASSUME TypeInv, RefInv, NEW w \in Clients, client[w].pc # "idle", Abort(w),
         reserved \subseteq reserved'
  PROVE  /\ ScanSound' /\ RunsReserved' /\ client'[w].pc = "idle"
         /\ \A v \in Clients \ {w} : client'[v] = client[v]
  <1>1. client'[w].pc = "idle" /\ \A v \in Clients \ {w} : client'[v] = client[v]
    BY DEF Abort, TypeInv, TypeOK, UpdateTypeOK, IdleClient
  <1>2. CASE w = Scanner
    <2>1. scan'.pc = "idle" /\ UNCHANGED <<group, finished>>
      BY <1>2 DEF Abort, IdleScan
    <2> QED BY <1>1, <1>2, <2>1, RunsReservedStable DEF ScanSound, RefInv
  <1>3. CASE w # Scanner
    <2>1. scan' = scan /\ EndRun(w, FALSE) /\ w \in Shas
      BY <1>3 DEF Abort, Clients
    <2>2. client'[Scanner] = client[Scanner]
      BY <1>1, <1>3 DEF Clients
    <2> QED BY <1>1, <2>1, <2>2, EndRunReserved DEF ScanSound, RefInv
  <1> QED BY <1>2, <1>3

LEMMA RetryRef ==
  ASSUME TypeInv, RefInv, NEW w \in Clients, client[w].pc # "idle",
         NEW ambiguous, Retry(w, ambiguous), reserved \subseteq reserved'
  PROVE  /\ ScanSound' /\ RunsReserved' /\ client'[w].pc = "read"
         /\ \A v \in Clients \ {w} : client'[v] = client[v]
  <1>1. client'[w].pc = "read" /\ \A v \in Clients \ {w} : client'[v] = client[v]
    BY DEF Retry, TypeInv, TypeOK, UpdateTypeOK
  <1>2. scan' = scan /\ UNCHANGED <<group, finished>>
    BY DEF Retry
  <1> QED BY <1>1, <1>2, RunsReservedStable DEF ScanSound, RefInv, Clients

\* Each step of update keeps the invariant, and is a step of the ledger if it
\* changes the file.
LEMMA UpdateRefStep ==
  ASSUME TypeInv, RefInv, NEW w \in Clients, Update(w)
  PROVE  RefInv' /\ (Abstract!LedgerNext \/ UNCHANGED <<now, Ledger, reserved>>)
  <1>1. /\ now \in Nat /\ repo.version \in Nat /\ client[w].mutation \in Mutation
        /\ \A m \in late : m \in Mutation
        /\ \A v \in Clients : client[v].mutation \in Mutation
    BY DEF TypeInv, TypeOK, EnvTypeOK, RepoTypeOK, UpdateTypeOK
  <1>2. \A m \in Mutation : m.base \in Nat
    BY DEF Mutation
  <1>3. client[w].pc # "idle" /\ UNCHANGED now
    BY DEF Update, Read, ReadFails, GiveUp, WriteAccepted, WriteRefused,
           WriteUnanswered, Killed
  <1>4. UNCHANGED <<repo, reserved>> => UNCHANGED <<now, Ledger, reserved>>
    BY <1>3 DEF Ledger
  <1>5. ASSUME UNCHANGED <<repo, reserved>>, client'[w].pc # "write",
               \A v \in Clients \ {w} : client'[v] = client[v],
               \A m \in late' : m \in late \/ (m = client[w].mutation
                                               /\ client[w].pc = "write")
        PROVE  WritesJustified'
    <2>1. \A m \in late' : m \in Mutation /\ Justified(m)
      BY <1>1, <1>5 DEF RefInv, WritesJustified
    <2>2. \A m \in late' : Justified(m)'
      BY <1>1, <1>2, <1>3, <1>5, <2>1, JustifiedStable
    <2>3. \A v \in Clients : client'[v].pc = "write" => Justified(client[v].mutation)
      BY <1>5 DEF RefInv, WritesJustified
    <2>4. \A v \in Clients : client'[v].pc = "write" => Justified(client[v].mutation)'
      BY <1>1, <1>2, <1>3, <1>5, <2>3, JustifiedStable
    <2> QED BY <1>5, <2>2, <2>4 DEF WritesJustified
  <1>6. CASE Read(w)
    <2> DEFINE mutation == mutate(w, read)
    <2>1. UNCHANGED <<repo, reserved, late>>
      BY <1>6 DEF Read
    <2>2. CASE \E selected : Return(w, selected)
      BY <1>3, <1>4, <1>5, <2>1, <2>2, ReturnRef DEF RefInv
    <2>3. CASE /\ mutation.state # read
               /\ client' = [client EXCEPT ![w].pc = "write",
                                           ![w].mutation = mutation]
               /\ UNCHANGED <<scan, runVars>>
      <3>1. mutation \in Mutation /\ mutation.base = repo.version
              /\ Outcome(mutation.state)
        BY <1>3, <2>3, MutateType, MutateOutcome
      <3>2. Justified(mutation)
        BY <1>1, <3>1 DEF Justified
      <3>3. /\ client'[w].pc = "write" /\ client'[w].mutation = mutation
            /\ \A v \in Clients \ {w} : client'[v] = client[v]
        BY <2>3 DEF TypeInv, TypeOK, UpdateTypeOK
      <3> HIDE DEF mutation
      <3>4. \A m : m \in Mutation /\ Justified(m) => Justified(m)'
        BY <1>1, <1>2, <1>3, <2>1, JustifiedStable
      <3>5. WritesJustified'
        BY <1>1, <2>1, <3>1, <3>2, <3>3, <3>4 DEF RefInv, WritesJustified
      <3>6. ScanSound' /\ RunsReserved'
        BY <1>3, <2>1, <2>3, <3>3, RunsReservedStable DEF RefInv, ScanSound, Clients
      <3> QED BY <1>4, <2>1, <3>5, <3>6 DEF RefInv
    <2> QED BY <1>6, <2>2, <2>3 DEF Read, sameState
  <1>7. CASE ReadFails(w)
    <2>1. Retry(w, client[w].ambiguous) /\ UNCHANGED <<repo, reserved, late>>
      BY <1>7 DEF ReadFails
    <2> QED BY <1>3, <1>4, <1>5, <2>1, RetryRef DEF RefInv
  <1>8. CASE GiveUp(w)
    <2>1. Abort(w) /\ UNCHANGED <<repo, reserved, late>>
      BY <1>8 DEF GiveUp
    <2> QED BY <1>3, <1>4, <1>5, <2>1, AbortRef DEF RefInv
  <1>9. CASE WriteAccepted(w)
    <2> DEFINE m == client[w].mutation
    <2>1. /\ client[w].pc = "write" /\ m.base = repo.version
          /\ Commit(m.state) /\ Return(w, m.selected) /\ UNCHANGED late
      BY <1>9 DEF WriteAccepted, Lands
    <2>2. Justified(m)
      BY <2>1 DEF RefInv, WritesJustified
    <2>3. Abstract!LedgerNext
      BY <1>1, <1>3, <2>1, <2>2, LandingStep
    <2>4. reserved \subseteq reserved' /\ repo'.version = repo.version + 1
      BY <2>1 DEF Commit
    <2>5. /\ ScanSound' /\ RunsReserved' /\ client'[w].pc = "idle"
          /\ \A v \in Clients \ {w} : client'[v] = client[v]
      BY <1>3, <2>1, <2>4, ReturnRef
    <2>6. \A n : n \in Mutation /\ Justified(n) => Justified(n)'
      BY <1>1, <1>2, <1>3, <2>4, JustifiedStable
    <2>7. WritesJustified'
      BY <1>1, <2>1, <2>5, <2>6 DEF RefInv, WritesJustified
    <2> QED BY <2>3, <2>5, <2>7 DEF RefInv
  <1>10. CASE WriteRefused(w)
    <2>1. /\ Abort(w) \/ Retry(w, client[w].ambiguous)
          /\ UNCHANGED <<repo, reserved, late>>
      BY <1>10 DEF WriteRefused
    <2> QED BY <1>3, <1>4, <1>5, <2>1, AbortRef, RetryRef DEF RefInv
  <1>11. CASE WriteUnanswered(w)
    <2>1. /\ client[w].pc = "write"
          /\ late' = late \/ late' = late \cup {client[w].mutation}
          /\ Retry(w, client[w].ambiguous \cup {client[w].mutation})
          /\ UNCHANGED <<repo, reserved>>
      BY <1>11 DEF WriteUnanswered
    <2> QED BY <1>3, <1>4, <1>5, <2>1, RetryRef DEF RefInv
  <1>12. CASE Killed(w)
    <2>1. /\ late' = late
              \/ (late' = late \cup {client[w].mutation} /\ client[w].pc = "write")
          /\ Abort(w)
          /\ UNCHANGED <<repo, reserved>>
      BY <1>12 DEF Killed
    <2> QED BY <1>3, <1>4, <1>5, <2>1, AbortRef DEF RefInv
  <1> QED BY <1>6, <1>7, <1>8, <1>9, <1>10, <1>11, <1>12 DEF Update

\* The other steps keep the invariant; one of them is the late arrival of a
\* write, and one is the ledger's clock.
LEMMA OtherRefStep ==
  ASSUME TypeInv, RefInv, WorkInv,
         \/ LateWriteArrives \/ StartScan \/ DispatchNext \/ EndScan
         \/ \E sha \in Shas : IndexEnds(sha) \/ Rerun(sha)
         \/ ListingChanges \/ Tick
  PROVE  RefInv' /\ (Abstract!LedgerNext \/ UNCHANGED <<now, Ledger, reserved>>)
  <1>1. /\ now \in Nat /\ repo.version \in Nat
        /\ \A m \in late : m \in Mutation
        /\ \A v \in Clients : client[v].mutation \in Mutation
        /\ \A m \in Mutation : m.base \in Nat
    BY DEF TypeInv, TypeOK, EnvTypeOK, RepoTypeOK, UpdateTypeOK, Mutation
  <1>2. CASE LateWriteArrives
    <2>1. PICK m \in late :
            /\ late' = late \ {m}
            /\ IF m.base = repo.version THEN Commit(m.state)
               ELSE UNCHANGED <<repo, reserved>>
            /\ UNCHANGED <<now, client, scan, group, finished>>
      BY <1>2 DEF LateWriteArrives, Lands
    <2>2. Justified(m)
      BY DEF RefInv, WritesJustified
    <2>3. CASE m.base = repo.version
      <3>1. Abstract!LedgerNext
        BY <1>1, <2>1, <2>2, <2>3, LandingStep
      <3>2. reserved \subseteq reserved' /\ repo'.version = repo.version + 1
        BY <2>1, <2>3 DEF Commit
      <3>3. \A n : n \in Mutation /\ Justified(n) => Justified(n)'
        BY <1>1, <2>1, <3>2, JustifiedStable
      <3>4. WritesJustified' /\ ScanSound'
        BY <1>1, <2>1, <3>3 DEF RefInv, WritesJustified, ScanSound
      <3>5. RunsReserved'
        BY <2>1, <3>2, RunsReservedStable DEF RefInv
      <3> QED BY <3>1, <3>4, <3>5 DEF RefInv
    <2>4. CASE m.base # repo.version
      <3>1. UNCHANGED <<repo, reserved, now, Ledger>>
        BY <2>1, <2>4 DEF Ledger
      <3>2. \A n : n \in Mutation /\ Justified(n) => Justified(n)'
        BY <1>1, <3>1, JustifiedStable
      <3>3. WritesJustified' /\ ScanSound'
        BY <1>1, <2>1, <3>2 DEF RefInv, WritesJustified, ScanSound
      <3>4. RunsReserved'
        BY <2>1, <3>1, RunsReservedStable DEF RefInv
      <3> QED BY <3>1, <3>3, <3>4 DEF RefInv
    <2> QED BY <2>3, <2>4
  <1>3. ASSUME UNCHANGED <<repo, reserved, late>>, now' = now \/ now' = now + 1,
               \A v \in Clients : client'[v].pc = "write" => client'[v] = client[v]
        PROVE  WritesJustified'
    <2>1. \A n : n \in Mutation /\ Justified(n) => Justified(n)'
      BY <1>1, <1>3, JustifiedStable
    <2> QED BY <1>1, <1>3, <2>1 DEF RefInv, WritesJustified
  <1>4. UNCHANGED <<repo, reserved, now>> => UNCHANGED <<now, Ledger, reserved>>
    BY DEF Ledger
  <1>5. CASE StartScan
    <2>1. UNCHANGED <<repo, reserved, late, now, group, finished>>
      BY <1>5 DEF StartScan
    <2>2. client'[Scanner].pc = "read"
            /\ \A v \in Clients \ {Scanner} : client'[v] = client[v]
      BY <1>5 DEF StartScan, TypeInv, TypeOK, UpdateTypeOK, Clients, IdleClient
    <2>3. /\ scan'.pc = "reserve" /\ scan'.listing = listing
          /\ scan'.reset = NoSha \/ scan'.reset \in Listed(listing)
      BY <1>5 DEF StartScan, TypeInv, TypeOK, ScanTypeOK
    <2>4. listing \in Listings
      BY DEF TypeInv, TypeOK, EnvTypeOK
    <2>5. ScanSound'
      BY <2>2, <2>3, <2>4 DEF ScanSound
    <2> QED BY <1>3, <1>4, <2>1, <2>2, <2>5, RunsReservedStable DEF RefInv
  <1>6. CASE DispatchNext
    <2>1. PICK r \in scan.queue :
            /\ scan' = [scan EXCEPT !.queue = @ \ {r}]
            /\ Dispatch(r) \/ UNCHANGED <<group, finished>>
            /\ UNCHANGED <<repo, reserved, late, now, client>>
      BY <1>6 DEF DispatchNext
    <2>2. /\ scan'.pc = scan.pc /\ scan'.listing = scan.listing
          /\ scan'.reset = scan.reset
      BY <2>1 DEF TypeInv, TypeOK, ScanTypeOK
    <2>3. ScanSound'
      BY <2>1, <2>2 DEF RefInv, ScanSound
    <2>4. CASE Dispatch(r)
      <3> DEFINE sha == r.candidate.sha
                 run == [candidate |-> r.candidate, attempt |-> r.attempt,
                         serial |-> newest[sha].serial + 1, phase |-> "index",
                         conclusion |-> "none"]
      <3>1. sha \in Shas
        BY DEF TypeInv, TypeOK, ScanTypeOK, Reservation, Candidates
      <3>2. RunOf(sha, run)
        BY DEF WorkInv, OnlyReservedWork, Pair, RunOf
      <3>3. group' = [group EXCEPT ![sha] = Enqueue(group[sha], run)]
              /\ finished' = finished
        BY <2>4 DEF Dispatch
      <3> QED BY <1>3, <1>4, <2>1, <2>3, <3>1, <3>2, <3>3, EnqueueReserved DEF RefInv
    <2>5. CASE UNCHANGED <<group, finished>>
      BY <1>3, <1>4, <2>1, <2>3, <2>5, RunsReservedStable DEF RefInv
    <2> QED BY <2>1, <2>4, <2>5
  <1>7. CASE EndScan
    <2>1. /\ scan.pc = "dispatch" /\ scan' = IdleScan
          /\ UNCHANGED <<repo, reserved, late, now, client, group, finished>>
      BY <1>7 DEF EndScan
    <2>2. ScanSound'
      BY <2>1 DEF RefInv, ScanSound, IdleScan
    <2> QED BY <1>3, <1>4, <2>1, <2>2, RunsReservedStable DEF RefInv
  <1>8. ASSUME NEW sha \in Shas, IndexEnds(sha)
        PROVE  RefInv' /\ UNCHANGED <<now, Ledger, reserved>>
    <2>1. /\ UNCHANGED <<repo, reserved, late, now, scan, finished>>
          /\ group[sha].active # NoRun
      BY <1>8 DEF IndexEnds
    <2>2. client'[sha].pc = "read" /\ \A v \in Clients \ {sha} : client'[v] = client[v]
      BY <1>8 DEF IndexEnds, TypeInv, TypeOK, UpdateTypeOK, Clients, IdleClient
    <2>3. ScanSound'
      BY <2>1, <2>2, HostedIndexingAssumption DEF RefInv, ScanSound, Clients
    <2>4. PICK conclusion \in Conclusions :
            group' = [group EXCEPT ![sha].active.phase = "finalize",
                                   ![sha].active.conclusion = conclusion]
      BY <1>8 DEF IndexEnds
    <2>5. group[sha].active \in Run
      BY <2>1 DEF TypeInv, TypeOK, RunTypeOK
    <2>6. /\ group'[sha].active = [group[sha].active EXCEPT !.phase = "finalize",
                                                            !.conclusion = conclusion]
          /\ group'[sha].pending = group[sha].pending
          /\ \A s \in Shas \ {sha} : group'[s] = group[s]
      BY <2>4, <2>5 DEF TypeInv, TypeOK, RunTypeOK
    <2>7. /\ group'[sha].active.candidate = group[sha].active.candidate
          /\ group'[sha].active.attempt = group[sha].active.attempt
      BY <2>5, <2>6 DEF Run
    <2>8. RunsReserved'
      <3> SUFFICES ASSUME NEW s \in Shas
                   PROVE  /\ RunOf(s, group[s].active)'
                          /\ RunOf(s, group[s].pending)'
                          /\ RunOf(s, finished[s])'
        BY DEF RunsReserved
      <3>1. CASE s = sha
        BY <2>1, <2>6, <2>7, <3>1 DEF RefInv, RunsReserved, RunOf
      <3>2. CASE s # sha
        BY <2>1, <2>6, <3>2 DEF RefInv, RunsReserved, RunOf
      <3> QED BY <3>1, <3>2
    <2> QED BY <1>3, <1>4, <2>1, <2>2, <2>3, <2>8 DEF RefInv
  <1>9. ASSUME NEW sha \in Shas, Rerun(sha)
        PROVE  RefInv' /\ UNCHANGED <<now, Ledger, reserved>>
    <2> DEFINE run == [finished[sha] EXCEPT !.phase = "index", !.conclusion = "none"]
    <2>1. /\ UNCHANGED <<repo, reserved, late, now, scan, client, finished>>
          /\ finished[sha] # NoRun
          /\ group' = [group EXCEPT ![sha] = Enqueue(group[sha], run)]
      BY <1>9 DEF Rerun
    <2>2. finished[sha] \in Run
      BY <2>1 DEF TypeInv, TypeOK, RunTypeOK
    <2>3. run.candidate = finished[sha].candidate /\ run.attempt = finished[sha].attempt
      BY <2>2 DEF Run
    <2>4. RunOf(sha, run)
      BY <2>1, <2>3 DEF RefInv, RunsReserved, RunOf
    <2>5. RunsReserved'
      BY <2>1, <2>4, EnqueueReserved DEF RefInv
    <2>6. ScanSound'
      BY <2>1 DEF RefInv, ScanSound
    <2> QED BY <1>3, <1>4, <2>1, <2>5, <2>6 DEF RefInv
  <1>10. CASE ListingChanges
    <2>1. UNCHANGED <<repo, reserved, late, now, scan, client, group, finished>>
      BY <1>10 DEF ListingChanges
    <2>2. ScanSound'
      BY <2>1 DEF RefInv, ScanSound
    <2> QED BY <1>3, <1>4, <2>1, <2>2, RunsReservedStable DEF RefInv
  <1>11. CASE Tick
    <2>1. /\ UNCHANGED <<repo, reserved, late, scan, client, group, finished>>
          /\ now' = now + 1
      BY <1>11 DEF Tick
    <2>2. ScanSound'
      BY <2>1 DEF RefInv, ScanSound
    <2>3. Abstract!LedgerNext
      BY <2>1 DEF Ledger, Abstract!LedgerNext, Abstract!LedgerTick
    <2> QED BY <1>3, <2>1, <2>2, <2>3, RunsReservedStable DEF RefInv
  <1> QED BY <1>2, <1>5, <1>6, <1>7, <1>8, <1>9, <1>10, <1>11

LEMMA RefInit == Init => RefInv /\ Abstract!LedgerInit
  <1> SUFFICES ASSUME Init PROVE RefInv /\ Abstract!LedgerInit
    OBVIOUS
  <1>1. WritesJustified
    BY DEF Init, WritesJustified, IdleClient, Clients
  <1>2. ScanSound
    BY DEF Init, ScanSound, IdleClient, IdleScan, Clients
  <1>3. RunsReserved
    BY DEF Init, RunsReserved, RunOf, EmptyGroup
  <1>4. Abstract!LedgerInit
    BY SameEmpty DEF Init, Ledger, Abstract!LedgerInit
  <1> QED BY <1>1, <1>2, <1>3, <1>4 DEF RefInv

LEMMA InvStutter ==
  ASSUME TypeInv, WorkInv, RefInv, UNCHANGED vars
  PROVE  TypeInv' /\ WorkInv' /\ RefInv'
  <1>1. WorkInv'
    BY DEF vars, WorkInv, OnlyReservedWork, ClientsBacked, FileReserved, Pair
  <1>2. \A m : Justified(m) => Justified(m)'
    BY DEF vars, Justified, Outcome, ReserveOutcome, CompleteOutcome, Ledger
  <1>3. WritesJustified'
    BY <1>2 DEF vars, RefInv, WritesJustified
  <1>4. ScanSound' /\ RunsReserved'
    BY DEF vars, RefInv, ScanSound, RunsReserved, RunOf
  <1> QED BY <1>1, <1>3, <1>4, TypeStutter DEF RefInv

\* Whatever is lost, delayed, repeated or killed, the saved state changes only by
\* whole reservations and completions, each computed from the state it replaces.
THEOREM Refinement == Spec => ImplementsLedger
  <1> DEFINE Inv == TypeInv /\ WorkInv /\ RefInv
  <1>1. Init => Inv /\ Abstract!LedgerInit
    BY TypeInit, WorkInit, RefInit
  <1>2. Inv /\ [Next]_vars => Inv' /\ [Abstract!LedgerNext]_(Abstract!ledgerVars)
    <2> SUFFICES ASSUME Inv, [Next]_vars
                 PROVE  Inv' /\ [Abstract!LedgerNext]_(Abstract!ledgerVars)
      OBVIOUS
    <2>1. CASE UNCHANGED vars
      <3>1. Inv'
        BY <2>1, InvStutter
      <3>2. UNCHANGED Abstract!ledgerVars
        BY <2>1 DEF vars, Ledger, Abstract!ledgerVars
      <3> QED BY <3>1, <3>2
    <2>2. CASE Next
      <3>1. RefInv' /\ (Abstract!LedgerNext \/ UNCHANGED <<now, Ledger, reserved>>)
        BY <2>2, UpdateRefStep, OtherRefStep DEF Next
      <3>2. TypeInv' /\ WorkInv'
        BY <2>2, UpdateTypeStep, OtherTypeStep, UpdateWorkStep, OtherWorkStep DEF Next
      <3> QED BY <3>1, <3>2 DEF Abstract!ledgerVars
    <2> QED BY <2>1, <2>2
  <1> QED BY <1>1, <1>2, PTL DEF Spec, ImplementsLedger, Abstract!LedgerSpec

-----------------------------------------------------------------------------
(***************************************************************************)
(* How often a commit is attempted, and which result of it is kept, for     *)
(* every set of commits, every limit and any number of faults, lost answers *)
(* and late writes.                                                         *)
(***************************************************************************)
USE DEF envVars, repoVars, runVars

(***************************************************************************)
(* What holds around every update: nothing is known of a file that is not   *)
(* there, no write names a version that is still to come, an idle client    *)
(* holds nothing, a scan reserves from a listing and for a listed commit,   *)
(* and every run of a commit was dispatched for it.                         *)
(***************************************************************************)
\* The writes that may reach the file; that of an idle client never does.
Pending == late \cup {client[w].mutation : w \in Clients}

Fresh == repo.version = 0 => repo.state = emptyState(0)

Versioned ==
    /\ \A m \in Pending : m.base <= repo.version
    /\ \A w \in Clients : \A m \in client[w].ambiguous : m.base <= repo.version

IdleClients ==
    \A w \in Clients :
        /\ client[w].pc = "idle" => client[w] = IdleClient
        /\ client[w].pc = "read" => client[w].mutation = NoMutation

ScanRuns ==
    /\ client[Scanner].pc # "idle" => scan.pc = "reserve"
    /\ scan.pc = "idle" => scan = IdleScan
    /\ scan.pc # "idle" => scan.listing \in Listings
    /\ scan.reset # NoSha =>
          scan.reset \in Listed(scan.listing) /\ budget.resets < MaxResets
    /\ budget.resets <= MaxResets /\ budget.faults <= MaxFaults

RunsOf(sha) == {group[sha].active, group[sha].pending, finished[sha]} \ {NoRun}

RunsDispatched ==
    \A sha \in Shas : \A run \in RunsOf(sha) :
        run.candidate.sha = sha /\ <<sha, run.attempt>> \in dispatched

\* What a scan writes has its keys in the parser's order, and is not empty.
Plain(m) ==
    /\ \A sha \in Shas :
          m.state.entries[sha] = NoEntry \/ m.state.entries[sha].layout = "parsed"
    /\ m.base = 0 => \E sha \in Shas : m.state.entries[sha] # NoEntry

ScansPlain ==
    /\ client[Scanner].pc = "write" => Plain(client[Scanner].mutation)
    /\ \A m \in client[Scanner].ambiguous : Plain(m)

FrameInv == Fresh /\ Versioned /\ IdleClients /\ ScanRuns /\ RunsDispatched /\ ScansPlain

USE DEF Fresh, Versioned, IdleClients, ScanRuns, RunsDispatched, ScansPlain

-----------------------------------------------------------------------------
(***************************************************************************)
(* What any step does to the file and to the writes that may reach it.      *)
(***************************************************************************)
\* An update has computed a write from the file as it is; nothing else changes.
Computed(w, m) ==
    /\ client[w].pc = "read" /\ m = mutate(w, read) /\ m.state # read
    /\ UNCHANGED <<now, repo, late, reserved, scan, group, finished, dispatched, newest,
                   budget>>

Kept(w, m) ==
    \/ m \in client[w].ambiguous
    \/ client[w].pc = "write" /\ m = client[w].mutation

Landed(m) == m \in Pending /\ m.base = repo.version /\ Commit(m.state)

Moves ==
    /\ \A m \in Pending' : \/ m \in Pending \/ m = NoMutation
                           \/ \E w \in Clients : Computed(w, m)
    /\ \A w \in Clients : \A m \in client'[w].ambiguous : Kept(w, m)
    /\ UNCHANGED <<repo, reserved>> \/ \E m \in Pending : Landed(m)

\* The steps of update, each as what it does to the client, the file and the
\* rest: it computes, returns, writes, starts again or ends.
Held(w) == IF client[w].pc = "write" THEN {client[w].mutation} ELSE {}

Computes(w) ==
    /\ Computed(w, mutate(w, read))
    /\ client' = [client EXCEPT ![w].pc = "write", ![w].mutation = mutate(w, read)]

ReturnsRead(w) ==
    /\ client[w].pc = "read"
    /\ \E m \in client[w].ambiguous \cup {mutate(w, read)} :
          m.state = read /\ Return(w, m.selected)
    /\ UNCHANGED <<repo, late, reserved, budget>>

Accepted(w) ==
    /\ client[w].pc = "write" /\ client[w].mutation.base = repo.version
    /\ Commit(client[w].mutation.state) /\ Return(w, client[w].mutation.selected)
    /\ UNCHANGED <<late, budget>>

\* A write is abandoned only by a fault, or when it has been refused.
Abandons(w) ==
    /\ UNCHANGED <<repo, reserved>>
    /\ \/ UNCHANGED <<late, budget>>
       \/ late' \in {late, late \cup Held(w)} /\ Spend("faults")

StartsAgain(w) ==
    /\ \E ambiguous \in {client[w].ambiguous, client[w].ambiguous \cup Held(w)} :
          Retry(w, ambiguous)
    /\ Abandons(w)

Ends(w) == Abort(w) /\ Abandons(w)

LEMMA UpdateKinds ==
  ASSUME TypeInv, NEW w \in Clients, Update(w)
  PROVE  /\ client[w].pc # "idle" /\ UNCHANGED envVars
         /\ \/ Computes(w) \/ ReturnsRead(w) \/ Accepted(w) \/ StartsAgain(w) \/ Ends(w)
  <1>1. CASE Read(w)
    <2>1. client[w].pc = "read" /\ UNCHANGED <<envVars, repoVars, budget>>
      BY <1>1 DEF Read
    <2>2. CASE \E m \in client[w].ambiguous : m.state = read /\ Return(w, m.selected)
      BY <2>1, <2>2 DEF ReturnsRead
    <2>3. CASE mutate(w, read).state = read /\ Return(w, mutate(w, read).selected)
      BY <2>1, <2>3 DEF ReturnsRead
    <2>4. CASE /\ mutate(w, read).state # read
               /\ client' = [client EXCEPT ![w].pc = "write",
                                           ![w].mutation = mutate(w, read)]
               /\ UNCHANGED <<scan, runVars>>
      BY <2>1, <2>4 DEF Computes, Computed
    <2> QED BY <1>1, <2>1, <2>2, <2>3, <2>4 DEF Read, sameState
  <1>2. CASE ReadFails(w)
    BY <1>2 DEF ReadFails, StartsAgain, Abandons, Fault
  <1>3. CASE GiveUp(w)
    BY <1>3 DEF GiveUp, Ends, Abandons
  <1>4. CASE WriteAccepted(w)
    BY <1>4 DEF WriteAccepted, Accepted, Lands
  <1>5. CASE WriteRefused(w)
    BY <1>5 DEF WriteRefused, StartsAgain, Ends, Abandons
  <1>6. CASE WriteUnanswered(w)
    BY <1>6 DEF WriteUnanswered, StartsAgain, Abandons, Held, Fault
  <1>7. CASE Killed(w)
    <2>1. /\ client[w].pc # "idle" /\ Spend("faults") /\ Abort(w) /\ UNCHANGED envVars
          /\ UNCHANGED <<repo, reserved>>
      BY <1>7 DEF Killed, Fault
    <2>2. late' \in {late, late \cup Held(w)}
      BY <1>7 DEF Killed, Held
    <2> QED BY <2>1, <2>2 DEF Ends, Abandons
  <1> QED BY <1>1, <1>2, <1>3, <1>4, <1>5, <1>6, <1>7 DEF Update

\* The client after a step of its update; the others stay as they are.
LEMMA ClientAfter ==
  ASSUME TypeInv, NEW w \in Clients
  PROVE  /\ Computes(w) =>
              /\ client'[w].pc = "write" /\ client'[w].mutation = mutate(w, read)
              /\ client'[w].ambiguous = client[w].ambiguous
         /\ ReturnsRead(w) \/ Accepted(w) \/ Ends(w) => client'[w] = IdleClient
         /\ StartsAgain(w) =>
              /\ client'[w].pc = "read" /\ client'[w].mutation = NoMutation
              /\ client'[w].ambiguous
                   \in {client[w].ambiguous, client[w].ambiguous \cup Held(w)}
         /\ Computes(w) \/ ReturnsRead(w) \/ Accepted(w) \/ StartsAgain(w) \/ Ends(w) =>
              \A v \in Clients : v # w => client'[v] = client[v]
  <1>1. Computes(w) =>
              /\ client'[w].pc = "write" /\ client'[w].mutation = mutate(w, read)
              /\ client'[w].ambiguous = client[w].ambiguous
              /\ \A v \in Clients : v # w => client'[v] = client[v]
    BY DEF Computes, TypeInv, TypeOK, UpdateTypeOK
  <1>2. ReturnsRead(w) \/ Accepted(w) \/ Ends(w) =>
              client' = [client EXCEPT ![w] = IdleClient]
    BY DEF ReturnsRead, Accepted, Ends, Return, Abort
  <1>3. StartsAgain(w) =>
              \E ambiguous \in {client[w].ambiguous, client[w].ambiguous \cup Held(w)} :
                 client' = [client EXCEPT ![w] = [pc |-> "read", tries |-> @.tries + 1,
                                                  mutation |-> NoMutation,
                                                  ambiguous |-> ambiguous]]
    BY DEF StartsAgain, Retry
  <1>4. StartsAgain(w) =>
              /\ client'[w].pc = "read" /\ client'[w].mutation = NoMutation
              /\ client'[w].ambiguous
                   \in {client[w].ambiguous, client[w].ambiguous \cup Held(w)}
              /\ \A v \in Clients : v # w => client'[v] = client[v]
    BY <1>3 DEF TypeInv, TypeOK, UpdateTypeOK
  <1>5. ReturnsRead(w) \/ Accepted(w) \/ Ends(w) =>
              /\ client'[w] = IdleClient
              /\ \A v \in Clients : v # w => client'[v] = client[v]
    BY <1>2 DEF TypeInv, TypeOK, UpdateTypeOK
  <1> QED BY <1>1, <1>4, <1>5

LEMMA UpdateMoves ==
  ASSUME TypeInv, NEW w \in Clients, Update(w)
  PROVE  Moves
  <1>1. \A v \in Clients : v # w => client'[v] = client[v]
    BY UpdateKinds, ClientAfter
  <1>2. /\ \A m \in Held(w) : m = client[w].mutation /\ client[w].pc = "write"
        /\ client[w].mutation \in Pending
    BY DEF Held, Pending
  <1>3. IdleClient.mutation = NoMutation /\ IdleClient.ambiguous = {}
    BY DEF IdleClient
  <1>4. /\ client'[w].mutation = NoMutation \/ Computed(w, client'[w].mutation)
        /\ \A m \in client'[w].ambiguous : Kept(w, m)
    <2>1. CASE Computes(w)
      <3>1. /\ client'[w].mutation = mutate(w, read) /\ Computed(w, mutate(w, read))
            /\ client'[w].ambiguous = client[w].ambiguous
        BY <2>1, ClientAfter DEF Computes
      <3> QED BY <3>1 DEF Kept
    <2>2. CASE ReturnsRead(w) \/ Accepted(w) \/ Ends(w)
      BY <2>2, <1>3, ClientAfter
    <2>3. CASE StartsAgain(w)
      <3>1. /\ client'[w].mutation = NoMutation
            /\ \A m \in client'[w].ambiguous : m \in client[w].ambiguous \cup Held(w)
        BY <2>3, ClientAfter
      <3> QED BY <3>1, <1>2 DEF Kept
    <2> QED BY <2>1, <2>2, <2>3, UpdateKinds
  <1>5. \A m \in late' : m \in Pending
    <2>1. late' = late \/ late' = late \cup Held(w)
      BY UpdateKinds DEF Computes, Computed, ReturnsRead, Accepted, StartsAgain, Ends,
                         Abandons
    <2>2. \A m \in late : m \in Pending
      BY DEF Pending
    <2> QED BY <1>2, <2>1, <2>2
  <1>6. \A m \in Pending' : \/ m \in Pending \/ m = NoMutation
                            \/ \E v \in Clients : Computed(v, m)
    <2> SUFFICES ASSUME NEW m \in Pending', m \notin late'
                 PROVE  \/ m \in Pending \/ m = NoMutation
                        \/ \E v \in Clients : Computed(v, m)
      BY <1>5
    <2>1. PICK v \in Clients : m = client'[v].mutation
      BY DEF Pending
    <2>2. CASE v # w
      BY <1>1, <2>1, <2>2 DEF Pending
    <2>3. CASE v = w
      BY <1>4, <2>1, <2>3
    <2> QED BY <2>2, <2>3
  <1>7. \A v \in Clients : \A m \in client'[v].ambiguous : Kept(v, m)
    <2> TAKE v \in Clients
    <2>1. CASE v = w
      BY <1>4, <2>1
    <2>2. CASE v # w
      BY <1>1, <2>2 DEF Kept
    <2> QED BY <2>1, <2>2
  <1>8. UNCHANGED <<repo, reserved>> \/ \E m \in Pending : Landed(m)
    BY <1>2, UpdateKinds DEF Computes, Computed, ReturnsRead, Accepted, StartsAgain, Ends,
                             Abandons, Landed
  <1> QED BY <1>6, <1>7, <1>8 DEF Moves

\* The other steps compute nothing.
LEMMA OtherMoves ==
  ASSUME TypeInv,
         \/ LateWriteArrives \/ StartScan \/ DispatchNext \/ EndScan
         \/ \E sha \in Shas : IndexEnds(sha) \/ Rerun(sha)
         \/ ListingChanges \/ Tick
  PROVE  Moves
  <1>1. IdleClient.mutation = NoMutation /\ IdleClient.ambiguous = {}
    BY DEF IdleClient
  <1>2. \A v \in Clients : \/ client'[v] = client[v]
                           \/ /\ client'[v].mutation = NoMutation
                              /\ client'[v].ambiguous = {}
    <2>1. CASE \/ LateWriteArrives \/ DispatchNext \/ EndScan \/ ListingChanges \/ Tick
               \/ \E sha \in Shas : Rerun(sha)
      BY <2>1 DEF LateWriteArrives, DispatchNext, EndScan, ListingChanges, Tick, Rerun
    <2>2. CASE StartScan
      BY <2>2, <1>1 DEF StartScan, TypeInv, TypeOK, UpdateTypeOK, IdleClient
    <2>3. CASE \E sha \in Shas : IndexEnds(sha)
      BY <2>3, <1>1 DEF IndexEnds, TypeInv, TypeOK, UpdateTypeOK, IdleClient
    <2> QED BY <2>1, <2>2, <2>3
  <1>3. late' \subseteq late
    BY DEF LateWriteArrives, StartScan, DispatchNext, EndScan, IndexEnds, Rerun,
           ListingChanges, Tick
  <1>4. UNCHANGED <<repo, reserved>> \/ \E m \in Pending : Landed(m)
    <2>1. CASE LateWriteArrives
      BY <2>1 DEF LateWriteArrives, Lands, Landed, Pending
    <2>2. CASE ~ LateWriteArrives
      BY <2>2 DEF StartScan, DispatchNext, EndScan, IndexEnds, Rerun, ListingChanges, Tick
    <2> QED BY <2>1, <2>2
  <1>5. \A m \in Pending' : m \in Pending \/ m = NoMutation
    BY <1>2, <1>3 DEF Pending
  <1>6. \A v \in Clients : \A m \in client'[v].ambiguous : Kept(v, m)
    <2> TAKE v \in Clients
    <2>1. CASE client'[v] = client[v]
      BY <2>1 DEF Kept
    <2> QED BY <1>2, <2>1
  <1> QED BY <1>4, <1>5, <1>6 DEF Moves

(***************************************************************************)
(* What any step does to the runs: only a dispatch adds one.                *)
(***************************************************************************)
SameRun(q, run) ==
    q.candidate = run.candidate /\ q.attempt = run.attempt /\ q.serial = run.serial

NewRun(r, q) ==
    /\ r \in scan.queue /\ Dispatch(r)
    /\ q.candidate = r.candidate /\ q.attempt = r.attempt
    /\ q.serial = newest[r.candidate.sha].serial + 1

RunMoves ==
    \A sha \in Shas : \A q \in RunsOf(sha)' :
        \/ \E run \in RunsOf(sha) : SameRun(q, run)
        \/ \E r \in scan.queue : r.candidate.sha = sha /\ NewRun(r, q)

\* What is dispatched is all that is new among the dispatched attempts.
DispatchMoves ==
    \/ UNCHANGED dispatched
    \/ \E r \in scan.queue : dispatched' = dispatched \cup {Pair(r)} /\ Dispatch(r)

LEMMA EndRunMoves ==
  ASSUME TypeInv, NEW sha \in Shas, NEW recorded \in BOOLEAN,
         client[sha].pc # "idle", EndRun(sha, recorded)
  PROVE  \A s \in Shas : RunsOf(s)' \subseteq RunsOf(s)
  <1>1. /\ \A s \in Shas : s # sha => group'[s] = group[s] /\ finished'[s] = finished[s]
        /\ group'[sha].active = group[sha].pending /\ group'[sha].pending = NoRun
        /\ finished'[sha] = group[sha].active
    BY DEF EndRun, NextInGroup, TypeInv, TypeOK, RunTypeOK
  <1> QED BY <1>1 DEF RunsOf

LEMMA UpdateRunMoves ==
  ASSUME TypeInv, NEW w \in Clients, Update(w)
  PROVE  (\A s \in Shas : RunsOf(s)' \subseteq RunsOf(s)) /\ UNCHANGED dispatched
  <1>1. CASE UNCHANGED runVars
    BY <1>1 DEF RunsOf
  <1>2. CASE w \in Shas /\ \E recorded \in BOOLEAN : EndRun(w, recorded)
    <2>1. client[w].pc # "idle"
      BY UpdateKinds
    <2>2. UNCHANGED dispatched
      BY <1>2 DEF EndRun
    <2> QED BY <1>2, <2>1, <2>2, EndRunMoves
  <1>3. UNCHANGED runVars \/ (w \in Shas /\ \E recorded \in BOOLEAN : EndRun(w, recorded))
    BY UpdateKinds DEF Computes, Computed, ReturnsRead, Accepted, StartsAgain, Ends, Return,
                       Abort, Retry, Clients
  <1> QED BY <1>1, <1>2, <1>3

\* A run that joins a group leaves the others in it, or cancels the pending one.
LEMMA EnqueueRuns ==
  ASSUME NEW g \in [active : Run \cup {NoRun}, pending : Run \cup {NoRun}], NEW run
  PROVE  /\ Enqueue(g, run).active \in {g.active, run}
         /\ Enqueue(g, run).pending \in {g.pending, run}
  BY DEF Enqueue

LEMMA OtherRunMoves ==
  ASSUME TypeInv,
         \/ LateWriteArrives \/ StartScan \/ DispatchNext \/ EndScan
         \/ \E sha \in Shas : IndexEnds(sha) \/ Rerun(sha)
         \/ ListingChanges \/ Tick
  PROVE  RunMoves /\ DispatchMoves
  <1> USE DEF TypeInv, TypeOK, RunTypeOK
  <1>1. CASE UNCHANGED <<group, finished, dispatched>>
    BY <1>1 DEF RunMoves, DispatchMoves, RunsOf, SameRun
  <1>2. ASSUME NEW r \in scan.queue, Dispatch(r)
        PROVE  RunMoves /\ DispatchMoves
    <2> DEFINE sha == r.candidate.sha
               run == [candidate |-> r.candidate, attempt |-> r.attempt,
                       serial |-> newest[sha].serial + 1, phase |-> "index",
                       conclusion |-> "none"]
    <2>1. r \in Reservation /\ sha \in Shas
      BY DEF ScanTypeOK, Reservation, Candidates
    <2>2. /\ group' = [group EXCEPT ![sha] = Enqueue(group[sha], run)]
          /\ finished' = finished /\ dispatched' = dispatched \cup {Pair(r)}
      BY <1>2 DEF Dispatch, Pair
    <2>3. NewRun(r, run)
      BY <1>2 DEF NewRun
    <2> HIDE DEF run
    <2>4. /\ \A s \in Shas : s # sha => group'[s] = group[s]
          /\ group'[sha].active \in {group[sha].active, run}
          /\ group'[sha].pending \in {group[sha].pending, run}
      <3>1. group'[sha] = Enqueue(group[sha], run)
        BY <2>1, <2>2
      <3> QED BY <2>1, <2>2, <3>1, EnqueueRuns
    <2>5. \A s \in Shas : \A q \in RunsOf(s)' : q \in RunsOf(s) \/ (s = sha /\ q = run)
      BY <2>2, <2>4 DEF RunsOf
    <2>6. RunMoves
      BY <2>3, <2>5 DEF RunMoves, SameRun
    <2> QED BY <1>2, <2>2, <2>6 DEF DispatchMoves
  <1>3. ASSUME NEW sha \in Shas, IndexEnds(sha)
        PROVE  RunMoves /\ DispatchMoves
    <2>1. group[sha].active \in Run /\ UNCHANGED <<finished, dispatched>>
      BY <1>3 DEF IndexEnds
    <2>2. PICK conclusion \in Conclusions :
            group' = [group EXCEPT ![sha].active.phase = "finalize",
                                   ![sha].active.conclusion = conclusion]
      BY <1>3 DEF IndexEnds
    <2> DEFINE run == [group[sha].active EXCEPT !.phase = "finalize",
                                                !.conclusion = conclusion]
    <2>3. SameRun(run, group[sha].active)
      BY <2>1 DEF SameRun, Run
    <2>4. /\ \A s \in Shas : s # sha => group'[s] = group[s]
          /\ group'[sha].active = run /\ group'[sha].pending = group[sha].pending
      BY <2>2
    <2>5. group[sha].active \in RunsOf(sha)
      BY <2>1, NoRunAssumption DEF RunsOf
    <2> HIDE DEF run
    <2>6. \A s \in Shas : \A q \in RunsOf(s)' : q \in RunsOf(s) \/ (s = sha /\ q = run)
      BY <2>1, <2>4 DEF RunsOf
    <2>7. RunMoves
      BY <2>3, <2>5, <2>6 DEF RunMoves, SameRun
    <2> QED BY <2>1, <2>7 DEF DispatchMoves
  <1>4. ASSUME NEW sha \in Shas, Rerun(sha)
        PROVE  RunMoves /\ DispatchMoves
    <2> DEFINE run == [finished[sha] EXCEPT !.phase = "index", !.conclusion = "none"]
    <2>1. /\ finished[sha] \in Run /\ UNCHANGED <<finished, dispatched>>
          /\ group' = [group EXCEPT ![sha] = Enqueue(group[sha], run)]
      BY <1>4 DEF Rerun
    <2>2. SameRun(run, finished[sha]) /\ finished[sha] \in RunsOf(sha)
      BY <2>1, NoRunAssumption DEF SameRun, RunsOf, Run
    <2> HIDE DEF run
    <2>3. /\ \A s \in Shas : s # sha => group'[s] = group[s]
          /\ group'[sha].active \in {group[sha].active, run}
          /\ group'[sha].pending \in {group[sha].pending, run}
      <3>1. group'[sha] = Enqueue(group[sha], run)
        BY <2>1
      <3> QED BY <2>1, <3>1, EnqueueRuns
    <2>4. \A s \in Shas : \A q \in RunsOf(s)' : q \in RunsOf(s) \/ (s = sha /\ q = run)
      BY <2>1, <2>3 DEF RunsOf
    <2>5. RunMoves
      BY <2>2, <2>4 DEF RunMoves, SameRun
    <2> QED BY <2>1, <2>5 DEF DispatchMoves
  <1>5. \/ UNCHANGED <<group, finished, dispatched>>
        \/ \E r \in scan.queue : Dispatch(r)
        \/ \E sha \in Shas : IndexEnds(sha) \/ Rerun(sha)
    BY DEF LateWriteArrives, StartScan, DispatchNext, EndScan, ListingChanges, Tick
  <1> QED BY <1>1, <1>2, <1>3, <1>4, <1>5

-----------------------------------------------------------------------------
(***************************************************************************)
(* What an update computes.                                                 *)
(***************************************************************************)
\* A reader sees the entries of the file.
LEMMA ReadEntry ==
  ASSUME TypeInv, Fresh, NEW sha \in Shas, NEW f, f = read.entries[sha]
  PROVE  LET e == repo.state.entries[sha] IN
         /\ f = NoEntry <=> e = NoEntry
         /\ e # NoEntry =>
               /\ f.status = e.status /\ f.attempts = e.attempts
               /\ f.artifactExpiresAt = e.artifactExpiresAt /\ f.layout = "parsed"
  <1>1. CASE repo.version = 0
    BY <1>1 DEF read, emptyState
  <1>2. CASE repo.version # 0
    <2>1. f = parseState(repo.state).entries[sha] /\ repo.state \in States
      BY <1>2 DEF read, TypeInv, TypeOK, RepoTypeOK
    <2> QED BY <2>1, ParsedEntryIs
  <1> QED BY <1>1, <1>2

\* What a scan makes of the file's entry of a commit.
LEMMA ScanWrites ==
  ASSUME TypeInv, FrameInv, client[Scanner].pc = "read", NEW sha \in Shas, NEW f,
         f = mutate(Scanner, read).state.entries[sha]
  PROVE  LET e == repo.state.entries[sha]
             chosen == Chosen(scan.listing, scan.reset, read, now) IN
         \/ /\ sha \in chosen /\ f # NoEntry /\ f.status = "queued"
            /\ f.attempts = NextAttempt(read, scan.reset, sha)
            /\ f.artifactExpiresAt = 0 /\ f.layout = "parsed"
         \/ /\ sha \notin chosen /\ sha # scan.reset /\ f # NoEntry /\ e # NoEntry
            /\ f.status = e.status /\ f.attempts = e.attempts
            /\ f.artifactExpiresAt = e.artifactExpiresAt /\ f.layout = "parsed"
         \/ /\ sha \notin chosen /\ sha # scan.reset /\ f = NoEntry
            /\ sha \notin Listed(scan.listing) \/ e = NoEntry
  <1>1. /\ IsListing(scan.listing) /\ read \in States /\ now \in Nat
        /\ scan.reset \in Listed(scan.listing) =>
              scan.reset \in Chosen(scan.listing, scan.reset, read, now)
    BY ScanListing, ReadType, ResetIsChosen DEF TypeInv, TypeOK, EnvTypeOK
  <1>2. f = reserveCandidates(scan.listing, scan.reset, read, now).entries[sha]
    BY DEF mutate
  <1>3. sha = scan.reset => sha \in Chosen(scan.listing, scan.reset, read, now)
    BY <1>1, IndexStateAssumption DEF FrameInv
  <1>4. /\ read.entries[sha] = NoEntry <=> repo.state.entries[sha] = NoEntry
        /\ repo.state.entries[sha] # NoEntry =>
             /\ read.entries[sha].status = repo.state.entries[sha].status
             /\ read.entries[sha].attempts = repo.state.entries[sha].attempts
             /\ read.entries[sha].artifactExpiresAt
                  = repo.state.entries[sha].artifactExpiresAt
             /\ read.entries[sha].layout = "parsed"
    BY ReadEntry DEF FrameInv
  <1>5. \/ /\ sha \in Chosen(scan.listing, scan.reset, read, now) /\ f # NoEntry
           /\ f.status = "queued" /\ f.attempts = NextAttempt(read, scan.reset, sha)
           /\ f.artifactExpiresAt = 0 /\ f.layout = "parsed"
        \/ /\ sha \notin Chosen(scan.listing, scan.reset, read, now)
           /\ sha # scan.reset /\ SameEntry(f, read.entries[sha])
        \/ /\ sha \notin Chosen(scan.listing, scan.reset, read, now) /\ f = NoEntry
           /\ \/ sha \notin Listed(scan.listing) \/ sha = scan.reset
              \/ read.entries[sha] = NoEntry
    BY <1>1, <1>2, ReservedEntryIs
  <1> QED BY <1>3, <1>4, <1>5 DEF SameEntry

\* What a finalizer makes of it: it keeps it, or records the result of its run.
LEMMA FinalizerWrites ==
  ASSUME TypeInv, FrameInv, NEW w \in Shas, client[w].pc = "read", NEW sha \in Shas,
         NEW f, f = mutate(w, read).state.entries[sha]
  PROVE  LET e == repo.state.entries[sha]
             run == group[w].active IN
         /\ run \in RunsOf(w) /\ run \in Run /\ run.conclusion \in Conclusions
         /\ \/ /\ f = NoEntry <=> e = NoEntry
               /\ e # NoEntry =>
                     /\ f.status = e.status /\ f.attempts = e.attempts
                     /\ f.artifactExpiresAt = e.artifactExpiresAt
               /\ sha # w \/ StaleCompletion(e, run.attempt, run.conclusion)
            \/ /\ sha = w /\ ~ StaleCompletion(e, run.attempt, run.conclusion)
               /\ f # NoEntry /\ f.attempts = run.attempt
               /\ f.status = IF run.conclusion = "success" THEN "success" ELSE "failed"
               /\ f.status = "success" => f.artifactExpiresAt >= Retention
  <1> DEFINE run == group[w].active
             e == repo.state.entries[sha]
             seen == read.entries[sha]
  <1>1. run \in Run /\ run # NoRun /\ run.conclusion \in Conclusions
    <2>1. client[w].pc # "idle"
      OBVIOUS
    <2> QED BY <2>1 DEF TypeInv, TypeOK, RunTypeOK, FinalizersRun
  <1>2. /\ run.candidate \in Candidates /\ run.attempt \in Nat \ {0}
        /\ run.candidate.sha = w /\ run \in RunsOf(w)
    BY <1>1 DEF Run, FrameInv, RunsOf
  <1>3. read \in States /\ now \in Nat
    BY ReadType DEF TypeInv, TypeOK, EnvTypeOK
  <1>4. w # Scanner
    BY HostedIndexingAssumption
  <1>5. f = completeCandidate(read, run.candidate, run.attempt, run.conclusion,
                              now).entries[sha]
    BY <1>4 DEF mutate
  <1>6. /\ seen = NoEntry <=> e = NoEntry
        /\ e # NoEntry =>
             /\ seen.status = e.status /\ seen.attempts = e.attempts
             /\ seen.artifactExpiresAt = e.artifactExpiresAt
    BY ReadEntry DEF FrameInv
  <1> HIDE DEF run, e, seen
  <1>7. \/ /\ f = seen
           /\ sha # run.candidate.sha \/ StaleCompletion(seen, run.attempt, run.conclusion)
        \/ /\ sha = run.candidate.sha
           /\ ~ StaleCompletion(seen, run.attempt, run.conclusion)
           /\ f # NoEntry /\ f.attempts = run.attempt
           /\ f.status = IF run.conclusion = "success" THEN "success" ELSE "failed"
           /\ run.conclusion = "success" => f.artifactExpiresAt = now + Retention
    BY <1>1, <1>2, <1>3, <1>5, CompletedEntryIs DEF seen
  <1>8. StaleCompletion(seen, run.attempt, run.conclusion)
          <=> StaleCompletion(e, run.attempt, run.conclusion)
    BY <1>6 DEF StaleCompletion
  <1>9. now + Retention >= Retention
    BY <1>3, IndexStateAssumption
  <1>10. \/ /\ f = NoEntry <=> e = NoEntry
            /\ e # NoEntry =>
                  /\ f.status = e.status /\ f.attempts = e.attempts
                  /\ f.artifactExpiresAt = e.artifactExpiresAt
            /\ sha # w \/ StaleCompletion(e, run.attempt, run.conclusion)
         \/ /\ sha = w /\ ~ StaleCompletion(e, run.attempt, run.conclusion)
            /\ f # NoEntry /\ f.attempts = run.attempt
            /\ f.status = IF run.conclusion = "success" THEN "success" ELSE "failed"
            /\ f.status = "success" => f.artifactExpiresAt >= Retention
    BY <1>2, <1>6, <1>7, <1>8, <1>9
  <1> QED BY <1>1, <1>2, <1>10 DEF run, e

\* It is computed from the version that was read.
LEMMA MutateBase ==
  ASSUME NEW w PROVE mutate(w, read).base = repo.version
  BY DEF mutate

\* The entries of the empty mutation.
LEMMA NothingWritten ==
  /\ NoMutation.base = 0 /\ NoMutation.selected = {}
  /\ \A sha \in Shas : NoMutation.state.entries[sha] = NoEntry
  BY DEF NoMutation, emptyState

-----------------------------------------------------------------------------
(***************************************************************************)
(* The frame is kept.                                                       *)
(***************************************************************************)
LEMMA FreshKept ==
  ASSUME TypeInv, Fresh, Moves PROVE Fresh'
  <1>1. CASE UNCHANGED repo
    BY <1>1
  <1>2. CASE \E m \in Pending : Landed(m)
    <2>1. repo'.version = repo.version + 1 /\ repo.version \in Nat
      BY <1>2 DEF Landed, Commit, TypeInv, TypeOK, RepoTypeOK
    <2> QED BY <2>1
  <1> QED BY <1>1, <1>2 DEF Moves

\* Whatever is written was computed from a version there has been.
LEMMA VersionedKept ==
  ASSUME TypeInv, Versioned, Moves PROVE Versioned'
  <1>1. /\ repo.version \in Nat /\ repo'.version \in {repo.version, repo.version + 1}
        /\ \A m \in Pending : m.base \in Nat
        /\ \A w \in Clients : \A m \in client[w].ambiguous : m.base \in Nat
    <2>1. repo'.version \in {repo.version, repo.version + 1}
      BY DEF Moves, Landed, Commit
    <2>2. \A m \in Mutation : m.base \in Nat
      BY DEF Mutation
    <2> QED BY <2>1, <2>2 DEF TypeInv, TypeOK, RepoTypeOK, UpdateTypeOK, Pending
  <1>2. \A n \in Nat : n <= repo.version => n <= repo'.version
    BY <1>1
  <1>3. ASSUME NEW m \in Pending' PROVE m.base <= repo'.version
    <2>1. CASE m \in Pending
      BY <1>1, <1>2, <2>1
    <2>2. CASE m = NoMutation
      BY <1>1, <1>2, <2>2, NothingWritten
    <2>3. CASE \E w \in Clients : Computed(w, m)
      <3>1. m.base = repo.version
        BY <2>3, MutateBase DEF Computed
      <3> QED BY <1>1, <1>2, <3>1
    <2> QED BY <2>1, <2>2, <2>3 DEF Moves
  <1>4. ASSUME NEW w \in Clients, NEW m \in client'[w].ambiguous
        PROVE  m.base <= repo'.version
    <2>1. m \in client[w].ambiguous \/ m \in Pending
      BY <1>4 DEF Moves, Kept, Pending
    <2> QED BY <1>1, <1>2, <2>1
  <1> QED BY <1>3, <1>4

LEMMA RunsKept ==
  ASSUME TypeInv, RunsDispatched, RunMoves, DispatchMoves PROVE RunsDispatched'
  <1> SUFFICES ASSUME NEW sha \in Shas, NEW q \in RunsOf(sha)'
               PROVE  q.candidate.sha = sha /\ <<sha, q.attempt>> \in dispatched'
    OBVIOUS
  <1>1. dispatched \subseteq dispatched'
    BY DEF DispatchMoves
  <1>2. CASE \E run \in RunsOf(sha) : SameRun(q, run)
    BY <1>1, <1>2 DEF SameRun
  <1>3. CASE \E r \in scan.queue : r.candidate.sha = sha /\ NewRun(r, q)
    BY <1>3 DEF NewRun, Dispatch
  <1> QED BY <1>2, <1>3 DEF RunMoves

\* A write of the scanner has its keys in the parser's order, and if there is
\* no file it queues a commit.
LEMMA ScanIsPlain ==
  ASSUME TypeInv, FrameInv, NEW m, Computed(Scanner, m)
  PROVE  Plain(m)
  <1>1. client[Scanner].pc = "read" /\ m = mutate(Scanner, read) /\ m.state # read
    BY DEF Computed
  <1>2. ASSUME NEW sha \in Shas
        PROVE  m.state.entries[sha] = NoEntry \/ m.state.entries[sha].layout = "parsed"
    BY <1>1, ScanWrites
  <1>3. ASSUME m.base = 0 PROVE \E sha \in Shas : m.state.entries[sha] # NoEntry
    <2>1. m.state = reserveCandidates(scan.listing, scan.reset, read, now)
      BY <1>1 DEF mutate
    <2>2. \A sha \in Shas : read.entries[sha] = NoEntry
      BY <1>1, <1>3, MutateBase DEF read, emptyState
    <2>3. PICK sha \in Chosen(scan.listing, scan.reset, read, now) : TRUE
      BY <1>1, <2>1, <2>2 DEF reserveCandidates, ReserveChanges
    <2>4. sha \in Shas
      BY <2>3, ChosenListed, CandidateOfListed, ScanListing DEF TypeInv, TypeOK
    <2> QED BY <1>1, <2>3, <2>4, ScanWrites
  <1> QED BY <1>2, <1>3 DEF Plain

LEMMA FrameInit == Init => FrameInv
  <1> SUFFICES ASSUME Init PROVE FrameInv
    OBVIOUS
  <1>1. Fresh
    BY DEF Init
  <1>2. Versioned
    BY DEF Init, Pending, IdleClient, NoMutation
  <1>3. IdleClients /\ ScansPlain
    BY DEF Init, IdleClient, Clients
  <1>4. ScanRuns
    BY HostedIndexingAssumption DEF Init, IdleClient, IdleScan, Clients
  <1>5. RunsDispatched
    BY DEF Init, RunsOf, EmptyGroup
  <1> QED BY <1>1, <1>2, <1>3, <1>4, <1>5 DEF FrameInv

LEMMA UpdateFrameStep ==
  ASSUME TypeInv, FrameInv, NEW w \in Clients, Update(w)
  PROVE  FrameInv'
  <1> USE DEF FrameInv
  <1>1. Fresh' /\ Versioned'
    BY UpdateMoves, FreshKept, VersionedKept
  <1>2. RunsDispatched'
    BY UpdateRunMoves DEF RunsOf
  <1>3. \A v \in Clients : v # w => client'[v] = client[v]
    BY UpdateKinds, ClientAfter
  <1>4. IdleClients'
    <2>0. IdleClient.pc = "idle"
      BY DEF IdleClient
    <2>1. CASE client'[w] = IdleClient
      BY <1>3, <2>0, <2>1
    <2>2. CASE client'[w].pc = "write"
      BY <1>3, <2>2
    <2>3. CASE client'[w].pc = "read" /\ client'[w].mutation = NoMutation
      BY <1>3, <2>3
    <2>4. \/ client'[w] = IdleClient \/ client'[w].pc = "write"
          \/ client'[w].pc = "read" /\ client'[w].mutation = NoMutation
      BY UpdateKinds, ClientAfter
    <2> QED BY <2>1, <2>2, <2>3, <2>4
  <1>5. ScansPlain'
    <2>1. CASE w # Scanner
      BY <1>3, <2>1 DEF Clients
    <2>2. CASE w = Scanner
      <3>1. ASSUME NEW m \in client'[w].ambiguous PROVE Plain(m)
        BY <2>2, <3>1, UpdateMoves DEF Moves, Kept
      <3>2. CASE Computes(w)
        <4>1. Plain(mutate(w, read)) /\ client'[w].mutation = mutate(w, read)
          BY <2>2, <3>2, ScanIsPlain, ClientAfter DEF Computes
        <4> QED BY <2>2, <3>1, <4>1 DEF Plain
      <3>3. CASE ~ Computes(w)
        <4>1. client'[w].pc # "write"
          BY <3>3, UpdateKinds, ClientAfter DEF IdleClient
        <4> QED BY <2>2, <3>1, <4>1 DEF Plain
      <3> QED BY <3>2, <3>3
    <2> QED BY <2>1, <2>2
  <1>6. ScanRuns'
    <2>1. /\ budget'.resets = budget.resets /\ budget'.faults <= budget.faults
          /\ budget.faults \in Nat /\ budget'.faults \in Nat
      <3>1. budget' = budget \/ Spend("faults")
        BY UpdateKinds DEF Computes, Computed, ReturnsRead, Accepted, StartsAgain, Ends,
                           Abandons
      <3> QED BY <3>1 DEF Spend, TypeInv, TypeOK, EnvTypeOK
    <2>2. budget'.resets <= MaxResets /\ budget'.faults <= MaxFaults
      BY <2>1, HostedIndexingAssumption
    <2>3. CASE w # Scanner
      <3>1. UNCHANGED scan /\ client'[Scanner] = client[Scanner]
        BY <1>3, <2>3, UpdateKinds
           DEF Computes, Computed, ReturnsRead, Accepted, StartsAgain, Ends, Return, Abort,
               Retry, Clients
      <3> QED BY <2>1, <2>2, <3>1
    <2>4. CASE w = Scanner /\ (Computes(w) \/ StartsAgain(w))
      <3>1. UNCHANGED scan
        BY <2>4 DEF Computes, Computed, StartsAgain, Retry
      <3> QED BY <2>1, <2>2, <2>4, <3>1, UpdateKinds
    <2>5. CASE w = Scanner /\ (ReturnsRead(w) \/ Accepted(w))
      <3>1. PICK selected : scan' = [scan EXCEPT !.pc = "dispatch", !.queue = selected]
        BY <2>5 DEF ReturnsRead, Accepted, Return
      <3>2. /\ scan'.pc = "dispatch" /\ scan'.listing = scan.listing
            /\ scan'.reset = scan.reset
        BY <3>1 DEF TypeInv, TypeOK, ScanTypeOK
      <3>3. client'[w].pc = "idle" /\ scan.pc = "reserve"
        BY <2>5, UpdateKinds, ClientAfter DEF IdleClient
      <3> QED BY <2>1, <2>2, <2>5, <3>2, <3>3
    <2>6. CASE w = Scanner /\ Ends(w)
      <3>1. scan' = IdleScan
        BY <2>6 DEF Ends, Abort
      <3>2. client'[w].pc = "idle"
        BY <2>6, ClientAfter DEF IdleClient
      <3> QED BY <2>2, <2>6, <3>1, <3>2 DEF IdleScan
    <2> QED BY <2>3, <2>4, <2>5, <2>6, UpdateKinds
  <1> QED BY <1>1, <1>2, <1>4, <1>5, <1>6

LEMMA OtherFrameStep ==
  ASSUME TypeInv, FrameInv,
         \/ LateWriteArrives \/ StartScan \/ DispatchNext \/ EndScan
         \/ \E sha \in Shas : IndexEnds(sha) \/ Rerun(sha)
         \/ ListingChanges \/ Tick
  PROVE  FrameInv'
  <1> USE DEF FrameInv
  <1>1. Fresh' /\ Versioned'
    BY OtherMoves, FreshKept, VersionedKept
  <1>2. RunsDispatched'
    BY OtherRunMoves, RunsKept
  <1>3. CASE \/ LateWriteArrives \/ DispatchNext \/ EndScan \/ ListingChanges \/ Tick
             \/ \E sha \in Shas : IndexEnds(sha) \/ Rerun(sha)
    <2>1. /\ budget'.resets = budget.resets /\ budget'.faults <= budget.faults
          /\ budget.faults \in Nat /\ budget'.faults \in Nat
      <3>1. \/ budget' = budget
            \/ Spend("faults") \/ Spend("reruns") \/ Spend("listings")
        BY <1>3 DEF LateWriteArrives, DispatchNext, Dispatch, EndScan, IndexEnds, Rerun,
                    ListingChanges, Tick, Fault
      <3> QED BY <3>1 DEF Spend, TypeInv, TypeOK, EnvTypeOK
    <2>2. budget'.resets <= MaxResets /\ budget'.faults <= MaxFaults
      BY <2>1, HostedIndexingAssumption
    <2>3. /\ client'[Scanner] = client[Scanner]
          /\ \A w \in Clients : client'[w] = client[w]
                \/ (client'[w].pc = "read" /\ client'[w].mutation = NoMutation)
      <3>1. CASE UNCHANGED client
        BY <3>1
      <3>2. CASE \E sha \in Shas : IndexEnds(sha)
        BY <3>2, HostedIndexingAssumption
           DEF IndexEnds, IdleClient, TypeInv, TypeOK, UpdateTypeOK, Clients
      <3> QED BY <1>3, <3>1, <3>2
              DEF LateWriteArrives, DispatchNext, EndScan, Rerun, ListingChanges, Tick
    <2>4. IdleClients' /\ ScansPlain'
      BY <2>3 DEF Plain
    <2>5. \/ UNCHANGED scan
          \/ scan' = IdleScan /\ scan.pc = "dispatch"
          \/ /\ scan'.pc = "dispatch" /\ scan.pc = "dispatch"
             /\ scan'.listing = scan.listing /\ scan'.reset = scan.reset
      BY <1>3 DEF LateWriteArrives, DispatchNext, EndScan, IndexEnds, Rerun,
                  ListingChanges, Tick, TypeInv, TypeOK, ScanTypeOK
    <2>6. ScanRuns'
      BY <2>1, <2>2, <2>3, <2>5 DEF IdleScan
    <2> QED BY <1>1, <1>2, <2>4, <2>6
  <1>4. CASE StartScan
    <2>1. client' = [client EXCEPT ![Scanner] = [IdleClient EXCEPT !.pc = "read"]]
      BY <1>4 DEF StartScan
    <2>2. /\ client'[Scanner].pc = "read" /\ client'[Scanner].mutation = NoMutation
          /\ client'[Scanner].ambiguous = {}
          /\ \A w \in Clients : w # Scanner => client'[w] = client[w]
      BY <2>1 DEF IdleClient, TypeInv, TypeOK, UpdateTypeOK, Clients
    <2>3. IdleClients' /\ ScansPlain'
      BY <2>2
    <2>4. scan'.pc = "reserve" /\ scan'.listing = listing /\ listing \in Listings
      BY <1>4 DEF StartScan, TypeInv, TypeOK, ScanTypeOK, EnvTypeOK
    <2>5. \/ budget' = budget /\ scan'.reset = NoSha
          \/ Spend("resets") /\ scan'.reset \in Listed(listing)
      BY <1>4 DEF StartScan, TypeInv, TypeOK, ScanTypeOK
    <2>6. /\ scan'.reset # NoSha =>
                scan'.reset \in Listed(scan'.listing) /\ budget'.resets < MaxResets
          /\ budget'.resets <= MaxResets /\ budget'.faults <= MaxFaults
      BY <2>4, <2>5, HostedIndexingAssumption DEF Spend, TypeInv, TypeOK, EnvTypeOK
    <2>7. ScanRuns'
      BY <2>2, <2>4, <2>6
    <2> QED BY <1>1, <1>2, <2>3, <2>7
  <1> QED BY <1>3, <1>4

LEMMA FrameStutter == ASSUME FrameInv, UNCHANGED vars PROVE FrameInv'
  BY DEF vars, FrameInv, Pending, RunsOf, Plain

-----------------------------------------------------------------------------
(***************************************************************************)
(* Attempts.  A reset may add one attempt, and a fault may make the reset   *)
(* be applied again: the write of a scan that resets may count one more     *)
(* than all that the file, and whatever else may reach it, counts.          *)
(***************************************************************************)
Resetting == scan.pc = "reserve" /\ scan.reset # NoSha

Limit == MaxAttempts + (MaxResets - budget.resets) + (MaxFaults - budget.faults)

Cap == IF Resetting THEN Limit - 1 ELSE Limit

Below(state, n) ==
    \A sha \in Shas : state.entries[sha] # NoEntry => state.entries[sha].attempts <= n

CountInv ==
    /\ Below(repo.state, Cap)
    /\ \A m \in late : Below(m.state, Cap)
    /\ \A w \in Shas : Below(client[w].mutation.state, Cap)
    /\ Below(client[Scanner].mutation.state, Limit)
    /\ \A p \in reserved : p[2] <= Cap

LEMMA CapType ==
  ASSUME TypeInv, FrameInv
  PROVE  Limit \in Int /\ Cap \in Int /\ MaxAttempts <= Cap /\ Cap <= Limit
  <1>1. /\ budget.resets \in Nat /\ budget.faults \in Nat /\ budget.faults <= MaxFaults
        /\ budget.resets <= MaxResets /\ (scan.reset # NoSha => budget.resets < MaxResets)
        /\ MaxAttempts \in Nat /\ MaxResets \in Nat /\ MaxFaults \in Nat
    BY IndexStateAssumption, HostedIndexingAssumption
       DEF TypeInv, TypeOK, EnvTypeOK, FrameInv
  <1> QED BY <1>1 DEF Limit, Cap, Resetting

\* What is below a number is below a greater one.
LEMMA BelowMore ==
  ASSUME NEW state \in States, NEW n \in Int, NEW k \in Int, n <= k, Below(state, n)
  PROVE  Below(state, k)
  <1> SUFFICES ASSUME NEW sha \in Shas, state.entries[sha] # NoEntry
               PROVE  state.entries[sha].attempts <= k
    BY DEF Below
  <1>1. state.entries[sha].attempts \in Nat /\ state.entries[sha].attempts <= n
    BY DEF Below, States, Entries
  <1> QED BY <1>1

LEMMA NothingBelow ==
  ASSUME NEW n PROVE Below(NoMutation.state, n) /\ Below(IdleClient.mutation.state, n)
  BY NothingWritten DEF Below, IdleClient

\* What is computed stays below the cap, and a reset below the limit.
LEMMA ComputedBelow ==
  ASSUME TypeInv, FrameInv, OnlyReservedWork, CountInv, NEW w \in Clients, NEW m,
         Computed(w, m)
  PROVE  Below(m.state, IF w = Scanner THEN Limit ELSE Cap)
  <1>1. client[w].pc = "read" /\ m = mutate(w, read)
    BY DEF Computed
  <1> SUFFICES ASSUME NEW sha \in Shas, NEW f, f = m.state.entries[sha], f # NoEntry
               PROVE  f.attempts <= IF w = Scanner THEN Limit ELSE Cap
    BY DEF Below
  <1> DEFINE e == repo.state.entries[sha]
  <1>2. /\ e # NoEntry => e.attempts \in Nat /\ e.attempts <= Cap
        /\ Limit \in Int /\ Cap \in Int /\ MaxAttempts <= Cap /\ Cap <= Limit
        /\ MaxAttempts \in Nat \ {0}
    BY CapType, IndexStateAssumption
       DEF CountInv, Below, TypeInv, TypeOK, RepoTypeOK, States, Entries
  <1>3. /\ read \in States /\ (read.entries[sha] = NoEntry <=> e = NoEntry)
        /\ e # NoEntry => read.entries[sha].attempts = e.attempts
    BY ReadType, ReadEntry DEF TypeInv, FrameInv
  <1> HIDE DEF e
  <1>4. CASE w = Scanner
    <2>1. CASE f.attempts = e.attempts /\ e # NoEntry
      BY <1>2, <1>4, <2>1
    <2>2. CASE /\ sha \in Chosen(scan.listing, scan.reset, read, now)
               /\ f.attempts = NextAttempt(read, scan.reset, sha)
      <3>1. CASE sha # scan.reset
        <4>1. f.attempts <= MaxAttempts /\ f.attempts \in Nat
          BY <1>3, <2>2, <3>1, ChosenIsEligible, NextAttemptType
        <4> QED BY <1>2, <1>4, <4>1
      <3>2. CASE sha = scan.reset
        <4>1. Cap = Limit - 1
          BY <1>1, <1>4, <3>2, IndexStateAssumption DEF Cap, Resetting, FrameInv
        <4>2. CASE e = NoEntry
          BY <1>2, <1>3, <1>4, <2>2, <4>1, <4>2 DEF NextAttempt
        <4>3. CASE e # NoEntry
          <5>1. f.attempts = e.attempts + 1
            BY <1>3, <2>2, <3>2, <4>3, NextAttemptIs
          <5> QED BY <1>2, <1>4, <4>1, <4>3, <5>1
        <4> QED BY <4>2, <4>3
      <3> QED BY <3>1, <3>2
    <2> QED BY <1>1, <1>4, <2>1, <2>2, ScanWrites DEF e
  <1>5. CASE w # Scanner
    <2>1. w \in Shas
      BY <1>5 DEF Clients
    <2>2. CASE f.attempts = e.attempts /\ e # NoEntry
      BY <1>2, <1>5, <2>2
    <2>3. CASE f.attempts = group[w].active.attempt
      <3>1. group[w].active \in RunsOf(w)
        BY <1>1, <2>1, FinalizerWrites
      <3>2. <<w, group[w].active.attempt>> \in reserved
        BY <2>1, <3>1 DEF FrameInv, OnlyReservedWork
      <3>3. group[w].active.attempt <= Cap
        BY <3>2 DEF CountInv
      <3> QED BY <1>5, <2>3, <3>3
    <2> QED BY <1>1, <2>1, <2>2, <2>3, FinalizerWrites DEF e
  <1> QED BY <1>4, <1>5

\* A state that is committed is all that is added to the reservations.
LEMMA CommittedBelow ==
  ASSUME NEW state \in States, NEW n \in Int, Commit(state), Below(state, n),
         \A p \in reserved : p[2] <= n
  PROVE  Below(repo'.state, n) /\ \A p \in reserved' : p[2] <= n
  BY DEF Commit, Below, QueuedAttempts

LEMMA CountInit == Init => CountInv
  <1> SUFFICES ASSUME Init PROVE CountInv
    OBVIOUS
  <1>1. /\ repo.state = NoMutation.state /\ late = {} /\ reserved = {}
        /\ \A w \in Clients : client[w].mutation = NoMutation
    BY DEF Init, NoMutation, IdleClient
  <1> QED BY <1>1, NothingBelow DEF CountInv, Clients

\* Both after a step, as integers of their own.
LEMMA CapAfter ==
  ASSUME TypeInv'
  PROVE  /\ Limit' \in Int /\ Cap' \in Int
         /\ (Resetting' /\ Cap' = Limit' - 1) \/ (~ Resetting' /\ Cap' = Limit')
  <1>1. budget'.faults \in Nat /\ budget'.resets \in Nat
    BY DEF TypeInv, TypeOK, EnvTypeOK
  <1>2. Limit' \in Int
    BY <1>1, IndexStateAssumption, HostedIndexingAssumption DEF Limit
  <1>3. CASE Resetting'
    <2>1. Cap' = Limit' - 1
      BY <1>3 DEF Cap
    <2> QED BY <1>2, <1>3, <2>1
  <1>4. CASE ~ Resetting'
    <2>1. Cap' = Limit'
      BY <1>4 DEF Cap
    <2> QED BY <1>2, <1>4, <2>1
  <1> QED BY <1>3, <1>4

\* A step that changes the limit by d, and no reset's scan, changes the cap so.
LEMMA CapSteps ==
  ASSUME TypeInv, FrameInv, TypeInv', Limit' = Limit \/ Limit' = Limit + 1
  PROVE  /\ Limit <= Limit'
         /\ (Resetting' <=> Resetting) \/ ~ Resetting' => Cap <= Cap'
         /\ ~ Resetting' => Cap' = Limit' /\ Limit <= Cap'
         /\ (Resetting' <=> Resetting) /\ Limit' = Limit + 1 => Limit <= Cap'
         /\ ~ Resetting /\ Limit' = Limit + 1 => Cap <= Cap'
  <1>1. /\ Limit \in Int /\ Limit' \in Int /\ Cap \in Int /\ Cap' \in Int
    BY CapType, CapAfter
  <1>2. PICK l \in Int, k \in Int : l = Limit /\ k = Limit'
    BY <1>1
  <1>3. PICK c \in Int, d \in Int : c = Cap /\ d = Cap'
    BY <1>1
  <1>4. k = l \/ k = l + 1
    BY <1>2
  <1>5. (Resetting /\ c = l - 1) \/ (~ Resetting /\ c = l)
    BY <1>2, <1>3 DEF Cap
  <1>6. (Resetting' /\ d = k - 1) \/ (~ Resetting' /\ d = k)
    BY <1>2, <1>3, CapAfter
  <1>7. /\ l <= k
        /\ (c = l - 1 /\ d = k - 1) \/ d = k => c <= d
        /\ (c = l /\ d = k) \/ d = k => c <= d
        /\ d = k => l <= d
        /\ k = l + 1 /\ (d = k - 1 \/ d = k) => l <= d
        /\ k = l + 1 /\ c = l /\ (d = k - 1 \/ d = k) => c <= d
    BY <1>4, <1>5
  <1>8. k = l + 1 <=> Limit' = Limit + 1
    BY <1>2
  <1>9. /\ l <= k
        /\ (Resetting' <=> Resetting) \/ ~ Resetting' => c <= d
        /\ ~ Resetting' => d = k /\ l <= d
        /\ (Resetting' <=> Resetting) /\ k = l + 1 => l <= d
        /\ ~ Resetting /\ k = l + 1 => c <= d
    BY <1>4, <1>5, <1>6, <1>7
  <1> QED BY <1>2, <1>3, <1>8, <1>9

\* The cap only grows; the spending of a fault raises it, and so does the end of
\* a scan that resets.
LEMMA CapGrows ==
  ASSUME TypeInv, FrameInv, TypeInv', NEW w \in Clients, Update(w)
  PROVE  /\ Cap <= Cap' /\ Limit <= Limit'
         /\ w = Scanner /\ (Accepted(w) \/ (StartsAgain(w) /\ Spend("faults"))
                                        \/ (Ends(w) /\ Spend("faults")))
               => Limit <= Cap'
  <1>1. budget' = budget \/ Spend("faults")
    BY UpdateKinds DEF Computes, Computed, ReturnsRead, Accepted, StartsAgain, Ends,
                       Abandons
  <1>2. /\ budget' = budget => Limit' = Limit
        /\ Spend("faults") => Limit' = Limit + 1
    <2>1. budget.faults \in Nat /\ budget.resets \in Nat
      BY DEF TypeInv, TypeOK, EnvTypeOK
    <2>2. Spend("faults") => /\ budget'.faults = budget.faults - 1
                             /\ budget'.resets = budget.resets
      BY DEF Spend, TypeInv, TypeOK, EnvTypeOK
    <2> QED BY <2>1, <2>2, IndexStateAssumption, HostedIndexingAssumption DEF Limit
  <1>3. CASE w # Scanner \/ Computes(w) \/ StartsAgain(w)
    <2>1. UNCHANGED scan
      BY <1>3, UpdateKinds DEF Computes, Computed, ReturnsRead, Accepted, StartsAgain,
                               Ends, Return, Abort, Retry
    <2>2. Resetting' <=> Resetting
      BY <2>1 DEF Resetting
    <2>3. w = Scanner => ~ Accepted(w) /\ ~ Ends(w)
      <3>1. w = Scanner => client'[w].pc # "idle"
        BY <1>3, ClientAfter
      <3> QED BY <3>1, ClientAfter DEF IdleClient
    <2> QED BY <1>1, <1>2, <2>2, <2>3, CapSteps
  <1>4. CASE w = Scanner /\ (ReturnsRead(w) \/ Accepted(w) \/ Ends(w))
    <2>1. ~ Resetting'
      <3>1. CASE ReturnsRead(w) \/ Accepted(w)
        BY <1>4, <3>1 DEF ReturnsRead, Accepted, Return, Resetting, TypeInv, TypeOK,
                          ScanTypeOK
      <3>2. CASE Ends(w)
        BY <1>4, <3>2 DEF Ends, Abort, Resetting, IdleScan
      <3> QED BY <1>4, <3>1, <3>2
    <2> QED BY <1>1, <1>2, <2>1, CapSteps
  <1> QED BY <1>3, <1>4, UpdateKinds

LEMMA UpdateCountStep ==
  ASSUME TypeInv, FrameInv, OnlyReservedWork, CountInv, TypeInv', FrameInv',
         NEW w \in Clients, Update(w)
  PROVE  CountInv'
  <1>1. PICK cap \in Int, limit \in Int : cap = Cap' /\ limit = Limit'
    BY CapAfter
  <1>2. /\ Cap \in Int /\ Limit \in Int /\ Cap <= Limit
        /\ Cap <= cap /\ Limit <= limit
    BY <1>1, CapType, CapGrows
  <1>3. /\ repo.state \in States /\ \A m \in late : m.state \in States
        /\ \A v \in Clients : client[v].mutation.state \in States
    BY DEF TypeInv, TypeOK, RepoTypeOK, UpdateTypeOK, Mutation
  <1>4. \A state \in States : /\ Below(state, Cap) => Below(state, cap)
                              /\ Below(state, Limit) => Below(state, limit)
    BY <1>1, <1>2, BelowMore
  <1>5. \A v \in Clients : v # w => client'[v] = client[v]
    BY UpdateKinds, ClientAfter
  \* The write of a client, where it may land.
  <1>6. ASSUME Accepted(w) \/ (Spend("faults") /\ (StartsAgain(w) \/ Ends(w)))
        PROVE  Below(client[w].mutation.state, cap)
    <2>1. CASE w # Scanner
      BY <1>3, <1>4, <2>1 DEF CountInv, Clients
    <2>2. CASE w = Scanner
      <3>1. Limit <= cap
        BY <1>1, <1>6, <2>2, CapGrows
      <3> QED BY <1>1, <1>2, <1>3, <2>2, <3>1, BelowMore DEF CountInv
    <2> QED BY <2>1, <2>2
  <1>7. Below(repo'.state, cap) /\ \A p \in reserved' : p[2] <= cap
    <2>1. \A p \in reserved : p[2] <= cap
      <3>1. \A p \in reserved : p[2] \in Nat /\ p[2] <= Cap
        BY DEF CountInv, TypeInv, TypeOK, RepoTypeOK
      <3> QED BY <1>1, <1>2, <3>1
    <2>2. CASE Accepted(w)
      <3>1. Below(client[w].mutation.state, cap) /\ Commit(client[w].mutation.state)
        BY <1>6, <2>2 DEF Accepted
      <3> QED BY <1>1, <1>3, <2>1, <3>1, CommittedBelow
    <2>3. CASE UNCHANGED <<repo, reserved>>
      BY <1>3, <1>4, <2>1, <2>3 DEF CountInv
    <2> QED BY <2>2, <2>3, UpdateKinds
            DEF Computes, Computed, ReturnsRead, StartsAgain, Ends, Abandons
  <1>8. \A m \in late' : Below(m.state, cap)
    <2>1. \A m \in late : Below(m.state, cap)
      BY <1>3, <1>4 DEF CountInv
    <2>2. CASE UNCHANGED late
      BY <2>1, <2>2
    <2>3. CASE late' = late \cup Held(w) /\ Spend("faults") /\ (StartsAgain(w) \/ Ends(w))
      BY <1>6, <2>1, <2>3 DEF Held
    <2> QED BY <2>2, <2>3, UpdateKinds
            DEF Computes, Computed, ReturnsRead, Accepted, StartsAgain, Ends, Abandons
  <1>9. Below(client'[w].mutation.state, IF w = Scanner THEN limit ELSE cap)
    <2>1. CASE Computes(w)
      <3>1. /\ client'[w].mutation = mutate(w, read)
            /\ Below(mutate(w, read).state, IF w = Scanner THEN Limit ELSE Cap)
        BY <2>1, ClientAfter, ComputedBelow DEF Computes
      <3>2. mutate(w, read).state \in States
        BY UpdateKinds, MutateType DEF Mutation
      <3> QED BY <1>4, <3>1, <3>2
    <2>2. CASE ~ Computes(w)
      <3>1. client'[w].mutation \in {NoMutation, IdleClient.mutation}
        BY <2>2, UpdateKinds, ClientAfter
      <3> QED BY <3>1, NothingBelow
    <2> QED BY <2>1, <2>2
  <1>10. \A v \in Shas : Below(client'[v].mutation.state, cap)
    <2> TAKE v \in Shas
    <2>1. CASE v = w
      BY <1>9, <2>1, HostedIndexingAssumption
    <2>2. CASE v # w
      BY <1>3, <1>4, <1>5, <2>2 DEF CountInv, Clients
    <2> QED BY <2>1, <2>2
  <1>11. Below(client'[Scanner].mutation.state, limit)
    <2>1. CASE w = Scanner
      BY <1>9, <2>1
    <2>2. CASE w # Scanner
      BY <1>3, <1>4, <1>5, <2>2 DEF CountInv, Clients
    <2> QED BY <2>1, <2>2
  <1> QED BY <1>1, <1>7, <1>8, <1>10, <1>11 DEF CountInv, Below

\* A reset adds one to the limit when its scan starts, and to the cap when it ends.
LEMMA OtherCap ==
  ASSUME TypeInv, FrameInv, TypeInv',
         \/ LateWriteArrives \/ StartScan \/ DispatchNext \/ EndScan
         \/ \E sha \in Shas : IndexEnds(sha) \/ Rerun(sha)
         \/ ListingChanges \/ Tick
  PROVE  Cap <= Cap' /\ Limit <= Limit'
  <1>1. /\ budget.faults \in Nat /\ budget.resets \in Nat
        /\ budget'.faults \in Nat /\ budget'.resets \in Nat
    BY DEF TypeInv, TypeOK, EnvTypeOK
  <1>2. ASSUME NEW kind \in {"faults", "resets", "reruns", "listings"}, Spend(kind)
        PROVE  Limit' = IF kind \in {"faults", "resets"} THEN Limit + 1 ELSE Limit
    <2>1. /\ budget'.resets = IF kind = "resets" THEN budget.resets - 1
                                                  ELSE budget.resets
          /\ budget'.faults = IF kind = "faults" THEN budget.faults - 1
                                                  ELSE budget.faults
      BY <1>2 DEF Spend, TypeInv, TypeOK, EnvTypeOK
    <2> QED BY <1>1, <2>1, IndexStateAssumption, HostedIndexingAssumption DEF Limit
  <1>3. budget' = budget => Limit' = Limit
    BY DEF Limit
  <1>4. CASE StartScan
    <2>1. scan'.pc = "reserve" /\ ~ Resetting
      BY <1>4 DEF StartScan, Resetting, TypeInv, TypeOK, ScanTypeOK
    <2>2. CASE scan'.reset = NoSha /\ UNCHANGED budget
      <3>1. Limit' = Limit /\ ~ Resetting'
        BY <1>3, <2>2 DEF Resetting
      <3> QED BY <3>1, CapSteps
    <2>3. CASE Spend("resets")
      BY <1>2, <2>1, <2>3, CapSteps
    <2> QED BY <1>4, <2>2, <2>3 DEF StartScan, TypeInv, TypeOK, ScanTypeOK
  <1>5. CASE DispatchNext \/ EndScan
    <2>1. ~ Resetting'
      BY <1>5 DEF DispatchNext, EndScan, Resetting, IdleScan, TypeInv, TypeOK, ScanTypeOK
    <2>2. budget' = budget \/ Spend("faults")
      BY <1>5 DEF DispatchNext, EndScan, Dispatch, Fault
    <2> QED BY <1>2, <1>3, <2>1, <2>2, CapSteps
  <1>6. CASE \/ LateWriteArrives \/ \E sha \in Shas : IndexEnds(sha) \/ Rerun(sha)
             \/ ListingChanges \/ Tick
    <2>1. UNCHANGED scan /\ (budget' = budget \/ Spend("reruns") \/ Spend("listings"))
      BY <1>6 DEF LateWriteArrives, IndexEnds, Rerun, ListingChanges, Tick
    <2>2. Resetting' <=> Resetting
      BY <2>1 DEF Resetting
    <2> QED BY <1>2, <1>3, <2>1, <2>2, CapSteps
  <1> QED BY <1>4, <1>5, <1>6

LEMMA OtherCountStep ==
  ASSUME TypeInv, FrameInv, CountInv, TypeInv',
         \/ LateWriteArrives \/ StartScan \/ DispatchNext \/ EndScan
         \/ \E sha \in Shas : IndexEnds(sha) \/ Rerun(sha)
         \/ ListingChanges \/ Tick
  PROVE  CountInv'
  <1>1. PICK cap \in Int, limit \in Int : cap = Cap' /\ limit = Limit'
    BY CapAfter
  <1>2. Cap \in Int /\ Limit \in Int /\ Cap <= cap /\ Limit <= limit
    BY <1>1, CapType, OtherCap
  <1>3. /\ repo.state \in States /\ \A m \in late : m.state \in States
        /\ \A v \in Clients : client[v].mutation.state \in States
    BY DEF TypeInv, TypeOK, RepoTypeOK, UpdateTypeOK, Mutation
  <1>4. \A state \in States : /\ Below(state, Cap) => Below(state, cap)
                              /\ Below(state, Limit) => Below(state, limit)
    BY <1>1, <1>2, BelowMore
  <1>5. \A v \in Clients : client'[v] = client[v] \/ client'[v].mutation = NoMutation
    <2>1. IdleClient.mutation = NoMutation
      BY DEF IdleClient
    <2>2. CASE StartScan
      BY <2>1, <2>2 DEF StartScan, TypeInv, TypeOK, UpdateTypeOK, IdleClient
    <2>3. CASE \E sha \in Shas : IndexEnds(sha)
      BY <2>1, <2>3 DEF IndexEnds, TypeInv, TypeOK, UpdateTypeOK, IdleClient
    <2> QED BY <2>2, <2>3
            DEF LateWriteArrives, DispatchNext, EndScan, Rerun, ListingChanges, Tick
  <1>6. \A p \in reserved : p[2] <= cap
    <2>1. \A p \in reserved : p[2] \in Nat /\ p[2] <= Cap
      BY DEF CountInv, TypeInv, TypeOK, RepoTypeOK
    <2> QED BY <1>1, <1>2, <2>1
  <1>7. /\ Below(repo'.state, cap) /\ \A p \in reserved' : p[2] <= cap
        /\ late' \subseteq late
    <2>1. CASE UNCHANGED <<repo, reserved>> /\ late' \subseteq late
      BY <1>3, <1>4, <1>6, <2>1 DEF CountInv
    <2>2. CASE \E m \in late : Commit(m.state) /\ late' = late \ {m}
      <3>1. PICK m \in late : Commit(m.state) /\ late' = late \ {m}
        BY <2>2
      <3>2. Below(m.state, cap)
        BY <1>3, <1>4 DEF CountInv
      <3> QED BY <1>1, <1>3, <1>6, <3>1, <3>2, CommittedBelow
    <2> QED BY <2>1, <2>2 DEF LateWriteArrives, StartScan, DispatchNext, EndScan, IndexEnds,
                              Rerun, ListingChanges, Tick
  <1>8. \A m \in late' : Below(m.state, cap)
    BY <1>3, <1>4, <1>7 DEF CountInv
  <1>9. \A v \in Shas : Below(client'[v].mutation.state, cap)
    BY <1>3, <1>4, <1>5, NothingBelow DEF CountInv, Clients
  <1>10. Below(client'[Scanner].mutation.state, limit)
    BY <1>3, <1>4, <1>5, NothingBelow DEF CountInv, Clients
  <1> QED BY <1>1, <1>7, <1>8, <1>9, <1>10 DEF CountInv, Below

LEMMA CountStutter == ASSUME CountInv, UNCHANGED vars PROVE CountInv'
  BY DEF vars, CountInv, Below, Cap, Limit, Resetting

LEMMA WorkStutter == ASSUME WorkInv, UNCHANGED vars PROVE WorkInv'
  BY DEF vars, WorkInv, OnlyReservedWork, ClientsBacked, FileReserved, Pair

\* No commit is given more attempts than the limit, the resets and the faults
\* allow: StateRepository.update over reserveCandidates, however often a write is
\* repeated, lost, or lands late.
THEOREM AttemptsAreBounded == Spec => []AttemptsBounded
  <1> DEFINE IInv == TypeInv /\ WorkInv /\ FrameInv /\ CountInv
  <1>1. Init => IInv
    BY TypeInit, WorkInit, FrameInit, CountInit
  <1>2. IInv /\ [Next]_vars => IInv'
    <2> SUFFICES ASSUME IInv, [Next]_vars PROVE IInv'
      OBVIOUS
    <2>1. ASSUME NEW w \in Clients, Update(w) PROVE IInv'
      <3>1. TypeInv' /\ WorkInv' /\ FrameInv'
        BY <2>1, UpdateTypeStep, UpdateWorkStep, UpdateFrameStep
      <3> QED BY <2>1, <3>1, UpdateCountStep DEF WorkInv
    <2>2. CASE \/ LateWriteArrives \/ StartScan \/ DispatchNext \/ EndScan
               \/ \E sha \in Shas : IndexEnds(sha) \/ Rerun(sha)
               \/ ListingChanges \/ Tick
      BY <2>2, OtherTypeStep, OtherWorkStep, OtherFrameStep, OtherCountStep
    <2>3. CASE UNCHANGED vars
      BY <2>3, TypeStutter, WorkStutter, FrameStutter, CountStutter
    <2> QED BY <2>1, <2>2, <2>3 DEF Next
  <1>3. IInv => AttemptsBounded
    <2> SUFFICES ASSUME IInv, NEW p \in reserved PROVE p[2] <= Limit
      BY DEF AttemptsBounded, Limit
    <2>1. p[2] \in Nat /\ p[2] <= Cap
      BY DEF CountInv, TypeInv, TypeOK, RepoTypeOK
    <2> QED BY <2>1, CapType
  <1> QED BY <1>1, <1>2, <1>3, PTL DEF Spec

-----------------------------------------------------------------------------
(***************************************************************************)
(* An unanswered write that landed is recognised.                           *)
(***************************************************************************)
\* The parser gives a plain state back as it is.
LEMMA PlainParsed ==
  ASSUME NEW state \in States,
         \A sha \in Shas :
            state.entries[sha] = NoEntry \/ state.entries[sha].layout = "parsed"
  PROVE  parseState(state) = state
  <1>1. ASSUME NEW sha \in Shas PROVE ParseEntry(state.entries[sha]) = state.entries[sha]
    <2>1. state.entries[sha] # NoEntry => state.entries[sha] \in Entries
      BY DEF States
    <2> QED BY <2>1 DEF ParseEntry, Entries
  <1>2. [sha \in Shas |-> ParseEntry(state.entries[sha])] = state.entries
    BY <1>1 DEF States
  <1> QED BY <1>2 DEF parseState, States

LEMMA WriteRecognised ==
  ASSUME TypeInv, FrameInv, NEW m \in client[Scanner].ambiguous, m.state = repo.state
  PROVE  m.state = read
  <1>1. /\ Plain(m) /\ m.base \in Nat /\ m.base <= repo.version
        /\ repo.version \in Nat /\ repo.state \in States
    BY DEF FrameInv, TypeInv, TypeOK, RepoTypeOK, UpdateTypeOK, Mutation, Clients
  <1>2. CASE repo.version = 0
    <2>1. m.base = 0
      BY <1>1, <1>2
    <2>2. PICK sha \in Shas : repo.state.entries[sha] # NoEntry
      BY <1>1, <2>1 DEF Plain
    <2> QED BY <1>2, <2>2 DEF FrameInv, emptyState
  <1>3. CASE repo.version # 0
    BY <1>1, <1>3, PlainParsed DEF Plain, read
  <1> QED BY <1>2, <1>3

\* A scan that reads back what one of its unanswered writes wrote returns with
\* it: StateRepository.update compares what it read with every ambiguous write.
THEOREM ReservationIsConfirmed == Spec => ReservationConfirmed
  <1> DEFINE IInv == TypeInv /\ FrameInv
  <1>1. Init => IInv
    BY TypeInit, FrameInit
  <1>2. IInv /\ [Next]_vars => IInv'
    BY UpdateTypeStep, OtherTypeStep, TypeStutter, UpdateFrameStep, OtherFrameStep,
       FrameStutter DEF Next
  <1>3. IInv /\ [Next]_vars => [Confirms(Scanner)]_vars
    <2> SUFFICES ASSUME IInv, Next, client[Scanner].pc = "read",
                        client[Scanner].tries < MaxTries,
                        NEW m \in client[Scanner].ambiguous, m.state = repo.state,
                        client'[Scanner] # client[Scanner], budget' = budget
                 PROVE  client'[Scanner].pc = "idle"
      BY DEF Confirms
    <2>1. ASSUME NEW kind \in {"faults", "resets", "reruns", "listings"}
          PROVE  ~ Spend(kind)
      BY DEF Spend, TypeInv, TypeOK, EnvTypeOK
    <2>2. CASE \E w \in Clients : Update(w)
      <3>1. PICK w \in Clients : Update(w)
        BY <2>2
      <3>2. w = Scanner
        BY <3>1, UpdateKinds, ClientAfter DEF Clients
      <3>3. ~ (ReadFails(Scanner) \/ WriteUnanswered(Scanner) \/ Killed(Scanner))
        BY <2>1 DEF ReadFails, WriteUnanswered, Killed, Fault
      <3>4. ~ (GiveUp(Scanner) \/ WriteAccepted(Scanner) \/ WriteRefused(Scanner))
        BY HostedIndexingAssumption DEF GiveUp, WriteAccepted, WriteRefused
      <3>5. Read(Scanner)
        BY <3>1, <3>2, <3>3, <3>4 DEF Update
      <3>6. \E q : Return(Scanner, q)
        BY <3>5, WriteRecognised DEF Read, sameState
      <3>7. client' = [client EXCEPT ![Scanner] = IdleClient]
        BY <3>6 DEF Return
      <3> QED BY <3>7 DEF IdleClient, TypeInv, TypeOK, UpdateTypeOK, Clients
    <2>3. CASE \/ LateWriteArrives \/ StartScan \/ DispatchNext \/ EndScan
               \/ \E sha \in Shas : IndexEnds(sha) \/ Rerun(sha)
               \/ ListingChanges \/ Tick
      <3>1. ~ StartScan
        BY DEF StartScan, FrameInv
      <3>2. client'[Scanner] = client[Scanner]
        BY <2>3, <3>1, HostedIndexingAssumption
           DEF LateWriteArrives, DispatchNext, EndScan, IndexEnds, Rerun, ListingChanges,
               Tick, TypeInv, TypeOK, UpdateTypeOK, Clients
      <3> QED BY <3>2
    <2> QED BY <2>2, <2>3 DEF Next
  <1> QED BY <1>1, <1>2, <1>3, PTL DEF Spec, ReservationConfirmed

-----------------------------------------------------------------------------
(***************************************************************************)
(* The order of the attempts, while every listing has every commit and no   *)
(* artifact expires: where one leaves, its attempts start again at 1.       *)
(***************************************************************************)
Steady ==
    /\ \A l \in Listings : Listed(l) = Shas
    /\ MaxTime < Retention

\* An entry that takes the place of another counts on from it, and a rerun
\* that failed does not replace a success.
Supersedes(f, e) ==
    e # NoEntry =>
        /\ f # NoEntry
        /\ \/ f.attempts > e.attempts
           \/ f.attempts = e.attempts /\ (e.status = "success" => f.status = "success")

\* A success is kept beyond the model's time, and a result is that of a run.
Grounded(state, runs) ==
    \A sha \in Shas :
        state.entries[sha] # NoEntry =>
            /\ state.entries[sha].status = "success" =>
                  state.entries[sha].artifactExpiresAt >= Retention
            /\ state.entries[sha].status # "queued" =>
                  <<sha, state.entries[sha].attempts>> \in runs

\* The write of f over e: without a reset a success stays one.
Succeeds(f, e, resets) ==
    /\ Supersedes(f, e)
    /\ resets = MaxResets /\ e # NoEntry /\ e.status = "success" =>
          f.status = "success"

SucceedsFile(state, file, resets) ==
    \A sha \in Shas : Succeeds(state.entries[sha], file.entries[sha], resets)

WritesInv ==
    /\ Grounded(repo.state, dispatched)
    /\ \A m \in Pending :
          /\ Grounded(m.state, dispatched)
          /\ m.base = repo.version => SucceedsFile(m.state, repo.state, budget.resets)

\* Nothing reserved counts past the entry of its commit.
CountedOn ==
    \A p \in reserved :
        /\ repo.state.entries[p[1]] # NoEntry
        /\ p[2] <= repo.state.entries[p[1]].attempts

\* A reservation is later than all that was dispatched, and the only one of
\* its commit.
IsNext(r) == \A p \in dispatched : p[1] = r.candidate.sha => p[2] < r.attempt

OneEach(rs) == \A r, q \in rs : r.candidate.sha = q.candidate.sha => r = q

Upcoming(rs) == OneEach(rs) /\ \A r \in rs : IsNext(r)

QueueInv ==
    /\ Upcoming(scan.queue) /\ Upcoming(client[Scanner].mutation.selected)
    /\ \A m \in client[Scanner].ambiguous : Upcoming(m.selected)

\* The newest run of a commit is the one with the highest attempt.
InOrder(run, sha) ==
    /\ run.serial <= newest[sha].serial
    /\ run.serial = newest[sha].serial =>
          \A p \in dispatched : p[1] = sha => p[2] <= run.attempt

RunsOrdered == \A sha \in Shas : \A run \in RunsOf(sha) : InOrder(run, sha)

\* The entry says that the run succeeded, if it did, or is of a later one.
Tells(e, run) ==
    /\ e # NoEntry /\ e.attempts >= run.attempt
    /\ run.conclusion = "success" /\ e.attempts = run.attempt => e.status = "success"

ResultsWritten ==
    \A sha \in Shas :
        /\ client[sha].pc = "write" =>
              Tells(client[sha].mutation.state.entries[sha], group[sha].active)
        /\ \A m \in client[sha].ambiguous :
              Tells(m.state.entries[sha], group[sha].active)

\* The entry is later than every run of its commit, or a success of the last.
Outdoes(e, sha, runs) ==
    /\ e # NoEntry
    /\ \A p \in runs : p[1] = sha =>
          \/ p[2] < e.attempts
          \/ p[2] = e.attempts /\ e.status = "success"

SuccessTold ==
    \A sha \in Shas :
        newest[sha].conclusion = "success" =>
            Outdoes(repo.state.entries[sha], sha, dispatched)

OrderInv ==
    /\ now <= MaxTime /\ WritesInv /\ CountedOn /\ QueueInv
    /\ RunsOrdered /\ ResultsWritten /\ SuccessTold

LEMMA OrderInit == Init => OrderInv
  <1> SUFFICES ASSUME Init PROVE OrderInv
    OBVIOUS
  <1>1. /\ now = 0 /\ MaxTime \in Nat /\ repo.state = NoMutation.state /\ late = {}
        /\ reserved = {} /\ dispatched = {} /\ scan.queue = {}
        /\ \A w \in Clients : client[w] = IdleClient
        /\ \A sha \in Shas : newest[sha].conclusion = "none" /\ RunsOf(sha) = {}
    BY HostedIndexingAssumption
       DEF Init, NoMutation, IdleScan, RunsOf, EmptyGroup
  <1>2. Pending \subseteq {NoMutation}
    BY <1>1 DEF Pending, IdleClient
  <1>3. WritesInv
    BY <1>1, <1>2, NothingWritten DEF WritesInv, Grounded, SucceedsFile, Succeeds, Supersedes
  <1>4. QueueInv /\ ResultsWritten
    BY <1>1, NothingWritten
       DEF QueueInv, Upcoming, OneEach, ResultsWritten, IdleClient, Clients
  <1> QED BY <1>1, <1>3, <1>4 DEF OrderInv, CountedOn, RunsOrdered, SuccessTold

\* What a scan chooses has not succeeded for good: it counts on from the file.
LEMMA ChosenCountsOn ==
  ASSUME Steady, TypeInv, FrameInv, now <= MaxTime, WritesInv,
         NEW sha \in Chosen(scan.listing, scan.reset, read, now),
         client[Scanner].pc = "read", repo.state.entries[sha] # NoEntry
  PROVE  /\ NextAttempt(read, scan.reset, sha) = repo.state.entries[sha].attempts + 1
         /\ sha \in Shas
         /\ repo.state.entries[sha].status = "success" => budget.resets < MaxResets
  <1> DEFINE e == repo.state.entries[sha]
             seen == read.entries[sha]
  <1>1. /\ read \in States /\ now \in Nat /\ sha \in Shas /\ e \in Entries
    <2>1. sha \in Shas
      BY ChosenListed, CandidateOfListed, ScanListing DEF TypeInv, TypeOK
    <2> QED BY <2>1, ReadType DEF TypeInv, TypeOK, EnvTypeOK, RepoTypeOK, States
  <1>2. /\ seen # NoEntry /\ seen.status = e.status /\ seen.attempts = e.attempts
        /\ seen.artifactExpiresAt = e.artifactExpiresAt
    BY <1>1, ReadEntry DEF FrameInv
  <1>3. e.status = "success" => e.artifactExpiresAt > now
    <2>1. e.status = "success" => e.artifactExpiresAt >= Retention
      BY <1>1 DEF WritesInv, Grounded
    <2>2. e.artifactExpiresAt \in Nat
      BY <1>1 DEF Entries
    <2> QED BY <1>1, <2>1, <2>2, IndexStateAssumption, HostedIndexingAssumption DEF Steady
  <1>4. sha = scan.reset \/ e.status # "success"
    BY <1>1, <1>2, <1>3, ChosenIsEligible
  <1>5. sha = scan.reset => budget.resets < MaxResets
    BY <1>1, IndexStateAssumption DEF FrameInv
  <1>6. NextAttempt(read, scan.reset, sha) = seen.attempts + 1
    BY <1>2, <1>4, NextAttemptIs
  <1> QED BY <1>1, <1>2, <1>4, <1>5, <1>6

\* Whatever an update computes succeeds what the file holds.
LEMMA ComputedSucceeds ==
  ASSUME Steady, TypeInv, FrameInv, OnlyReservedWork, now <= MaxTime, WritesInv,
         CountedOn, NEW w \in Clients, NEW m, Computed(w, m)
  PROVE  Grounded(m.state, dispatched) /\ SucceedsFile(m.state, repo.state, budget.resets)
  <1>1. client[w].pc = "read" /\ m = mutate(w, read)
    BY DEF Computed
  <1> SUFFICES ASSUME NEW sha \in Shas, NEW f, f = m.state.entries[sha],
                      NEW e, e = repo.state.entries[sha]
               PROVE  /\ f # NoEntry =>
                           /\ f.status = "success" => f.artifactExpiresAt >= Retention
                           /\ f.status # "queued" => <<sha, f.attempts>> \in dispatched
                      /\ Succeeds(f, e, budget.resets)
    BY DEF Grounded, SucceedsFile
  <1>2. /\ e # NoEntry =>
             /\ e.attempts \in Nat
             /\ e.status = "success" => e.artifactExpiresAt >= Retention
             /\ e.status # "queued" => <<sha, e.attempts>> \in dispatched
    BY DEF WritesInv, Grounded, TypeInv, TypeOK, RepoTypeOK, States, Entries
  <1>3. CASE /\ f = NoEntry <=> e = NoEntry
             /\ e # NoEntry =>
                   /\ f.status = e.status /\ f.attempts = e.attempts
                   /\ f.artifactExpiresAt = e.artifactExpiresAt
    BY <1>2, <1>3 DEF Succeeds, Supersedes
  <1>4. CASE w = Scanner
    <2>1. sha \in Listed(scan.listing)
      BY <1>1, <1>4 DEF Steady, FrameInv
    <2>2. CASE /\ sha \in Chosen(scan.listing, scan.reset, read, now) /\ f # NoEntry
               /\ f.status = "queued" /\ f.attempts = NextAttempt(read, scan.reset, sha)
      <3>1. e # NoEntry => /\ f.attempts = e.attempts + 1
                           /\ e.status = "success" => budget.resets < MaxResets
        BY <1>1, <1>4, <2>2, ChosenCountsOn
      <3>2. budget.resets # MaxResets \/ e = NoEntry \/ e.status # "success"
        BY <3>1, HostedIndexingAssumption DEF TypeInv, TypeOK, EnvTypeOK
      <3> QED BY <1>2, <2>2, <3>1, <3>2 DEF Succeeds, Supersedes
    <2> QED BY <1>1, <1>3, <1>4, <2>1, <2>2, ScanWrites
  <1>5. CASE w # Scanner
    <2> DEFINE run == group[w].active
    <2>1. w \in Shas
      BY <1>5 DEF Clients
    <2>2. /\ run \in RunsOf(w) /\ run \in Run
      BY <1>1, <2>1, FinalizerWrites
    <2>3. <<w, run.attempt>> \in dispatched /\ run.attempt \in Nat
      BY <2>1, <2>2 DEF FrameInv, Run
    <2>4. CASE /\ sha = w /\ ~ StaleCompletion(e, run.attempt, run.conclusion)
               /\ f # NoEntry /\ f.attempts = run.attempt
               /\ f.status = IF run.conclusion = "success" THEN "success" ELSE "failed"
               /\ f.status = "success" => f.artifactExpiresAt >= Retention
      <3>1. e # NoEntry /\ run.attempt <= e.attempts
        BY <2>3, <2>4 DEF OnlyReservedWork, CountedOn
      <3>2. /\ run.attempt = e.attempts
            /\ e.status = "success" => run.conclusion = "success"
        BY <1>2, <2>3, <2>4, <3>1 DEF StaleCompletion
      <3> QED BY <2>3, <2>4, <3>1, <3>2 DEF Succeeds, Supersedes
    <2> QED BY <1>1, <1>3, <2>1, <2>4, FinalizerWrites
  <1> QED BY <1>4, <1>5

\* What is dispatched only grows, and never in a step that writes the file.
LEMMA DispatchedGrows ==
  ASSUME DispatchMoves PROVE dispatched \subseteq dispatched'
  BY DEF DispatchMoves

LEMMA WritesKept ==
  ASSUME Steady, TypeInv, FrameInv, OnlyReservedWork, now <= MaxTime, WritesInv,
         CountedOn, Fresh', Moves, dispatched \subseteq dispatched',
         budget'.resets = MaxResets => budget.resets = MaxResets
  PROVE  WritesInv'
  <1>1. ASSUME NEW state, Grounded(state, dispatched) PROVE Grounded(state, dispatched')
    BY <1>1 DEF Grounded
  <1>2. ASSUME NEW state, NEW file, SucceedsFile(state, file, budget.resets)
        PROVE  SucceedsFile(state, file, budget'.resets)
    BY <1>2 DEF SucceedsFile, Succeeds
  <1>3. Grounded(repo'.state, dispatched')
    <2>1. CASE UNCHANGED repo
      BY <1>1, <2>1 DEF WritesInv
    <2>2. CASE \E m \in Pending : Landed(m)
      BY <1>1, <2>2 DEF WritesInv, Landed, Commit
    <2> QED BY <2>1, <2>2 DEF Moves
  <1>4. ASSUME NEW m \in Pending'
        PROVE  /\ Grounded(m.state, dispatched')
               /\ m.base = repo'.version =>
                     SucceedsFile(m.state, repo'.state, budget'.resets)
    <2>1. CASE m \in Pending
      <3>1. Grounded(m.state, dispatched')
        BY <1>1, <2>1 DEF WritesInv
      <3>2. CASE UNCHANGED repo
        BY <1>2, <2>1, <3>1, <3>2 DEF WritesInv
      <3>3. CASE \E q \in Pending : Landed(q)
        <4>1. repo'.version = repo.version + 1 /\ repo.version \in Nat
          BY <3>3 DEF Landed, Commit, TypeInv, TypeOK, RepoTypeOK
        <4>2. m.base \in Nat /\ m.base <= repo.version
          BY <2>1 DEF FrameInv, Pending, TypeInv, TypeOK, RepoTypeOK, UpdateTypeOK, Mutation
        <4>3. m.base # repo'.version
          BY <4>1, <4>2
        <4> QED BY <3>1, <4>3
      <3> QED BY <3>2, <3>3 DEF Moves
    <2>2. CASE m = NoMutation
      <3>1. m.base = repo'.version => \A sha \in Shas : repo'.state.entries[sha] = NoEntry
        BY <2>2, NothingWritten DEF emptyState
      <3> QED BY <2>2, <3>1, NothingWritten
              DEF Grounded, SucceedsFile, Succeeds, Supersedes
    <2>3. CASE \E w \in Clients : Computed(w, m)
      <3>1. /\ Grounded(m.state, dispatched) /\ UNCHANGED repo
            /\ SucceedsFile(m.state, repo.state, budget.resets)
        BY <2>3, ComputedSucceeds DEF Computed
      <3> QED BY <1>1, <1>2, <3>1
    <2> QED BY <2>1, <2>2, <2>3 DEF Moves
  <1> QED BY <1>3, <1>4 DEF WritesInv

LEMMA CountedKept ==
  ASSUME TypeInv, WritesInv, CountedOn, Moves PROVE CountedOn'
  <1>1. CASE UNCHANGED <<repo, reserved>>
    BY <1>1 DEF CountedOn
  <1>2. CASE \E m \in Pending : Landed(m)
    <2>1. PICK m \in Pending : Landed(m)
      BY <1>2
    <2>2. /\ repo'.state = m.state /\ reserved' = reserved \cup QueuedAttempts(m.state)
          /\ m.base = repo.version
      BY <2>1 DEF Landed, Commit
    <2>3. m.state \in States /\ repo.state \in States /\ reserved \subseteq Shas \X (Nat \ {0})
      BY DEF Pending, TypeInv, TypeOK, RepoTypeOK, UpdateTypeOK, Mutation
    <2> SUFFICES ASSUME NEW p \in reserved'
                 PROVE  /\ m.state.entries[p[1]] # NoEntry
                        /\ p[2] <= m.state.entries[p[1]].attempts
      BY <2>2 DEF CountedOn
    <2>4. CASE p \in QueuedAttempts(m.state)
      BY <2>3, <2>4 DEF QueuedAttempts, States, Entries
    <2>5. CASE p \in reserved
      <3> DEFINE e == repo.state.entries[p[1]]
                 f == m.state.entries[p[1]]
      <3>1. p[1] \in Shas /\ p[2] \in Nat /\ e # NoEntry /\ p[2] <= e.attempts
        BY <2>3, <2>5 DEF CountedOn
      <3>2. Supersedes(f, e)
        BY <2>2, <3>1 DEF WritesInv, SucceedsFile, Succeeds
      <3>3. f # NoEntry /\ f.attempts \in Nat /\ e.attempts \in Nat
        BY <2>3, <3>1, <3>2 DEF Supersedes, States, Entries
      <3> QED BY <3>1, <3>2, <3>3 DEF Supersedes
    <2> QED BY <2>2, <2>4, <2>5
  <1> QED BY <1>1, <1>2 DEF Moves

\* What a scan computes is upcoming.
LEMMA SelectedUpcoming ==
  ASSUME Steady, TypeInv, FrameInv, OnlyReservedWork, now <= MaxTime, WritesInv,
         CountedOn, client[Scanner].pc = "read"
  PROVE  Upcoming(mutate(Scanner, read).selected)
  <1> DEFINE chosen == Chosen(scan.listing, scan.reset, read, now)
             rs == mutate(Scanner, read).selected
  <1>1. rs = {[candidate |-> CandidateOf(scan.listing, sha),
               attempt   |-> NextAttempt(read, scan.reset, sha)] : sha \in chosen}
    BY DEF mutate, Selected
  <1>2. \A sha \in chosen : sha \in Shas /\ CandidateOf(scan.listing, sha).sha = sha
    BY ChosenListed, CandidateOfListed, ScanListing DEF TypeInv, TypeOK
  <1>3. OneEach(rs)
    BY <1>1, <1>2 DEF OneEach
  <1>4. ASSUME NEW r \in rs PROVE IsNext(r)
    <2>1. PICK sha \in chosen : /\ r.candidate.sha = sha
                                /\ r.attempt = NextAttempt(read, scan.reset, sha)
      BY <1>1, <1>2
    <2> SUFFICES ASSUME NEW p \in dispatched, p[1] = sha PROVE p[2] < r.attempt
      BY <2>1 DEF IsNext
    <2>2. /\ repo.state.entries[sha] # NoEntry /\ p[2] \in Nat
          /\ p[2] <= repo.state.entries[sha].attempts
      BY DEF OnlyReservedWork, CountedOn, TypeInv, TypeOK, RepoTypeOK, RunTypeOK
    <2>3. r.attempt = repo.state.entries[sha].attempts + 1
      BY <2>1, <2>2, ChosenCountsOn
    <2>4. repo.state.entries[sha].attempts \in Nat
      BY <1>2, <2>2 DEF TypeInv, TypeOK, RepoTypeOK, States, Entries
    <2> QED BY <2>2, <2>3, <2>4
  <1> QED BY <1>3, <1>4 DEF Upcoming

LEMMA UpcomingNothing == Upcoming({})
  BY DEF Upcoming, OneEach

LEMMA UpdateQueueStep ==
  ASSUME Steady, TypeInv, FrameInv, OnlyReservedWork, now <= MaxTime, WritesInv,
         CountedOn, QueueInv, NEW w \in Clients, Update(w)
  PROVE  QueueInv'
  <1>1. UNCHANGED dispatched
    BY UpdateRunMoves
  <1>2. ASSUME NEW rs, Upcoming(rs) PROVE Upcoming(rs)'
    BY <1>1, <1>2 DEF Upcoming, IsNext
  <1>3. CASE w # Scanner
    <2>1. client'[Scanner] = client[Scanner]
      BY <1>3, UpdateKinds, ClientAfter DEF Clients
    <2>2. UNCHANGED scan
      <3>1. CASE Computes(w)
        BY <3>1 DEF Computes, Computed
      <3>2. CASE ReturnsRead(w)
        BY <1>3, <3>2 DEF ReturnsRead, Return
      <3>3. CASE Accepted(w)
        BY <1>3, <3>3 DEF Accepted, Return
      <3>4. CASE StartsAgain(w)
        BY <3>4 DEF StartsAgain, Retry
      <3>5. CASE Ends(w)
        BY <1>3, <3>5 DEF Ends, Abort
      <3> QED BY <3>1, <3>2, <3>3, <3>4, <3>5, UpdateKinds
    <2> QED BY <1>1, <2>1, <2>2 DEF QueueInv, Upcoming, IsNext
  <1>4. CASE w = Scanner
    <2>1. /\ client[w].pc = "read" => Upcoming(mutate(w, read).selected)
          /\ Upcoming(client[w].mutation.selected) /\ Upcoming(scan.queue)
          /\ \A m \in client[w].ambiguous : Upcoming(m.selected)
      BY <1>4, SelectedUpcoming DEF QueueInv
    <2>2. Upcoming(scan'.queue)
      <3>1. CASE UNCHANGED scan \/ scan' = IdleScan
        <4>1. CASE UNCHANGED scan
          BY <2>1, <4>1
        <4>2. CASE scan' = IdleScan
          <5>1. scan'.queue = {}
            BY <4>2 DEF IdleScan
          <5> QED BY <5>1, UpcomingNothing
        <4> QED BY <3>1, <4>1, <4>2
      <3>2. CASE ReturnsRead(w) \/ Accepted(w)
        <4>1. PICK rs : Return(w, rs) /\ Upcoming(rs)
          BY <2>1, <3>2 DEF ReturnsRead, Accepted
        <4>2. scan' = [scan EXCEPT !.pc = "dispatch", !.queue = rs]
          BY <1>4, <4>1 DEF Return
        <4> QED BY <4>1, <4>2 DEF TypeInv, TypeOK, ScanTypeOK
      <3> QED BY <1>4, <3>1, <3>2, UpdateKinds
              DEF Computes, Computed, StartsAgain, Ends, Abort, Retry
    <2>3. Upcoming(client'[w].mutation.selected)
      <3>1. client'[w].mutation \in {NoMutation, IdleClient.mutation}
              \/ Computes(w)
        BY UpdateKinds, ClientAfter
      <3>2. CASE Computes(w)
        BY <2>1, <3>2, ClientAfter DEF Computes, Computed
      <3> QED BY <3>1, <3>2, UpcomingNothing, NothingWritten DEF IdleClient
    <2>4. \A m \in client'[w].ambiguous : Upcoming(m.selected)
      BY <2>1, UpdateMoves DEF Moves, Kept
    <2> QED BY <1>1, <1>4, <2>2, <2>3, <2>4 DEF QueueInv, Upcoming, IsNext
  <1> QED BY <1>3, <1>4

LEMMA OtherQueueStep ==
  ASSUME TypeInv, FrameInv, QueueInv,
         \/ LateWriteArrives \/ StartScan \/ DispatchNext \/ EndScan
         \/ \E sha \in Shas : IndexEnds(sha) \/ Rerun(sha)
         \/ ListingChanges \/ Tick
  PROVE  QueueInv'
  <1>1. /\ \/ client'[Scanner] = client[Scanner]
           \/ /\ client'[Scanner].mutation.selected = {}
              /\ client'[Scanner].ambiguous = {}
    <2>1. CASE StartScan
      BY <2>1, NothingWritten
         DEF StartScan, TypeInv, TypeOK, UpdateTypeOK, IdleClient, Clients
    <2> QED BY <2>1, HostedIndexingAssumption
            DEF LateWriteArrives, DispatchNext, EndScan, IndexEnds, Rerun, ListingChanges,
                Tick, TypeInv, TypeOK, UpdateTypeOK, Clients
  <1>2. CASE UNCHANGED dispatched /\ scan'.queue \subseteq scan.queue
    BY <1>1, <1>2 DEF QueueInv, Upcoming, OneEach, IsNext
  <1>3. CASE \E r \in scan.queue : /\ scan.pc = "dispatch" /\ Dispatch(r)
                                   /\ scan' = [scan EXCEPT !.queue = @ \ {r}]
                                   /\ UNCHANGED client
    <2>1. PICK r \in scan.queue : /\ scan.pc = "dispatch" /\ Dispatch(r)
                                  /\ scan' = [scan EXCEPT !.queue = @ \ {r}]
      BY <1>3
    <2>2. /\ dispatched' = dispatched \cup {<<r.candidate.sha, r.attempt>>}
          /\ scan'.queue = scan.queue \ {r}
      BY <2>1 DEF Dispatch, TypeInv, TypeOK, ScanTypeOK
    <2>3. client'[Scanner].mutation.selected = {} /\ client'[Scanner].ambiguous = {}
      <3>1. client'[Scanner] = IdleClient
        BY <1>3, <2>1 DEF FrameInv, TypeInv, TypeOK, UpdateTypeOK, Clients
      <3> QED BY <3>1, NothingWritten DEF IdleClient
    <2>4. \A q \in scan'.queue : q.candidate.sha # r.candidate.sha
      BY <2>2 DEF QueueInv, Upcoming, OneEach
    <2> QED BY <2>2, <2>3, <2>4 DEF QueueInv, Upcoming, OneEach, IsNext
  <1>4. \/ UNCHANGED dispatched /\ scan'.queue \subseteq scan.queue
        \/ \E r \in scan.queue : /\ scan.pc = "dispatch" /\ Dispatch(r)
                                 /\ scan' = [scan EXCEPT !.queue = @ \ {r}]
                                 /\ UNCHANGED client
    <2>1. CASE DispatchNext
      <3>1. PICK r \in scan.queue : /\ scan' = [scan EXCEPT !.queue = @ \ {r}]
                                    /\ Dispatch(r) \/ UNCHANGED runVars
        BY <2>1 DEF DispatchNext
      <3>2. scan'.queue \subseteq scan.queue
        BY <3>1 DEF TypeInv, TypeOK, ScanTypeOK
      <3> QED BY <2>1, <3>1, <3>2 DEF DispatchNext
    <2>2. CASE ~ DispatchNext
      <3>1. UNCHANGED dispatched
        BY <2>2 DEF LateWriteArrives, StartScan, EndScan, IndexEnds, Rerun, ListingChanges,
                    Tick
      <3>2. CASE EndScan
        BY <3>1, <3>2 DEF EndScan, IdleScan
      <3>3. CASE StartScan
        BY <3>1, <3>3 DEF StartScan, TypeInv, TypeOK, ScanTypeOK
      <3> QED BY <2>2, <3>1, <3>2, <3>3
              DEF LateWriteArrives, IndexEnds, Rerun, ListingChanges, Tick
    <2> QED BY <2>1, <2>2
  <1> QED BY <1>2, <1>3, <1>4

\* Serials are given by dispatches only.
LEMMA SerialMoves ==
  ASSUME TypeInv, Next
  PROVE  \/ /\ UNCHANGED dispatched
            /\ \A s \in Shas : newest'[s].serial = newest[s].serial
         \/ \E r \in scan.queue : Dispatch(r)
  <1> USE DEF TypeInv, TypeOK, RunTypeOK
  <1>1. CASE UNCHANGED <<dispatched, newest>>
    BY <1>1
  <1>2. ASSUME NEW sha \in Shas, NEW recorded \in BOOLEAN, EndRun(sha, recorded)
        PROVE  UNCHANGED dispatched /\ \A s \in Shas : newest'[s].serial = newest[s].serial
    BY <1>2 DEF EndRun
  <1>3. ASSUME NEW sha \in Shas, Rerun(sha)
        PROVE  UNCHANGED dispatched /\ \A s \in Shas : newest'[s].serial = newest[s].serial
    BY <1>3 DEF Rerun
  <1>4. CASE \E w \in Clients : Update(w)
    <2>1. PICK w \in Clients : Update(w)
      BY <1>4
    <2>2. \/ UNCHANGED <<dispatched, newest>>
          \/ w \in Shas /\ \E recorded \in BOOLEAN : EndRun(w, recorded)
      BY <2>1, UpdateKinds
         DEF Computes, Computed, ReturnsRead, Accepted, StartsAgain, Ends, Return, Abort,
             Retry, Clients
    <2> QED BY <1>1, <1>2, <2>2
  <1>5. \/ \E w \in Clients : Update(w)
        \/ UNCHANGED <<dispatched, newest>>
        \/ \E r \in scan.queue : Dispatch(r)
        \/ \E sha \in Shas : Rerun(sha)
    BY DEF Next, LateWriteArrives, StartScan, DispatchNext, EndScan, IndexEnds,
           ListingChanges, Tick
  <1> QED BY <1>1, <1>3, <1>4, <1>5

LEMMA NextMoves ==
  ASSUME TypeInv, Next PROVE Moves /\ RunMoves /\ DispatchMoves
  <1>1. ASSUME NEW w \in Clients, Update(w) PROVE Moves /\ RunMoves /\ DispatchMoves
    <2>1. UNCHANGED dispatched /\ \A s \in Shas : RunsOf(s)' \subseteq RunsOf(s)
      BY <1>1, UpdateRunMoves
    <2> QED BY <1>1, <2>1, UpdateMoves DEF RunMoves, SameRun, DispatchMoves
  <1> QED BY <1>1, OtherMoves, OtherRunMoves DEF Next

LEMMA RunsOrderedKept ==
  ASSUME TypeInv, QueueInv, RunsOrdered, Next PROVE RunsOrdered'
  <1> SUFFICES ASSUME NEW s \in Shas, NEW q \in RunsOf(s)'
               PROVE  /\ q.serial <= newest'[s].serial
                      /\ q.serial = newest'[s].serial =>
                            \A p \in dispatched' : p[1] = s => p[2] <= q.attempt
    BY DEF RunsOrdered, InOrder
  <1>1. /\ \A p \in dispatched : p[2] \in Nat
        /\ \A sha \in Shas : newest[sha].serial \in Nat
        /\ \A r \in scan.queue : r.attempt \in Nat /\ r.candidate.sha \in Shas
        /\ \A run \in RunsOf(s) : run.serial \in Nat /\ run.attempt \in Nat
    BY DEF TypeInv, TypeOK, RunTypeOK, ScanTypeOK, Reservation, Candidates, RunsOf, Run
  <1>2. ASSUME NEW r \in scan.queue, Dispatch(r)
        PROVE  /\ dispatched' = dispatched \cup {<<r.candidate.sha, r.attempt>>}
               /\ newest'[r.candidate.sha].serial = newest[r.candidate.sha].serial + 1
               /\ \A sha \in Shas : sha # r.candidate.sha => newest'[sha] = newest[sha]
    BY <1>1, <1>2 DEF Dispatch, TypeInv, TypeOK, RunTypeOK
  <1>3. ASSUME NEW run \in RunsOf(s), SameRun(q, run)
        PROVE  /\ q.serial <= newest'[s].serial
               /\ q.serial = newest'[s].serial =>
                     \A p \in dispatched' : p[1] = s => p[2] <= q.attempt
    <2>1. InOrder(run, s) /\ q.serial = run.serial /\ q.attempt = run.attempt
      BY <1>3 DEF RunsOrdered, SameRun
    <2>2. CASE UNCHANGED dispatched /\ newest'[s].serial = newest[s].serial
      BY <2>1, <2>2 DEF InOrder
    <2>3. CASE \E r \in scan.queue : Dispatch(r)
      <3>1. PICK r \in scan.queue : Dispatch(r)
        BY <2>3
      <3>2. CASE r.candidate.sha = s
        <4>1. newest'[s].serial = newest[s].serial + 1
          BY <1>2, <3>1, <3>2
        <4>2. q.serial <= newest[s].serial /\ q.serial \in Nat
          BY <1>1, <2>1 DEF InOrder
        <4> QED BY <1>1, <4>1, <4>2
      <3>3. CASE r.candidate.sha # s
        BY <1>2, <2>1, <3>1, <3>3 DEF InOrder
      <3> QED BY <3>2, <3>3
    <2> QED BY <2>2, <2>3, SerialMoves
  <1>4. ASSUME NEW r \in scan.queue, r.candidate.sha = s, NewRun(r, q)
        PROVE  /\ q.serial <= newest'[s].serial
               /\ q.serial = newest'[s].serial =>
                     \A p \in dispatched' : p[1] = s => p[2] <= q.attempt
    <2>1. q.attempt = r.attempt /\ q.serial = newest[s].serial + 1 /\ Dispatch(r)
      BY <1>4 DEF NewRun
    <2>2. \A p \in dispatched : p[1] = s => p[2] < r.attempt
      BY <1>4 DEF QueueInv, Upcoming, IsNext
    <2>3. /\ newest'[s].serial = newest[s].serial + 1
          /\ dispatched' = dispatched \cup {<<s, r.attempt>>}
      BY <1>2, <1>4, <2>1
    <2>4. \A p \in dispatched' : p[1] = s => p[2] <= r.attempt
      BY <1>1, <2>2, <2>3
    <2> QED BY <1>1, <2>1, <2>3, <2>4
  <1> QED BY <1>3, <1>4, NextMoves DEF RunMoves

-----------------------------------------------------------------------------
(***************************************************************************)
(* What a finalizer writes says that its run succeeded.                     *)
(***************************************************************************)
LEMMA ComputedTells ==
  ASSUME TypeInv, FrameInv, NEW sha \in Shas, client[sha].pc = "read"
  PROVE  Tells(mutate(sha, read).state.entries[sha], group[sha].active)
  <1> DEFINE e == repo.state.entries[sha]
  <1> PICK run, f : run = group[sha].active /\ f = mutate(sha, read).state.entries[sha]
    OBVIOUS
  <1>1. /\ run \in Run
        /\ \/ /\ f = NoEntry <=> e = NoEntry
              /\ e # NoEntry => f.status = e.status /\ f.attempts = e.attempts
              /\ StaleCompletion(e, run.attempt, run.conclusion)
           \/ /\ f # NoEntry /\ f.attempts = run.attempt
              /\ f.status = IF run.conclusion = "success" THEN "success" ELSE "failed"
    BY FinalizerWrites
  <1>2. run.attempt \in Nat /\ (e # NoEntry => e.attempts \in Nat)
    BY <1>1 DEF Run, TypeInv, TypeOK, RepoTypeOK, States, Entries
  <1>3. Tells(f, run)
    BY <1>1, <1>2 DEF Tells, StaleCompletion
  <1> QED BY <1>3

LEMMA UpdateResultsStep ==
  ASSUME TypeInv, FrameInv, ResultsWritten, NEW w \in Clients, Update(w)
  PROVE  ResultsWritten'
  <1> SUFFICES ASSUME NEW sha \in Shas
               PROVE  /\ client'[sha].pc = "write" =>
                           Tells(client'[sha].mutation.state.entries[sha],
                                 group'[sha].active)
                      /\ \A m \in client'[sha].ambiguous :
                            Tells(m.state.entries[sha], group'[sha].active)
    BY DEF ResultsWritten, Tells
  <1>1. CASE sha # w
    <2>1. client'[sha] = client[sha]
      BY <1>1, UpdateKinds, ClientAfter DEF Clients
    <2>2. group'[sha] = group[sha]
      <3>1. \/ UNCHANGED group
            \/ w \in Shas /\ \E recorded \in BOOLEAN : EndRun(w, recorded)
        BY UpdateKinds DEF Computes, Computed, ReturnsRead, Accepted, StartsAgain, Ends,
                           Return, Abort, Retry, Clients
      <3> QED BY <1>1, <3>1 DEF EndRun, TypeInv, TypeOK, RunTypeOK
    <2> QED BY <2>1, <2>2 DEF ResultsWritten
  <1>2. CASE sha = w
    <2>1. CASE Computes(w)
      <3>1. /\ client'[w].mutation = mutate(w, read) /\ client[w].pc = "read"
            /\ client'[w].ambiguous = client[w].ambiguous /\ UNCHANGED group
        BY <2>1, ClientAfter DEF Computes, Computed
      <3> QED BY <1>2, <3>1, ComputedTells DEF ResultsWritten
    <2>2. CASE StartsAgain(w)
      <3>1. UNCHANGED group /\ client'[w].pc = "read"
        BY <2>2, ClientAfter DEF StartsAgain, Retry
      <3>2. \A m \in client'[w].ambiguous :
               m \in client[w].ambiguous \/ (client[w].pc = "write" /\ m = client[w].mutation)
        BY UpdateMoves DEF Moves, Kept
      <3> QED BY <1>2, <3>1, <3>2 DEF ResultsWritten
    <2>3. CASE ReturnsRead(w) \/ Accepted(w) \/ Ends(w)
      BY <1>2, <2>3, ClientAfter DEF IdleClient
    <2> QED BY <2>1, <2>2, <2>3, UpdateKinds
  <1> QED BY <1>1, <1>2

LEMMA OtherResultsStep ==
  ASSUME TypeInv, FrameInv, ResultsWritten,
         \/ LateWriteArrives \/ StartScan \/ DispatchNext \/ EndScan
         \/ \E sha \in Shas : IndexEnds(sha) \/ Rerun(sha)
         \/ ListingChanges \/ Tick
  PROVE  ResultsWritten'
  <1> SUFFICES ASSUME NEW sha \in Shas
               PROVE  /\ client'[sha].pc = "write" =>
                           Tells(client'[sha].mutation.state.entries[sha],
                                 group'[sha].active)
                      /\ \A m \in client'[sha].ambiguous :
                            Tells(m.state.entries[sha], group'[sha].active)
    BY DEF ResultsWritten, Tells
  <1>1. CASE client[sha].pc = "idle" /\ client'[sha] = client[sha]
    BY <1>1 DEF FrameInv, IdleClient, Clients
  <1>2. CASE client'[sha].pc = "read" /\ client'[sha].ambiguous = {}
    BY <1>2
  <1>3. CASE client'[sha] = client[sha] /\ group'[sha].active = group[sha].active
    BY <1>3 DEF ResultsWritten
  \* A finalizer's run is active, so that whatever joins its group waits.
  <1>4. ASSUME NEW run, NEW s \in Shas, client[sha].pc # "idle",
               group' = [group EXCEPT ![s] = Enqueue(group[s], run)]
        PROVE  group'[sha].active = group[sha].active
    BY <1>4 DEF Enqueue, TypeInv, TypeOK, RunTypeOK, FinalizersRun
  <1>5. CASE \E s \in Shas : IndexEnds(s)
    <2>1. PICK s \in Shas : IndexEnds(s)
      BY <1>5
    <2>2. CASE s = sha
      <3>1. client'[sha] = [IdleClient EXCEPT !.pc = "read"]
        BY <2>1, <2>2 DEF IndexEnds, TypeInv, TypeOK, UpdateTypeOK, Clients
      <3> QED BY <1>2, <3>1 DEF IdleClient
    <2>3. CASE s # sha
      BY <1>3, <2>1, <2>3
         DEF IndexEnds, TypeInv, TypeOK, UpdateTypeOK, RunTypeOK, Clients
    <2> QED BY <2>2, <2>3
  <1>6. CASE StartScan
    BY <1>3, <1>6, HostedIndexingAssumption
       DEF StartScan, TypeInv, TypeOK, UpdateTypeOK, Clients
  <1>7. CASE /\ UNCHANGED client
             /\ \/ UNCHANGED group
                \/ \E run : \E s \in Shas :
                      group' = [group EXCEPT ![s] = Enqueue(group[s], run)]
    BY <1>1, <1>3, <1>4, <1>7
  <1>8. CASE DispatchNext
    <2>1. CASE UNCHANGED group
      BY <1>7, <1>8, <2>1 DEF DispatchNext
    <2>2. CASE \E r \in scan.queue : Dispatch(r)
      <3>1. PICK r \in scan.queue : Dispatch(r)
        BY <2>2
      <3>2. r.candidate.sha \in Shas
        BY DEF TypeInv, TypeOK, ScanTypeOK, Reservation, Candidates
      <3>3. \E run : group' = [group EXCEPT ![r.candidate.sha] =
                                               Enqueue(group[r.candidate.sha], run)]
        BY <3>1 DEF Dispatch
      <3> QED BY <1>7, <1>8, <3>2, <3>3 DEF DispatchNext
    <2> QED BY <1>8, <2>1, <2>2 DEF DispatchNext
  <1>9. CASE \E s \in Shas : Rerun(s)
    BY <1>7, <1>9 DEF Rerun
  <1>10. CASE LateWriteArrives \/ EndScan \/ ListingChanges \/ Tick
    BY <1>7, <1>10 DEF LateWriteArrives, EndScan, ListingChanges, Tick
  <1> QED BY <1>5, <1>6, <1>8, <1>9, <1>10

-----------------------------------------------------------------------------
(***************************************************************************)
(* A success of the newest run is in the file.                              *)
(***************************************************************************)
LEMMA ToldOutdoes ==
  ASSUME TypeInv, NEW sha \in Shas, NEW run \in Run, InOrder(run, sha),
         run.serial = newest[sha].serial, run.conclusion = "success",
         NEW e \in Entries, Tells(e, run)
  PROVE  Outdoes(e, sha, dispatched)
  <1>1. /\ run.attempt \in Nat /\ e.attempts \in Nat /\ e # NoEntry
        /\ \A p \in dispatched : p[2] \in Nat
    BY IndexStateAssumption DEF Run, Entries, TypeInv, TypeOK, RunTypeOK
  <1>2. ASSUME NEW p \in dispatched, p[1] = sha
        PROVE  p[2] < e.attempts \/ (p[2] = e.attempts /\ e.status = "success")
    <2>1. p[2] <= run.attempt /\ run.attempt <= e.attempts
      BY <1>1, <1>2 DEF InOrder, Tells
    <2>2. run.attempt = e.attempts => e.status = "success"
      BY DEF Tells
    <2> QED BY <1>1, <2>1, <2>2
  <1> QED BY <1>1, <1>2 DEF Outdoes

LEMMA OutdoesOn ==
  ASSUME TypeInv, NEW sha \in Shas, NEW e \in Entries, NEW f \in Entries \cup {NoEntry},
         Outdoes(e, sha, dispatched), Supersedes(f, e)
  PROVE  Outdoes(f, sha, dispatched)
  <1>1. /\ f # NoEntry /\ f.attempts \in Nat /\ e.attempts \in Nat /\ e # NoEntry
        /\ \A p \in dispatched : p[2] \in Nat
    BY IndexStateAssumption DEF Supersedes, Entries, TypeInv, TypeOK, RunTypeOK
  <1>2. f.attempts > e.attempts
          \/ (f.attempts = e.attempts /\ (e.status = "success" => f.status = "success"))
    BY <1>1 DEF Supersedes
  <1>3. ASSUME NEW p \in dispatched, p[1] = sha
        PROVE  p[2] < f.attempts \/ (p[2] = f.attempts /\ f.status = "success")
    <2>1. p[2] < e.attempts \/ (p[2] = e.attempts /\ e.status = "success")
      BY <1>3 DEF Outdoes
    <2> QED BY <1>1, <1>2, <1>3, <2>1
  <1> QED BY <1>1, <1>3 DEF Outdoes

\* Where the conclusion of the newest run is new, its finalizer's update returned.
LEMMA ToldBy ==
  ASSUME TypeInv, Next, NEW sha \in Shas, newest'[sha].conclusion = "success",
         newest[sha].conclusion # "success"
  PROVE  /\ client[sha].pc # "idle" /\ UNCHANGED dispatched
         /\ ReturnsRead(sha) \/ Accepted(sha)
         /\ group[sha].active.serial = newest[sha].serial
         /\ group[sha].active.conclusion = "success"
  <1> USE DEF TypeInv, TypeOK, RunTypeOK
  <1>1. newest' # newest
    OBVIOUS
  <1>2. ASSUME NEW s \in Shas, Rerun(s) PROVE FALSE
    <2>1. newest' = [newest EXCEPT ![s].conclusion = "none"]
      BY <1>1, <1>2 DEF Rerun
    <2>2. newest'[s].conclusion = "none" /\ \A q \in Shas : q # s => newest'[q] = newest[q]
      BY <2>1
    <2> QED BY <2>2
  <1>3. ASSUME NEW r \in scan.queue, Dispatch(r) PROVE FALSE
    BY <1>3 DEF Dispatch
  <1>4. PICK w \in Clients : Update(w)
    BY <1>1, <1>2, <1>3
       DEF Next, LateWriteArrives, StartScan, DispatchNext, EndScan, IndexEnds,
           ListingChanges, Tick
  <1>5. w \in Shas /\ (ReturnsRead(w) \/ Accepted(w)) /\ EndRun(w, TRUE)
    BY <1>1, <1>4, UpdateKinds
       DEF Computes, Computed, ReturnsRead, Accepted, StartsAgain, Ends, Return, Abort,
           Retry, Clients, EndRun
  <1>6. /\ newest[w].serial = group[w].active.serial
        /\ newest' = [newest EXCEPT ![w].conclusion = group[w].active.conclusion]
    BY <1>1, <1>5 DEF EndRun
  <1>7. w = sha
    BY <1>5, <1>6
  <1> QED BY <1>4, <1>5, <1>6, <1>7, UpdateKinds, UpdateRunMoves

\* What the file says of a commit is superseded, if it changes.
LEMMA FileSupersedes ==
  ASSUME TypeInv, WritesInv, Moves, NEW sha \in Shas
  PROVE  \/ repo'.state.entries[sha] = repo.state.entries[sha]
         \/ Supersedes(repo'.state.entries[sha], repo.state.entries[sha])
  <1>1. CASE \E m \in Pending : Landed(m)
    BY <1>1 DEF Landed, Commit, WritesInv, SucceedsFile, Succeeds
  <1> QED BY <1>1 DEF Moves

LEMMA FileOrRuns ==
  ASSUME TypeInv, Next PROVE UNCHANGED repo \/ UNCHANGED dispatched
  <1>1. CASE \E w \in Clients : Update(w)
    BY <1>1, UpdateRunMoves
  <1> QED BY <1>1 DEF Next, LateWriteArrives, StartScan, DispatchNext, EndScan, IndexEnds,
                      Rerun, ListingChanges, Tick

LEMMA ToldKept ==
  ASSUME TypeInv, FrameInv, WritesInv, RunsOrdered, ResultsWritten, SuccessTold, Next,
         TypeInv'
  PROVE  SuccessTold'
  <1> SUFFICES ASSUME NEW sha \in Shas, newest'[sha].conclusion = "success"
               PROVE  Outdoes(repo'.state.entries[sha], sha, dispatched')
    BY DEF SuccessTold
  <1> PICK e, f : e = repo.state.entries[sha] /\ f = repo'.state.entries[sha]
    OBVIOUS
  <1>1. e \in Entries \cup {NoEntry} /\ f \in Entries \cup {NoEntry}
    BY DEF TypeInv, TypeOK, RepoTypeOK, States
  <1>2. CASE newest[sha].conclusion = "success"
    <2>1. Outdoes(e, sha, dispatched) /\ e \in Entries
      BY <1>1, <1>2 DEF SuccessTold, Outdoes
    <2>2. CASE UNCHANGED dispatched
      <3>1. f = e \/ Supersedes(f, e)
        BY FileSupersedes, NextMoves
      <3> QED BY <1>1, <2>1, <2>2, <3>1, OutdoesOn
    <2>3. CASE dispatched' # dispatched
      <3>1. f = e
        BY <2>3, FileOrRuns
      <3>2. PICK r \in scan.queue : dispatched' = dispatched \cup {Pair(r)} /\ Dispatch(r)
        BY <2>3, NextMoves DEF DispatchMoves
      <3>3. r.candidate.sha # sha
        BY <3>2 DEF Dispatch, TypeInv, TypeOK, RunTypeOK
      <3> QED BY <2>1, <3>1, <3>2, <3>3 DEF Outdoes, Pair
    <2> QED BY <2>2, <2>3
  <1>3. CASE newest[sha].conclusion # "success"
    <2> PICK run : run = group[sha].active
      OBVIOUS
    <2>1. /\ client[sha].pc # "idle" /\ UNCHANGED dispatched
          /\ ReturnsRead(sha) \/ Accepted(sha)
          /\ run.serial = newest[sha].serial /\ run.conclusion = "success"
      BY <1>3, ToldBy
    <2>2. run \in Run /\ run \in RunsOf(sha)
      BY <2>1 DEF TypeInv, TypeOK, RunTypeOK, FinalizersRun, RunsOf
    <2>3. InOrder(run, sha)
      BY <2>2 DEF RunsOrdered
    <2>4. CASE ReturnsRead(sha)
      <3>1. PICK m \in client[sha].ambiguous \cup {mutate(sha, read)} : m.state = read
        BY <2>4 DEF ReturnsRead
      <3>2. Tells(read.entries[sha], run)
        BY <2>4, <3>1, ComputedTells DEF ReturnsRead, ResultsWritten
      <3>3. Tells(e, run)
        BY <3>2, ReadEntry DEF Tells, FrameInv
      <3>4. f = e /\ e \in Entries
        BY <1>1, <2>4, <3>3 DEF ReturnsRead, Tells
      <3> QED BY <2>1, <2>2, <2>3, <3>3, <3>4, ToldOutdoes
    <2>5. CASE Accepted(sha)
      <3>1. Tells(f, run)
        BY <2>5 DEF Accepted, Commit, ResultsWritten
      <3>2. f \in Entries
        BY <1>1, <3>1 DEF Tells
      <3> QED BY <2>1, <2>2, <2>3, <3>1, <3>2, ToldOutdoes
    <2> QED BY <2>1, <2>4, <2>5
  <1> QED BY <1>2, <1>3

-----------------------------------------------------------------------------
LEMMA ClockAndResets ==
  ASSUME TypeInv, FrameInv, now <= MaxTime, [Next]_vars
  PROVE  now' <= MaxTime /\ (budget'.resets = MaxResets => budget.resets = MaxResets)
  <1>1. \/ now' = now
        \/ now < MaxTime /\ now' = now + 1
    BY UpdateKinds DEF Next, LateWriteArrives, StartScan, DispatchNext, EndScan, IndexEnds,
                       Rerun, ListingChanges, Tick, vars
  <1>2. now \in Nat /\ budget.resets \in Nat /\ budget.resets <= MaxResets
    BY DEF TypeInv, TypeOK, EnvTypeOK, FrameInv
  <1>3. budget' = budget \/ \E kind \in {"faults", "resets", "reruns", "listings"} : Spend(kind)
    BY UpdateKinds DEF Next, LateWriteArrives, StartScan, DispatchNext, Dispatch, EndScan,
                       IndexEnds, Rerun, ListingChanges, Tick, vars, Computes, Computed,
                       ReturnsRead, Accepted, StartsAgain, Ends, Abandons, Fault
  <1>4. budget'.resets = budget.resets \/ budget'.resets = budget.resets - 1
    BY <1>3 DEF Spend, TypeInv, TypeOK, EnvTypeOK
  <1>5. budget'.resets = MaxResets => budget.resets = MaxResets
    BY <1>2, <1>4, HostedIndexingAssumption
  <1>6. now' <= MaxTime
    BY <1>1, <1>2, HostedIndexingAssumption
  <1> QED BY <1>5, <1>6

\* The inductive invariant of the order of attempts.
OrderedInv == TypeInv /\ WorkInv /\ FrameInv /\ OrderInv

LEMMA OrderStutter == ASSUME OrderInv, UNCHANGED vars PROVE OrderInv'
  <1> USE DEF vars
  <1>1. WritesInv' /\ CountedOn'
    BY DEF OrderInv, WritesInv, CountedOn, Pending
  <1>2. QueueInv'
    BY DEF OrderInv, QueueInv, Upcoming, IsNext
  <1>3. RunsOrdered' /\ ResultsWritten' /\ SuccessTold'
    BY DEF OrderInv, RunsOrdered, InOrder, RunsOf, ResultsWritten, SuccessTold
  <1> QED BY <1>1, <1>2, <1>3 DEF OrderInv

LEMMA OrderedStep ==
  ASSUME Steady, OrderedInv, [Next]_vars PROVE OrderedInv'
  <1> USE DEF OrderedInv
  <1>1. CASE UNCHANGED vars
    BY <1>1, TypeStutter, WorkStutter, FrameStutter, OrderStutter
  <1>2. CASE Next
    <2>1. TypeInv' /\ WorkInv' /\ FrameInv'
      BY <1>2, UpdateTypeStep, UpdateWorkStep, UpdateFrameStep, OtherTypeStep,
         OtherWorkStep, OtherFrameStep DEF Next
    <2>2. now' <= MaxTime /\ (budget'.resets = MaxResets => budget.resets = MaxResets)
      BY ClockAndResets DEF OrderInv
    <2>3. WritesInv' /\ CountedOn'
      BY <1>2, <2>1, <2>2, NextMoves, DispatchedGrows, WritesKept, CountedKept
         DEF OrderInv, WorkInv, FrameInv
    <2>4. QueueInv'
      BY <1>2, UpdateQueueStep, OtherQueueStep DEF Next, OrderInv, WorkInv
    <2>5. RunsOrdered'
      BY <1>2, RunsOrderedKept DEF OrderInv
    <2>6. ResultsWritten'
      BY <1>2, UpdateResultsStep, OtherResultsStep DEF Next, OrderInv
    <2>7. SuccessTold'
      BY <1>2, <2>1, ToldKept DEF OrderInv
    <2> QED BY <2>1, <2>2, <2>3, <2>4, <2>5, <2>6, <2>7 DEF OrderInv
  <1> QED BY <1>1, <1>2

\* What a reader sees of the file's entries.
LEMMA LedgerEntry ==
  ASSUME TypeInv, FrameInv, NEW sha \in Shas, NEW f, f = Entry(sha)
  PROVE  LET e == repo.state.entries[sha] IN
         /\ f = NoEntry <=> e = NoEntry
         /\ e # NoEntry => /\ f.status = e.status
                           /\ f.artifactExpiresAt = e.artifactExpiresAt
  <1>1. CASE repo.version = 0
    BY <1>1 DEF Entry, Ledger, FrameInv, emptyState
  <1>2. CASE repo.version # 0
    <2>1. f = parseState(repo.state).entries[sha] /\ repo.state \in States
      BY <1>2 DEF Entry, Ledger, TypeInv, TypeOK, RepoTypeOK
    <2> QED BY <2>1, ParsedEntryIs
  <1> QED BY <1>1, <1>2

\* While the listings keep every commit and no artifact expires, no attempt is
\* dispatched twice, by one scan or by two: what reserveCandidates selects counts
\* on from every attempt the file ever recorded.
THEOREM AttemptsDispatchOnce == ASSUME Steady PROVE Spec => []NoSecondDispatch
  <1>1. Init => OrderedInv
    BY TypeInit, WorkInit, FrameInit, OrderInit DEF OrderedInv
  <1>2. OrderedInv /\ [Next]_vars => OrderedInv'
    BY OrderedStep
  <1>3. OrderedInv => NoSecondDispatch
    <2> SUFFICES ASSUME OrderedInv, NEW r \in scan.queue, Pair(r) \in dispatched
                 PROVE  FALSE
      BY DEF NoSecondDispatch
    <2>1. r.attempt < r.attempt /\ r.attempt \in Nat
      BY DEF OrderedInv, OrderInv, QueueInv, Upcoming, IsNext, Pair, TypeInv, TypeOK,
             ScanTypeOK, Reservation
    <2> QED BY <2>1
  <1> QED BY <1>1, <1>2, <1>3, PTL DEF Spec

\* Under the same conditions the success of a commit's newest run is not
\* overwritten, or kept out, by an older run that fails and reports later:
\* completeCandidate drops it.
THEOREM NewestSuccessIsTold == ASSUME Steady PROVE Spec => []NewerSuccessWins
  <1>1. Init => OrderedInv
    BY TypeInit, WorkInit, FrameInit, OrderInit DEF OrderedInv
  <1>2. OrderedInv /\ [Next]_vars => OrderedInv'
    BY OrderedStep
  <1>3. OrderedInv => NewerSuccessWins
    <2> SUFFICES ASSUME OrderedInv, NEW sha \in Shas,
                        newest[sha].conclusion = "success", Entry(sha).status = "failed",
                        Entry(sha) # NoEntry
                 PROVE  FALSE
      BY DEF NewerSuccessWins
    <2> PICK e : e = repo.state.entries[sha]
      OBVIOUS
    <2>1. e # NoEntry /\ e.status = "failed"
      BY LedgerEntry DEF OrderedInv
    <2>2. <<sha, e.attempts>> \in dispatched
      BY <2>1 DEF OrderedInv, OrderInv, WritesInv, Grounded
    <2>3. e.attempts < e.attempts \/ e.status = "success"
      BY <2>1, <2>2 DEF OrderedInv, OrderInv, SuccessTold, Outdoes
    <2>4. e.attempts \in Nat
      BY <2>1 DEF OrderedInv, TypeInv, TypeOK, RepoTypeOK, States, Entries
    <2> QED BY <2>1, <2>3, <2>4
  <1> QED BY <1>1, <1>2, <1>3, PTL DEF Spec

\* Under the same conditions, and without a reset, a success stays in the file
\* whatever reruns fail.
THEOREM SuccessIsKept == ASSUME Steady PROVE Spec => SuccessKept
  <1> DEFINE Keeps ==
        \A sha \in Shas :
            (/\ Retained(Entry(sha), now)
             /\ budget.resets = MaxResets
             /\ \A l \in Listings : sha \in Listed(l))
               => Entry(sha)'.status = "success"
  <1>1. Init => OrderedInv
    BY TypeInit, WorkInit, FrameInit, OrderInit DEF OrderedInv
  <1>2. OrderedInv /\ [Next]_vars => OrderedInv'
    BY OrderedStep
  <1>3. OrderedInv /\ OrderedInv' /\ [Next]_vars => [Keeps]_vars
    <2> SUFFICES ASSUME OrderedInv, OrderedInv', Next, NEW sha \in Shas,
                        Retained(Entry(sha), now), budget.resets = MaxResets
                 PROVE  Entry(sha)'.status = "success"
      OBVIOUS
    <2> PICK e, f : e = repo.state.entries[sha] /\ f = repo'.state.entries[sha]
      OBVIOUS
    <2>1. e # NoEntry /\ e.status = "success"
      BY LedgerEntry DEF OrderedInv, Retained
    <2>2. CASE UNCHANGED repo
      BY <2>1, <2>2 DEF Entry, Ledger, Retained
    <2>3. CASE \E m \in Pending : Landed(m)
      <3>1. f # NoEntry /\ f.status = "success"
        BY <2>1, <2>3 DEF OrderedInv, OrderInv, WritesInv, SucceedsFile, Succeeds,
                          Supersedes, Landed, Commit
      <3>2. repo'.version # 0 /\ repo'.state \in States
        BY <2>3 DEF OrderedInv, Landed, Commit, TypeInv, TypeOK, RepoTypeOK
      <3>3. parseState(repo'.state).entries[sha].status = "success"
        BY <3>1, <3>2, ParsedEntryIs
      <3> QED BY <3>2, <3>3 DEF Entry, Ledger
    <2> QED BY <2>2, <2>3, NextMoves DEF Moves, OrderedInv
  <1> QED BY <1>1, <1>2, <1>3, PTL DEF Spec, SuccessKept
=============================================================================
