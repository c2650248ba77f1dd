----------------------------- MODULE SyncPhase -----------------------------
(***************************************************************************)
(* The pure functions that turn the outcome of a poll into the next        *)
(* connector_sync_state row: packages/domain/src/sync-phase.ts,            *)
(* sync-cursor-commit.ts, sync-history.ts and sync-outcome.ts.             *)
(*                                                                         *)
(* A cursor is opaque: a value of Cursor or None (NULL, undefined, blank). *)
(* A hint is None or [seeded, pending], a row's phase is NoPhase when      *)
(* there is no row.  idle is idle_until > now.  The media flag is left     *)
(* out: nothing here reads it.                                             *)
(***************************************************************************)

CONSTANTS
    None,       \* SQL NULL, undefined, null
    Cursor      \* the opaque cursor strings

ASSUME NoneIsNoCursor == None \notin Cursor

NoPhase == "none"
Phases == {"unseeded", "history", "live", "steady"}
Kinds == {"live", "history", "scroll"}
Policies == {"backfill", "incremental"}

Hint == [seeded : BOOLEAN, pending : BOOLEAN]
SyncRow == [phase : Phases \cup {NoPhase}, live : Cursor \cup {None}, history : Cursor \cup {None}]
NoRow == [phase |-> NoPhase, live |-> None, history |-> None]

CaughtUp == {"live", "steady"}

-----------------------------------------------------------------------------
(* sync-cursor-commit.ts *)

\* Which cursors a page of this kind may write; a scroll writes none.
WritesLive(kind) == kind = "live"
WritesHistory(kind, seedHistory) == kind = "history" \/ (kind = "live" /\ seedHistory)
WritesLease(kind) == kind # "scroll"

sameLaneContinues(kind, hasMore, pending) ==
    hasMore /\ (kind = "history" \/ (kind = "live" /\ ~pending))

shouldSeedHistoryCursor(policy, phase, historyCursor, pending) ==
    /\ policy = "backfill"
    /\ pending
    /\ historyCursor = None
    /\ phase \in {NoPhase, "unseeded"}

\* None: the lease's cursor is used.
pollCursorValue(kind, row) == IF kind = "history" THEN row.history ELSE row.live

-----------------------------------------------------------------------------
(* sync-history.ts *)

\* Mutation: the policies are mixed up.
messageDuty_swapped(phase, policy) ==
    IF policy = "incremental" /\ phase = "history" THEN "history" ELSE "live"

messageDuty(phase, policy) ==
    IF policy = "backfill" /\ phase = "history" THEN "history" ELSE "live"

releaseHistoryPhase(row, policy) ==
    [phase |-> IF policy = "incremental" /\ row.phase = "history" THEN "live" ELSE row.phase,
     live |-> row.live, history |-> row.history]

-----------------------------------------------------------------------------
(* sync-phase.ts *)

\* Mutation: the policy's word is stored as the phase.
deriveSyncPhaseFromHint_policyWord(hint, idle, fallback, policy, kind) ==
    IF hint.seeded /\ hint.pending THEN policy ELSE "live"

\* Mutation: history_pending is not looked at.
deriveSyncPhaseFromHint_noPending(hint, idle, fallback, policy, kind) ==
    IF ~hint.seeded THEN "unseeded" ELSE IF idle THEN "steady" ELSE "live"

deriveSyncPhaseFromHint(hint, idle, fallback, policy, kind) ==
    LET Tail == IF idle THEN "steady" ELSE "live"
    IN  IF kind = "scroll" /\ fallback \notin {NoPhase, "unseeded"} THEN fallback
        ELSE IF policy = "incremental"
             THEN IF ~hint.seeded /\ fallback \notin CaughtUp THEN "unseeded" ELSE Tail
        ELSE IF kind = "live" /\ fallback = "history" THEN "history"
        ELSE IF fallback \in CaughtUp
             THEN IF hint.seeded /\ idle THEN "steady" ELSE fallback
        ELSE IF ~hint.seeded THEN "unseeded"
        ELSE IF hint.pending THEN "history"
        ELSE Tail

deriveSyncPhase(live, hint, idle, fallback, policy, kind) ==
    IF hint # None THEN deriveSyncPhaseFromHint(hint, idle, fallback, policy, kind)
    ELSE IF live = None \/ fallback = NoPhase THEN "unseeded"
    ELSE IF fallback \in CaughtUp /\ idle THEN "steady"
    ELSE fallback

-----------------------------------------------------------------------------
(* What a poll leaves behind for rememberResult: the last page's cursor and  *)
(* hint, whether a page said has_more, and whether the poll threw.           *)

Outcome == [next : Cursor \cup {None}, hint : Hint \cup {None}, more : BOOLEAN, error : BOOLEAN]
NoOutcome == [next |-> None, hint |-> None, more |-> FALSE, error |-> FALSE]
Failed == [next |-> None, hint |-> None, more |-> FALSE, error |-> TRUE]

Pending(out) == out.hint # None /\ out.hint.pending

\* The cursors syncPageOutcomeFromPollRuns hands over, kept where undefined.
Advanced(current, kind, out, seeds) ==
    [live |-> IF WritesLive(kind) /\ out.next # None THEN out.next ELSE current.live,
     history |-> IF WritesHistory(kind, seeds) /\ out.next # None
                 THEN out.next ELSE current.history]

\* idles: the stream has an idle_ms, so a poll that does not continue idles.
advanceSyncState(current, kind, out, seeds, idles, policy) ==
    LET cursors == Advanced(current, kind, out, seeds)
        idle == idles /\ ~out.error /\ ~sameLaneContinues(kind, out.more, Pending(out))
        phase == IF out.error
                 THEN IF current.phase = NoPhase THEN "live" ELSE current.phase
                 ELSE deriveSyncPhase(cursors.live, out.hint, idle, current.phase, policy, kind)
    IN  [phase |-> phase, live |-> cursors.live, history |-> cursors.history]

=============================================================================
