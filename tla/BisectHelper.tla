---------------------------- MODULE BisectHelper ----------------------------
(***************************************************************************)
(* The session state that builtin/bisect--helper.c keeps in $GIT_DIR:     *)
(* BISECT_START, BISECT_TERMS, the refs under refs/bisect/, the            *)
(* BISECT_HEAD ref, BISECT_EXPECTED_REV and BISECT_ANCESTORS_OK, plus the  *)
(* checked-out HEAD.  One action per cmdmode that changes them.  The      *)
(* log, BISECT_NAMES and BISECT_FIRST_PARENT are text nobody here reads    *)
(* back and are left out.  bisect_clean_state and bisect_next_all live in  *)
(* bisect.c: the first empties the session, the second is a                *)
(* nondeterministic choice among its documented results.                   *)
(***************************************************************************)
EXTENDS Naturals, Sequences, TLC

CONSTANTS
    Commits,         \* object ids the user may name
    Terms,           \* words the user may pass as terms or states
    InvalidRefTerms, \* terms for which refs/bisect/<term> is no valid refname
    MaxRevs,         \* most revisions on one command line
    WriteCanFail,    \* whether update_ref or the log append may fail
    NoCommit,        \* an absent file or ref
    NoTerms,         \* BISECT_TERMS is missing
    Default          \* no --term-* option given

VARIABLES files, head

vars == <<files, head>>

RefName == [term : Terms, rev : Commits \cup {NoCommit}]

\* bisect_clean_state: everything the session wrote is removed.
CleanFiles == [start |-> NoCommit, terms |-> NoTerms, refs |-> <<>>,
               bisectHead |-> NoCommit, expected |-> NoCommit,
               ancestorsOk |-> FALSE]

BuiltinCommands == {"help", "start", "skip", "next", "reset", "visualize",
                    "view", "replay", "log", "run", "terms"}

CheckTermFormat(term, orig) ==
    /\ term \notin InvalidRefTerms
    /\ term \notin BuiltinCommands
    /\ ~(orig # "bad" /\ term \in {"bad", "new"})
    /\ ~(orig # "good" /\ term \in {"good", "old"})

WriteTermsOk(bad, good) ==
    bad # good /\ CheckTermFormat(bad, "bad") /\ CheckTermFormat(good, "good")

\* The terms in memory: BISECT_TERMS, or bad/good as set by the caller.
CurrentTerms(f) == IF f.terms = NoTerms THEN <<"bad", "good">> ELSE f.terms

\* bisect_write's ref: refs/bisect/<bad>, or refs/bisect/<good|skip>-<rev>.
BisectWriteName(state, rev, terms) ==
    IF state = terms[1] THEN [term |-> state, rev |-> NoCommit]
                        ELSE [term |-> state, rev |-> rev]

BisectWriteRef(f, state, rev, terms) ==
    [f EXCEPT !.refs = (BisectWriteName(state, rev, terms) :> rev) @@ @]

\* A verified rev other than BISECT_EXPECTED_REV unlinks both files.
VerifyExpected(f, rev) ==
    IF f.expected # NoCommit /\ rev # f.expected
    THEN [f EXCEPT !.expected = NoCommit, !.ancestorsOk = FALSE] ELSE f

\* bisect_start's states: the first rev is bad, the others good.
StartState(i, terms) == IF i = 1 THEN terms[1] ELSE terms[2]

RECURSIVE StartWrites(_, _, _, _, _)
StartWrites(f, revs, i, last, terms) ==
    IF i > last THEN f
    ELSE StartWrites(BisectWriteRef(f, StartState(i, terms), revs[i], terms),
                     revs, i + 1, last, terms)

RECURSIVE StateWrites(_, _, _, _, _, _)
StateWrites(f, revs, i, last, state, terms) ==
    IF i > last THEN f
    ELSE StateWrites(VerifyExpected(BisectWriteRef(f, state, revs[i], terms),
                                    revs[i]),
                     revs, i + 1, last, state, terms)

\* Where the writes of a command may stop: the index of the failing
\* bisect_write (0: none) and whether its ref was updated before the log
\* append failed.
Faults(n) == IF WriteCanFail THEN ({<<0, "none">>} \cup ((1..n) \X {"ref", "log"}))
                             ELSE {<<0, "none">>}

LastOk(n, fault) == IF fault[1] = 0 THEN n ELSE fault[1] - 1

\* The failing write's ref when only the log append failed.
FaultRef(f, revs, fault, state, terms) ==
    IF fault[2] = "log" THEN BisectWriteRef(f, state, revs[fault[1]], terms) ELSE f

HasBad(f, terms) == [term |-> terms[1], rev |-> NoCommit] \in DOMAIN f.refs
HasGood(f, terms) == \E n \in DOMAIN f.refs : n.term = terms[2] /\ n.rev # NoCommit
HasSkip(f) == \E n \in DOMAIN f.refs : n.term = "skip"

(***************************************************************************)
(* bisect_next_all: "checkout" moves HEAD, or BISECT_HEAD when there is    *)
(* one, to the next commit and records it as expected; "firstBad" and a    *)
(* merge-base success report success; "skippedOnly" (possible once a skip  *)
(* ref exists) and "error" do not.  The result is [f, h, ok].             *)
(***************************************************************************)
NextAll(f, h, out, c) ==
    CASE out = "checkout" ->
           [f |-> [f EXCEPT !.expected = c, !.ancestorsOk = TRUE,
                            !.bisectHead = IF @ = NoCommit THEN @ ELSE c],
            h |-> IF f.bisectHead = NoCommit THEN c ELSE h, ok |-> TRUE]
      [] out = "firstBad" -> [f |-> f, h |-> h, ok |-> TRUE]
      [] OTHER -> [f |-> f, h |-> h, ok |-> FALSE]

NextOutcomes(f) == {"checkout", "firstBad", "error"}
                       \cup (IF HasSkip(f) THEN {"skippedOnly"} ELSE {})

(***************************************************************************)
(* bisect_auto_next: bisect_next_check(terms, NULL) passes only with a    *)
(* bad ref and a good ref; then bisect_next runs bisect_next_all.  In     *)
(* bisect_start a result that is no success cleans the session.           *)
(***************************************************************************)
AutoNext(f, h, terms, cleanOnFail) ==
    IF ~(HasBad(f, terms) /\ HasGood(f, terms))
    THEN files' = f /\ head' = h
    ELSE \E out \in NextOutcomes(f), c \in Commits :
           LET r == NextAll(f, h, out, c)
           IN  /\ files' = IF ~r.ok /\ cleanOnFail THEN CleanFiles ELSE r.f
               /\ head' = r.h

\* bisect_start from "Write new start state" on, given the cleaned files.
StartFinish(f, h, revs, terms, mustWrite, fault) ==
    LET w == FaultRef(StartWrites(f, revs, 1, LastOk(Len(revs), fault), terms),
                      revs, fault, StartState(fault[1], terms), terms)
    IN  IF fault[1] # 0 \/ (mustWrite /\ ~WriteTermsOk(terms[1], terms[2]))
        THEN files' = w /\ head' = h            \* goto finish; return res
        ELSE AutoNext([w EXCEPT !.terms = IF mustWrite THEN terms ELSE @],
                      h, terms, TRUE)

(***************************************************************************)
(* bisect_start(revs, --term-new/--term-old, --no-checkout).  A restart   *)
(* first checks out the recorded start head; then bisect_clean_state,     *)
(* BISECT_START, BISECT_HEAD, a bisect_write per rev (nolog), and only    *)
(* then write_terms.  A failing checkout changes nothing and is left out.  *)
(***************************************************************************)
BisectStart(revs, tb, tg, noCheckout) ==
    LET terms == <<IF tb = Default THEN "bad" ELSE tb,
                   IF tg = Default THEN "good" ELSE tg>>
        restart == files.start # NoCommit
        startHead == IF restart THEN files.start ELSE head
        f == [CleanFiles EXCEPT !.start = startHead,
                                !.bisectHead = IF noCheckout THEN startHead ELSE @]
    IN  \E fault \in Faults(Len(revs)) :
          StartFinish(f, IF restart /\ ~noCheckout THEN startHead ELSE head,
                      revs, terms, tb # Default \/ tg # Default \/ revs # <<>>,
                      fault)

\* bisect_autostart with a yes at the prompt: bisect_start with no args.
Autostarted(f, h) == IF f.start # NoCommit THEN f ELSE [CleanFiles EXCEPT !.start = h]

\* check_and_set_terms: the terms after it, or NoTerms when it fails.
CheckAndSetTerms(f, terms, cmd) ==
    CASE cmd \in {"skip", "start", "terms"} -> terms
      [] f.terms # NoTerms /\ cmd \notin {terms[1], terms[2]} -> NoTerms
      [] f.terms = NoTerms /\ cmd \in {"bad", "good"} -> <<"bad", "good">>
      [] f.terms = NoTerms /\ cmd \in {"new", "old"} -> <<"new", "old">>
      [] OTHER -> terms

\* bisect_state after check_and_set_terms accepted state under terms.
StateWriteAll(f, state, revs, terms) ==
    \E fault \in Faults(Len(revs)) :
      LET w == FaultRef(StateWrites(f, revs, 1, LastOk(Len(revs), fault),
                                    state, terms),
                        revs, fault, state, terms)
      IN  IF fault[1] # 0 THEN files' = w /\ head' = head
                          ELSE AutoNext(w, head, terms, FALSE)

(***************************************************************************)
(* bisect_state(state, revs): autostart, check_and_set_terms, the checks  *)
(* on state and on the number of revs, then bisect_write per rev (HEAD or *)
(* BISECT_HEAD when none is given) and bisect_auto_next.                  *)
(***************************************************************************)
BisectState(state, revs) ==
    LET f == Autostarted(files, head)
        terms == CheckAndSetTerms(f, CurrentTerms(files), state)
        ok == /\ terms # NoTerms
              /\ state \in {terms[1], terms[2], "skip"}
              /\ ~(Len(revs) > 1 /\ state = terms[1])
        \* check_and_set_terms has written BISECT_TERMS before the checks
        \* that follow it can fail
        fw == IF f.terms = NoTerms /\ state \in {"bad", "good", "new", "old"}
              THEN [f EXCEPT !.terms = terms] ELSE f
        given == IF revs # <<>> THEN revs
                 ELSE <<IF f.bisectHead # NoCommit THEN f.bisectHead ELSE head>>
    IN  IF ok THEN StateWriteAll(fw, state, given, terms)
              ELSE files' = fw /\ head' = head

(***************************************************************************)
(* --bisect-next: get_terms (none when BISECT_TERMS is missing), autostart, *)
(* bisect_next_check(terms, good) and bisect_next_all.  With only a bad   *)
(* ref decide_next goes on when stdin is no terminal or the user agrees.  *)
(* --bisect-auto-next is the same step needing both refs.                 *)
(***************************************************************************)
BisectNext(onlyBadOk) ==
    LET f == Autostarted(files, head)
    IN  IF /\ files.terms # NoTerms
           /\ HasBad(f, files.terms)
           /\ HasGood(f, files.terms) \/ onlyBadOk
        THEN \E out \in NextOutcomes(f), c \in Commits :
               LET r == NextAll(f, head, out, c)
               IN  files' = r.f /\ head' = r.h
        ELSE files' = f /\ head' = head

(***************************************************************************)
(* bisect_reset(commit): back to commit, or to BISECT_START's head; the   *)
(* checkout is skipped when BISECT_HEAD exists; then bisect_clean_state.  *)
(* Without a commit and a session it only prints "not bisecting".         *)
(***************************************************************************)
BisectReset(commit) ==
    /\ commit # NoCommit \/ files.start # NoCommit
    /\ head' = IF files.bisectHead # NoCommit THEN head
               ELSE IF commit # NoCommit THEN commit ELSE files.start
    /\ files' = CleanFiles

RevLists == UNION {[1..n -> Commits] : n \in 0..MaxRevs}
TermOpts == {Default} \cup Terms

Init == files = CleanFiles /\ head \in Commits

Next ==
    \/ \E revs \in RevLists, tb, tg \in TermOpts, nc \in BOOLEAN :
         BisectStart(revs, tb, tg, nc)
    \/ \E state \in Terms, revs \in RevLists : BisectState(state, revs)
    \/ \E b \in BOOLEAN : BisectNext(b)
    \/ \E c \in Commits \cup {NoCommit} : BisectReset(c)

Spec == Init /\ [][Next]_vars

TypeOK ==
    /\ files.start \in Commits \cup {NoCommit}
    /\ files.terms \in (Terms \X Terms) \cup {NoTerms}
    /\ DOMAIN files.refs \subseteq RefName
    /\ \A n \in DOMAIN files.refs : files.refs[n] \in Commits
    /\ files.bisectHead \in Commits \cup {NoCommit}
    /\ files.expected \in Commits \cup {NoCommit}
    /\ head \in Commits

(***************************************************************************)
(* While a session is open (BISECT_START non-empty) every bad or good ref *)
(* under refs/bisect/ is named by the terms BISECT_TERMS records: the bad *)
(* term alone, the good term with its rev.  bisect_start promises this by *)
(* cleaning the session when it does not succeed                          *)
(* (if (!is_bisect_success(res)) bisect_clean_state()), and bisect_state  *)
(* by writing the terms in check_and_set_terms before any ref.            *)
(***************************************************************************)
RefsNamedByTerms ==
    files.start # NoCommit =>
      \A n \in DOMAIN files.refs :
        n.term # "skip" =>
          /\ files.terms # NoTerms
          /\ n.term \in {files.terms[1], files.terms[2]}
          /\ (n.term = files.terms[1]) = (n.rev = NoCommit)

=============================================================================
