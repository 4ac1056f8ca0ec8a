-------------------------- MODULE GenerationNumbers --------------------------
(***************************************************************************)
(* The generation-number engine of commit-graph.c:                        *)
(* compute_generation_numbers() run over the commits of one write, the    *)
(* packing of a generation into the 32-bit "generation << 2 | date_high"  *)
(* word of the commit-data chunk (write_graph_chunk_data), the unpacking  *)
(* on load (fill_commit_graph_info, fill_commit_in_graph) and the         *)
(* generation check of verify_commit_graph.                               *)
(*                                                                         *)
(* The commit DAG is chosen in Init among all DAGs over the commits with   *)
(* at most MaxParents ordered parents.  Commits are dense integers; the   *)
(* list being written (ctx->commits.list) is in ascending order.  Some    *)
(* commits already carry a generation read from an existing graph layer   *)
(* (split writes, --split=replace): those form a parent-closed set whose   *)
(* generations are the ones this algorithm wrote when the layer was made. *)
(*                                                                         *)
(* Widths are scaled down: the packed word has WordBits bits instead of   *)
(* 32 and GENERATION_NUMBER_MAX is 2^(WordBits-2) - 1 instead of           *)
(* 0x3FFFFFFF, so saturation happens on short chains.                     *)
(***************************************************************************)
EXTENDS Integers, Sequences, FiniteSets

CONSTANTS
    N,            \* number of commits
    MaxParents,   \* largest parent count of a commit (3 = an octopus merge)
    WordBits      \* width of the packed generation/date-high word

ASSUME N \in Nat \ {0}
ASSUME MaxParents \in Nat
ASSUME WordBits \in Nat /\ WordBits >= 3

Commits == 1..N

\* GENERATION_NUMBER_ZERO: the zero-initialised slab value, "not computed".
GENERATION_NUMBER_ZERO == 0
\* GENERATION_NUMBER_MAX: the largest value the 30-bit field can hold.
GENERATION_NUMBER_MAX == 2^(WordBits - 2) - 1
\* The word's modulus: unsigned arithmetic on it wraps.
WordMod == 2^WordBits

-----------------------------------------------------------------------------
(* The commit DAG and the reference definition.                           *)

\* Ordered parent lists of distinct commits, at most MaxParents long.
ParentLists ==
    UNION { {s \in [1..k -> Commits] :
               \A a, b \in 1..k : a # b => s[a] # s[b]} : k \in 0..MaxParents }

ParentSet(par, c) == { par[c][k] : k \in DOMAIN par[c] }

\* The commits reachable from c through one or more parent edges.
RECURSIVE Ancestors(_, _, _)
Ancestors(par, front, seen) ==
    LET next == UNION { ParentSet(par, c) : c \in front } \ seen
    IN IF next = {} THEN seen ELSE Ancestors(par, next, seen \cup next)

IsDag(par) == \A c \in Commits : c \notin Ancestors(par, {c}, {})

\* Reference: generation is 1 for a root, else one more than the largest
\* parent generation, saturating at GENERATION_NUMBER_MAX.
RECURSIVE RefGen(_, _)
RefGen(par, c) ==
    IF ParentSet(par, c) = {} THEN 1
    ELSE LET m == CHOOSE g \in { RefGen(par, p) : p \in ParentSet(par, c) } :
                     \A h \in { RefGen(par, p) : p \in ParentSet(par, c) } : g >= h
         IN IF m + 1 > GENERATION_NUMBER_MAX THEN GENERATION_NUMBER_MAX ELSE m + 1

-----------------------------------------------------------------------------
VARIABLES
    parents,      \* commit -> ordered parent list (the commit's "parents")
    listed,       \* the commits of ctx->commits.list
    generation,   \* commit -> slab generation (commit_graph_data_at()->generation)
    list,         \* the explicit work stack, top first (struct commit_list *list)
    i             \* next index of the outer for loop over ctx->commits.list

vars == <<parents, listed, generation, list, i>>

\* ctx->commits.list, sorted by object id: here ascending commit number.
CommitsList ==
    LET RECURSIVE Asc(_)
        Asc(S) == IF S = {} THEN << >>
                  ELSE LET m == CHOOSE x \in S : \A y \in S : x <= y
                       IN <<m>> \o Asc(S \ {m})
    IN Asc(listed)

Unknown(c) == generation[c] = GENERATION_NUMBER_ZERO

\* Commits whose generation was read from an existing layer: any parent-
\* closed set (a base layer holds its commits' parents).
LoadedSets(par) ==
    { L \in SUBSET Commits : \A c \in L : ParentSet(par, c) \subseteq L }

Init ==
    /\ parents \in { par \in [Commits -> ParentLists] : IsDag(par) }
    /\ \E loaded \in LoadedSets(parents) :
          \* close_reachable(): every parent of a listed commit is listed or
          \* already in the graph.
          /\ listed \in { S \in SUBSET Commits :
                             /\ S # {}
                             /\ \A c \in S : ParentSet(parents, c) \subseteq S \cup loaded }
          /\ generation = [c \in Commits |->
                             IF c \in loaded THEN RefGen(parents, c)
                             ELSE GENERATION_NUMBER_ZERO]
    /\ list = << >>
    /\ i = 1

-----------------------------------------------------------------------------
(* compute_generation_numbers()                                           *)

\* One turn of the outer for loop with an empty work stack: a commit that
\* already has a generation is skipped, any other is pushed.
ComputeGenerationNumbersStep ==
    /\ list = << >>
    /\ i <= Len(CommitsList)
    /\ LET c == CommitsList[i] IN
          list' = IF Unknown(c) THEN <<c>> ELSE << >>
    /\ i' = i + 1
    /\ UNCHANGED <<parents, listed, generation>>

\* The first parent, in list order, whose generation is still unknown.
FirstUnknownParent(c) ==
    LET ks == { k \in DOMAIN parents[c] : Unknown(parents[c][k]) }
    IN parents[c][CHOOSE k \in ks : \A j \in ks : k <= j]

\* Faulty variant: push the first parent whatever its state.
PushParentFirst ==
    /\ list # << >>
    /\ \E k \in DOMAIN parents[Head(list)] : Unknown(parents[Head(list)][k])
    /\ list' = <<parents[Head(list)][1]>> \o list
    /\ UNCHANGED <<parents, listed, generation, i>>

\* Body of the while loop when some parent is not computed: push it and
\* retry the current commit later.
PushParent ==
    /\ list # << >>
    /\ \E k \in DOMAIN parents[Head(list)] : Unknown(parents[Head(list)][k])
    /\ list' = <<FirstUnknownParent(Head(list))>> \o list
    /\ UNCHANGED <<parents, listed, generation, i>>

\* Faulty variant: the parent loop stops before the last parent.
MaxParentGenerationButLast(c) ==
    LET ps == { parents[c][k] : k \in 1..(Len(parents[c]) - 1) }
    IN IF ps = {} THEN 0
       ELSE CHOOSE g \in { generation[p] : p \in ps } :
               \A p \in ps : g >= generation[p]

\* max_generation over the parents (0 when there are none).
MaxParentGeneration(c) ==
    IF ParentSet(parents, c) = {} THEN 0
    ELSE CHOOSE g \in { generation[p] : p \in ParentSet(parents, c) } :
            \A p \in ParentSet(parents, c) : g >= generation[p]

\* Faulty variant: no cap after the increment.
NewGenerationUncapped(c) == MaxParentGeneration(c) + 1

\* data->generation = max_generation + 1, capped at GENERATION_NUMBER_MAX.
NewGeneration(c) ==
    IF MaxParentGeneration(c) + 1 > GENERATION_NUMBER_MAX
    THEN GENERATION_NUMBER_MAX ELSE MaxParentGeneration(c) + 1

\* Faulty variant: the generation is set but the commit is not popped.
AssignGenerationNoPop ==
    /\ list # << >>
    /\ \A k \in DOMAIN parents[Head(list)] : ~Unknown(parents[Head(list)][k])
    /\ generation' = [generation EXCEPT ![Head(list)] = NewGeneration(Head(list))]
    /\ UNCHANGED <<parents, listed, list, i>>

\* Body of the while loop when all parents are computed: set and pop.
AssignGeneration ==
    /\ list # << >>
    /\ \A k \in DOMAIN parents[Head(list)] : ~Unknown(parents[Head(list)][k])
    /\ generation' = [generation EXCEPT ![Head(list)] = NewGeneration(Head(list))]
    /\ list' = Tail(list)
    /\ UNCHANGED <<parents, listed, i>>

Terminated == list = << >> /\ i > Len(CommitsList)

Next ==
    \/ ComputeGenerationNumbersStep
    \/ PushParent
    \/ AssignGeneration

\* The function is a plain sequential loop: once it may step, it steps.
Spec == Init /\ [][Next]_vars /\ WF_vars(Next)

-----------------------------------------------------------------------------
(* The stored word and its reading back.                                  *)

\* write_graph_chunk_data: packedDate[0] = date_high | generation << 2 in a
\* 32-bit word (unsigned shift, so high bits fall off).
PackedGenerationWord(gen, dateHigh) == ((gen * 4) % WordMod) + dateHigh

\* fill_commit_graph_info / fill_commit_in_graph: word >> 2.
StoredGeneration(word) == word \div 4

\* verify_commit_graph: the generation the verifier expects for c.  It
\* walks the parent list parsed from the graph and takes the largest
\* stored generation, decrements it when it is GENERATION_NUMBER_MAX, and
\* expects one more.
VerifyExpectedGeneration(c) ==
    LET stored == { StoredGeneration(PackedGenerationWord(generation[parents[c][k]], 0)) :
                      k \in DOMAIN parents[c] }
        m == IF stored = {} THEN 0 ELSE CHOOSE g \in stored : \A h \in stored : g >= h
    IN (IF m = GENERATION_NUMBER_MAX THEN m - 1 ELSE m) + 1

-----------------------------------------------------------------------------
(* Properties                                                              *)

TypeOK ==
    /\ listed \subseteq Commits
    /\ generation \in [Commits -> 0..GENERATION_NUMBER_MAX]
    /\ list \in Seq(Commits)
    /\ i \in 1..(N + 1)

\* Every generation the loop has assigned so far, once packed into the
\* commit-data word and read back by a later load, is the reference value
\* 1 + max(parents) saturating at GENERATION_NUMBER_MAX: the loop never
\* assigns a value from a parent that was not yet computed, and the cap
\* keeps the shift by 2 from losing bits.
GenerationCorrect ==
    \A c \in Commits :
        ~Unknown(c) =>
            \A dh \in 0..3 :
                StoredGeneration(PackedGenerationWord(generation[c], dh))
                    = RefGen(parents, c)

\* The explicit work stack of compute_generation_numbers is a chain of
\* uncomputed commits, each entry a parent of the entry below it; so it has
\* no repeated commit and never grows past the longest ancestry chain.
StackIsParentChain ==
    /\ \A k \in DOMAIN list : Unknown(list[k])
    /\ \A k \in 1..(Len(list) - 1) : list[k] \in ParentSet(parents, list[k + 1])

\* When the loop ends, every listed commit has a generation, and
\* verify_commit_graph's independent recomputation (parents' generations,
\* max decremented at GENERATION_NUMBER_MAX, plus one) accepts it: a file
\* written by this code passes "commit-graph verify".
WrittenGenerationsVerify ==
    Terminated =>
        \A c \in listed :
            /\ ~Unknown(c)
            /\ StoredGeneration(PackedGenerationWord(generation[c], 0))
                  = VerifyExpectedGeneration(c)

\* The loop terminates: the work stack drains and the for loop ends, on
\* every DAG, whatever generations the existing layers supplied.
EventuallyTerminates == <>Terminated

=============================================================================
