-------------------------- MODULE MergeBaseSearch --------------------------
(* find_merge_base of core/merge_base.py: two searches in breadth, one from *)
(* each commit, which take turns over a store that may lack commits.  The   *)
(* merge routes, the protection of branches and `dit merge` rest on it.     *)
EXTENDS Sequences, Functions

CONSTANTS
    Commit,      \* commit hashes
    None,        \* Python's None
    Histories,   \* bound: what the commits name as their parents
    Stores       \* bound: the commits the store holds

ASSUME MergeBaseAssumption ==
    /\ None \notin Commit
    /\ Histories \subseteq [Commit -> Seq(Commit)]
    /\ Stores \subseteq SUBSET Commit

Side == {"a", "b"}
Other == [s \in Side |-> IF s = "a" THEN "b" ELSE "a"]

VARIABLES
    parents, held,   \* the history and the store
    tip,             \* hash_a and hash_b
    queue, met,      \* queue_a and queue_b, ancestors_a and ancestors_b
    turn, rest,      \* whose turn it is, the parents its loop has still to see
    ended, found     \* the function has returned, and what

vars == <<parents, held, tip, queue, met, turn, rest, ended, found>>

TypeOK ==
    /\ parents \in [Commit -> Seq(Commit)] /\ held \subseteq Commit
    /\ tip \in [Side -> Commit]
    /\ queue \in [Side -> Seq(Commit)] /\ met \in [Side -> SUBSET Commit]
    /\ turn \in Side /\ rest \in Seq(Commit)
    /\ ended \in BOOLEAN /\ found \in Commit \cup {None}

Init ==
    /\ parents \in Histories /\ held \in Stores
    /\ tip \in [Side -> Commit]
    /\ queue = [s \in Side |-> <<tip[s]>>]
    /\ met = [s \in Side |-> {tip[s]}]
    /\ turn = "a" /\ rest = <<>>
    /\ ended = (tip["a"] = tip["b"])
    /\ found = IF tip["a"] = tip["b"] THEN tip["a"] ELSE None

----------------------------------------------------------------------------
MetByTheOtherAsWell(c) == c \in met[turn]   \* faulty variant: looks at its own
MetByTheOther(c) == c \in met[Other[turn]]

(* The turn passes when the parents of the current commit are all seen.     *)
Continue(left) ==
    /\ rest' = left
    /\ turn' = IF left = <<>> THEN Other[turn] ELSE turn

Return(c) == ended' = TRUE /\ found' = c /\ rest' = <<>> /\ UNCHANGED turn
GoOn(left) == Continue(left) /\ UNCHANGED <<ended, found>>

PopKeeping ==   \* faulty variant: looks at the head of the queue, keeps it
    /\ ~ended /\ rest = <<>> /\ queue[turn] # <<>>
    /\ LET current == Head(queue[turn])
       IN IF MetByTheOther(current) THEN Return(current)
          ELSE GoOn(IF current \in held THEN parents[current] ELSE <<>>)
    /\ UNCHANGED <<parents, held, tip, queue, met>>

(* current = queue.popleft(), and the commit is read if the store has it.   *)
Pop ==
    /\ ~ended /\ rest = <<>> /\ queue[turn] # <<>>
    /\ LET current == Head(queue[turn])
       IN IF MetByTheOther(current) THEN Return(current)
          ELSE GoOn(IF current \in held THEN parents[current] ELSE <<>>)
    /\ queue' = [queue EXCEPT ![turn] = Tail(@)]
    /\ UNCHANGED <<parents, held, tip, met>>

SeeNewUnmarked(parent) ==   \* faulty variant: forgets ancestors.add
    /\ parent \notin met[turn]
    /\ queue' = [queue EXCEPT ![turn] = Append(@, parent)]
    /\ IF MetByTheOther(parent) THEN Return(parent) ELSE GoOn(Tail(rest))
    /\ UNCHANGED met

(* The body of `for parent in commit.parent_hashes`.                        *)
SeeNew(parent) ==
    /\ parent \notin met[turn]
    /\ met' = [met EXCEPT ![turn] = @ \cup {parent}]
    /\ queue' = [queue EXCEPT ![turn] = Append(@, parent)]
    /\ IF MetByTheOther(parent) THEN Return(parent) ELSE GoOn(Tail(rest))

SeeKnown(parent) ==
    /\ parent \in met[turn]
    /\ GoOn(Tail(rest))
    /\ UNCHANGED <<queue, met>>

See ==
    /\ ~ended /\ rest # <<>>
    /\ SeeNew(Head(rest)) \/ SeeKnown(Head(rest))
    /\ UNCHANGED <<parents, held, tip>>

(* A side whose queue has run empty lets the other go on alone.             *)
Skip ==
    /\ ~ended /\ rest = <<>>
    /\ queue[turn] = <<>> /\ queue[Other[turn]] # <<>>
    /\ turn' = Other[turn]
    /\ UNCHANGED <<parents, held, tip, queue, met, rest, ended, found>>

GiveUpEarly ==   \* faulty variant: `while queue_a and queue_b`
    /\ ~ended /\ rest = <<>> /\ turn = "a"
    /\ \E s \in Side : queue[s] = <<>>
    /\ ended' = TRUE
    /\ UNCHANGED <<parents, held, tip, queue, met, turn, rest, found>>

(* The loop ends with both queues, and the function returns None.           *)
GiveUp ==
    /\ ~ended /\ rest = <<>>
    /\ \A s \in Side : queue[s] = <<>>
    /\ ended' = TRUE
    /\ UNCHANGED <<parents, held, tip, queue, met, turn, rest, found>>

Next == Pop \/ See \/ Skip \/ GiveUp

Spec == Init /\ [][Next]_vars

(* The function runs in one thread until it returns.                        *)
FairSpec == Spec /\ WF_vars(Next)

----------------------------------------------------------------------------
(* The history of a commit as far as the store tells it: the least set that *)
(* has the commit and the parents of its members that are held.             *)
Ancestors(c) ==
    {x \in Commit : \A S \in SUBSET Commit :
        (c \in S /\ \A y \in S \cap held : Range(parents[y]) \subseteq S) => x \in S}

Common == Ancestors(tip["a"]) \cap Ancestors(tip["b"])

(* What is returned is an ancestor of both commits, however the two         *)
(* searches overtake each other: no merge starts from a commit foreign to   *)
(* one side, and merge_base == old never holds for a push that leaves old.  *)
BaseIsCommon == found # None => found \in Common

(* None is returned only when the store shows no common ancestor at all:    *)
(* related histories are never merged as if they were not.                  *)
NoneMeansUnrelated == ended /\ found = None => Common = {}

(* The search ends, also when a queue runs empty long before the other.     *)
SearchEnds == <>ended

(* Why: while the searches go on they have met nothing in common, and what  *)
(* one of them has met and taken off its queue it has looked through, but   *)
(* for the parents its loop has still to see.                               *)
LookedThrough(s) ==
    \A c \in (met[s] \cap held) \ Range(queue[s]) :
        Range(parents[c]) \subseteq met[s] \cup (IF s = turn THEN Range(rest) ELSE {})

SearchInv ==
    /\ TypeOK
    /\ \A s \in Side :
          tip[s] \in met[s] /\ met[s] \subseteq Ancestors(tip[s]) /\ Range(queue[s]) \subseteq met[s]
    /\ Range(rest) \subseteq Ancestors(tip[turn])
    /\ found # None => ended /\ found \in Common
    /\ found = None => met["a"] \cap met["b"] = {} /\ \A s \in Side : LookedThrough(s)
    /\ ended /\ found = None => rest = <<>> /\ \A s \in Side : queue[s] = <<>>

(* docs/superpowers/specs/2026-04-23-phase2-merge-and-branches.md:205-206:  *)
(* if one commit is an ancestor of the other, it is the merge base.         *)
AncestorIsTheBase ==
    ended => \A s \in Side : tip[s] \in Ancestors(tip[Other[s]]) => found = tip[s]
=============================================================================
