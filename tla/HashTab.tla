------------------------------ MODULE HashTab ------------------------------
(***************************************************************************)
(* The hash table (util/hash-tab.c) of the class list and of the master    *)
(* instruments: open addressing with linear probing, a list through the    *)
(* entries for iteration, and a removal that puts the entries behind the   *)
(* removed one back in.  A table is a record [cap, tab, list, count]; a    *)
(* position of `list' stands for the pointer to that entry.                *)
(***************************************************************************)
EXTENDS Integers, Sequences, FiniteSets, SequencesExt

CONSTANTS Keys, Vals, None,
          Hash,      \* hash_fn
          Cap,       \* cap_init
          Num, Den,  \* rehash_thresh is Num / Den
          MaxCap     \* capacity (bound)

ASSUME HashAssumption   == Hash \in [Keys -> Nat]
ASSUME CapAssumption    == Cap \in Nat \ {0} /\ MaxCap \in Nat /\ Cap <= MaxCap
ASSUME ThreshAssumption == Num \in Nat \ {0} /\ Den \in Nat /\ Num < Den
ASSUME NoneAssumption   == None \notin Vals \cup [key : Keys, val : Vals]

VARIABLES table,   \* the table
          idx,     \* the entry hash_tab_remove is at, or -1
          left,    \* the iterations it may still do
          answer   \* what the last operation returned

vars == <<table, idx, left, answer>>

Positions(t) == 0..(t.cap - 1)

Entry == [key : Keys, val : Vals]
Tables(cap) == [cap : {cap}, tab : [0..(cap - 1) -> Entry \cup {None}],
                list : Seq(0..(cap - 1)), count : Nat]

TypeOK ==
    /\ \E cap \in 1..MaxCap : table \in Tables(cap)
    /\ idx \in Positions(table) \cup {-1} /\ left \in 0..MaxCap
    /\ answer \in Vals \cup {None}

Empty(cap) == [cap |-> cap, tab |-> [p \in 0..(cap - 1) |-> None],
               list |-> <<>>, count |-> 0]

Init ==
    /\ table = Empty(Cap)
    /\ idx = -1 /\ left = 0
    /\ answer = None

-----------------------------------------------------------------------------
\* The position that is d steps from where a key belongs.
Step(t, k, d) == (Hash[k] + d) % t.cap

\* Where a search for k ends: at k or at the first free entry.
Ends(t, k, d) == t.tab[Step(t, k, d)] = None \/ t.tab[Step(t, k, d)].key = k
Searched(t, k) == {d \in Positions(t) : Ends(t, k, d) /\ \A e \in 0..(d - 1) : ~Ends(t, k, e)}

\* hash_insert, which asserts that there is such a position.
Insert(t, k, v) ==
    LET p == Step(t, k, CHOOSE d \in Searched(t, k) : TRUE)
        u == [t EXCEPT !.tab[p] = [key |-> k, val |-> v]]
    IN  IF t.tab[p] = None THEN [u EXCEPT !.list = <<p>> \o @, !.count = @ + 1] ELSE u

\* Mutant: only the head of the list is unlinked.
UnlinkHead(t, p) ==
    [t EXCEPT !.tab[p] = None,
              !.list = IF Head(@) = p THEN Tail(@) ELSE @,
              !.count = @ - 1]

\* ent_unlink
Linked(t, p) == CHOOSE i \in DOMAIN t.list : t.list[i] = p
Unlink(t, p) ==
    [t EXCEPT !.tab[p] = None, !.list = RemoveAt(@, Linked(t, p)), !.count = @ - 1]

NeedRehash(t) == (t.count + 1) * Den >= t.cap * Num

\* rehash: the entries go to a table of twice the size, in the list's order.
Rehash(t) ==
    LET moved[i \in 0..Len(t.list)] ==
          IF i = 0 THEN Empty(2 * t.cap)
          ELSE LET e == t.tab[t.list[i]] IN Insert(moved[i - 1], e.key, e.val)
    IN  moved[Len(t.list)]

\* ent_lookup
Found(t, k) == {Step(t, k, d) : d \in {e \in Searched(t, k) : t.tab[Step(t, k, e)] # None}}
Value(t, k) == IF Found(t, k) = {} THEN None ELSE t.tab[CHOOSE p \in Found(t, k) : TRUE].val

-----------------------------------------------------------------------------
\* hash_tab_add; without memory it changes nothing.
Add(k, v) ==
    /\ idx = -1
    /\ NeedRehash(table) => 2 * table.cap <= MaxCap
    /\ LET t == IF NeedRehash(table) THEN Rehash(table) ELSE table
       IN  /\ table' = Insert(t, k, v)
           /\ answer' = Value(t, k)
    /\ UNCHANGED <<idx, left>>

Lookup(k) ==
    /\ idx = -1
    /\ answer' = Value(table, k)
    /\ UNCHANGED <<table, idx, left>>

\* hash_tab_remove, up to its loop.
RemoveKey(k) ==
    /\ idx = -1
    /\ answer' = Value(table, k)
    /\ IF Found(table, k) = {}
       THEN UNCHANGED <<table, idx, left>>
       ELSE \E p \in Found(table, k) :
              /\ table' = Unlink(table, p)
              /\ idx' = (p + 1) % table.cap
              /\ left' = table.cap

\* Mutant: the loop ends at the end of the table.
ReinsertNoWrap ==
    /\ idx # -1
    /\ IF left = 0 \/ table.tab[idx] = None
       THEN idx' = -1 /\ left' = 0 /\ UNCHANGED table
       ELSE /\ table' = Insert(Unlink(table, idx), table.tab[idx].key, table.tab[idx].val)
            /\ idx' = IF idx = table.cap - 1 THEN -1 ELSE idx + 1
            /\ left' = left - 1
    /\ UNCHANGED answer

\* One iteration of the loop, up to the first free entry.
Reinsert ==
    /\ idx # -1
    /\ IF left = 0 \/ table.tab[idx] = None
       THEN idx' = -1 /\ left' = 0 /\ UNCHANGED table
       ELSE /\ table' = Insert(Unlink(table, idx), table.tab[idx].key, table.tab[idx].val)
            /\ idx' = (idx + 1) % table.cap
            /\ left' = left - 1
    /\ UNCHANGED answer

Next == Reinsert \/ \E k \in Keys : Lookup(k) \/ RemoveKey(k) \/ \E v \in Vals : Add(k, v)

Spec == Init /\ [][Next]_vars

-----------------------------------------------------------------------------
(* Properties.                                                             *)

\* hash_tab_size and the iteration (hash-tab.c:194-197, 277-296) see every entry
\* once, in the middle of a removal too, and a free entry is left, where the search
\* for an absent key ends: hash_insert asserts as much (hash-tab.c:76).
TableIsSound ==
    /\ table.count = Len(table.list)
    /\ IsInjective(table.list)
    /\ ToSet(table.list) = {p \in Positions(table) : table.tab[p] # None}
    /\ table.count < table.cap

\* Whatever was added, moved and removed before, an operation answers the value
\* its key has, and changes no other key (hash-tab-suite.c:85-135).
Entries(t, k) == {p \in Positions(t) : t.tab[p] # None /\ t.tab[p].key = k}
Holds(t, k) == IF Entries(t, k) = {} THEN None ELSE t.tab[CHOOSE p \in Entries(t, k) : TRUE].val
Contents == [k \in Keys |-> Holds(table, k)]

Dict == INSTANCE Dictionary WITH map <- Contents
IsDictionary == Dict!Spec

-----------------------------------------------------------------------------
\* What the two properties need to be inductive.  A key has one entry.  How far
\* an entry is from where its key belongs, and from the entry of the loop:
OneEach(t) == \A k \in Keys : \A p, q \in Entries(t, k) : p = q
Away(t, k, p) == (p - (Hash[k] % t.cap) + t.cap) % t.cap
Ahead(t, i, p) == (p - i + t.cap) % t.cap

\* A search for the entry's key gets to it, no entry before it being free.
Reached(t, k, p) == \A e \in 0..(Away(t, k, p) - 1) : t.tab[Step(t, k, e)] # None

\* Only an entry that the loop is still to put back may be out of reach: no entry
\* from the loop's on to this one is free.
Pending(t, i, p) == i # -1 /\ \A e \in 0..Ahead(t, i, p) : t.tab[(i + e) % t.cap] # None
Probing ==
    \A k \in Keys : \A p \in Entries(table, k) : Reached(table, k, p) \/ Pending(table, idx, p)

\* The loop comes to a free entry before its bound, one that no search for an entry
\* passes and where none is put, so that it ends with every entry in reach.
Stops(f) ==
    /\ table.tab[f] = None /\ Ahead(table, idx, f) < left
    /\ \A k \in Keys : \A p \in Entries(table, k) : Away(table, k, p) < Away(table, k, f)
LoopEnds == idx # -1 => \E f \in Positions(table) : Stops(f)

IInv == TypeOK /\ TableIsSound /\ OneEach(table) /\ Probing /\ LoopEnds
=============================================================================
