----------------------------- MODULE NameServer -----------------------------
(***************************************************************************)
(* The name server of nameserver.c and the tasks that call RegisterAs and  *)
(* WhoIs.  A caller sends its query and waits; queries wait in the order   *)
(* they were sent.                                                         *)
(***************************************************************************)
EXTENDS Integers, Sequences

CONSTANTS
    Callers,        \* tids
    Names,
    NoName,         \* the empty string of an entry that is not used
    NS_REG_MAX

\* What the constants have to be.
NameServerAssumption ==
    /\ NS_REG_MAX \in Nat \ {0}
    /\ NoName \notin Names
    /\ Callers \subseteq Nat

Entries  == 0 .. NS_REG_MAX - 1
NotFound == -3

VARIABLES
    table,          \* NSRegEntry: the name and the tid of each entry
    ns_counter,
    queries,        \* queries sent and not received
    answer          \* the caller replied to last, and what its call returned

vars == <<table, ns_counter, queries, answer>>

Init ==
    /\ table = [i \in Entries |-> [name |-> NoName, tid |-> 0]]
    /\ ns_counter = 0
    /\ queries = << >>
    /\ answer = [to |-> 0, result |-> 0]

-----------------------------------------------------------------------------
\* RegisterAs (type "R") and WhoIs (type "W").
Send(tid, type, name) ==
    /\ \A i \in 1 .. Len(queries) : queries[i].tid # tid
    /\ queries' = Append(queries, [tid |-> tid, type |-> type, name |-> name])
    /\ UNCHANGED <<table, ns_counter, answer>>

\* The entries with the name: at most one, -1 if there is none.
\* (Mutant: the last entry is not looked at.)
FindButLast(name) ==
    IF \A i \in Entries : table[i].name = name => i = NS_REG_MAX - 1 THEN -1
    ELSE CHOOSE i \in Entries : table[i].name = name

findTidFor(name) ==
    IF \A i \in Entries : table[i].name # name THEN -1
    ELSE CHOOSE i \in Entries :
            /\ table[i].name = name
            /\ \A j \in 0 .. i - 1 : table[j].name # name

Entry(query) == [name |-> query.name, tid |-> query.tid]

Replies(query, result) == answer' = [to |-> query.tid, result |-> result]

RegisterAgain(query) ==
    /\ query.type = "R"
    /\ findTidFor(query.name) # -1
    /\ table' = [table EXCEPT ![findTidFor(query.name)].tid = query.tid]
    /\ Replies(query, 0)
    /\ UNCHANGED ns_counter

RegisterNew(query) ==
    /\ query.type = "R"
    /\ findTidFor(query.name) = -1
    /\ table' = [table EXCEPT ![ns_counter] = Entry(query)]
    /\ ns_counter' = (ns_counter + 1) % NS_REG_MAX
    /\ Replies(query, 0)

AnswerWhoIs(query) ==
    /\ query.type = "W"
    /\ LET i == findTidFor(query.name)
       IN  Replies(query, IF i = -1 THEN NotFound ELSE table[i].tid)
    /\ UNCHANGED <<table, ns_counter>>

nameserver ==
    /\ queries # << >>
    /\ queries' = Tail(queries)
    /\ LET query == Head(queries)
       IN  RegisterAgain(query) \/ RegisterNew(query) \/ AnswerWhoIs(query)

Next ==
    \/ nameserver
    \/ \E tid \in Callers, type \in {"R", "W"}, name \in Names : Send(tid, type, name)

Spec == Init /\ [][Next]_vars

-----------------------------------------------------------------------------
(* Properties                                                              *)

\* The entries that are used, the oldest first: those before ns_counter, and
\* when the table is full all of them, from the one that is overwritten next.
IsFull   == table[ns_counter].name # NoName
Count    == IF IsFull THEN NS_REG_MAX ELSE ns_counter
Place(i) == IF IsFull THEN (ns_counter + (i - 1)) % NS_REG_MAX ELSE i - 1
Known    == [i \in 1 .. Count |-> table[Place(i)]]

Book == INSTANCE Registry WITH known <- Known, Tids <- Callers, Size <- NS_REG_MAX

\* A name registered twice keeps one entry, a registration that finds the
\* table full takes the oldest name's place, and no lookup ever answers with
\* the task of another name (nameserver.c:60-95, test/nameserver-overflow.c).
NamesAreKnown == Book!Init /\ [][Book!Next]_<<Known, answer>>
=============================================================================
