------------------------------- MODULE Search -------------------------------
(***************************************************************************)
(* internal/search/search.go: a substring query over every registered      *)
(* table, with a cap on the matches of one table and of the whole search.  *)
(*                                                                         *)
(* q.dbs is the sequence of databases, each a sequence of tables; a table  *)
(* is the sequence of its rows, a row is a sequence of fields, and a field *)
(* is the set of the strings found in it: itself, the value behind a       *)
(* pointer, the elements of a slice, the keys and values of a map.  "n"    *)
(* stands for a string that contains the query.                            *)
(***************************************************************************)
EXTENDS Integers, Sequences, FiniteSets, SequencesExt

CONSTANTS MaxPerTable, MaxTotal      \* maxMatchesPerTable, maxTotalMatches

ASSUME CapsAssumption == MaxPerTable \in Nat \ {0} /\ MaxTotal \in Nat \ {0}

matchFieldValue(f) == "n" \in f
matchesQuery(row) == \E i \in DOMAIN row : matchFieldValue(row[i])

\* searchTable: at most limit matches, and whether there are more.
searchTable(table, limit) ==
    LET hits == SelectSeq(table, matchesQuery)
    IN  [found |-> IF Len(hits) > limit THEN SubSeq(hits, 1, limit) ELSE hits,
         more  |-> Len(hits) > limit]

remaining(total) == IF MaxTotal - total < MaxPerTable THEN MaxTotal - total ELSE MaxPerTable

\* One table of the loop; once the total is reached the search returns.
Step(acc, table) ==
    IF acc.done \/ acc.total >= MaxTotal
    THEN [acc EXCEPT !.done = TRUE, !.truncated = TRUE]
    ELSE LET t == searchTable(table, remaining(acc.total))
         IN  [acc EXCEPT !.total = @ + Len(t.found), !.truncated = @ \/ t.more,
                         !.results = IF t.found = <<>> THEN @ ELSE Append(@, t.found)]

SearchFor(q) ==
    FoldLeft(Step, [results |-> <<>>, total |-> 0, truncated |-> FALSE, done |-> FALSE],
             FlattenSeq(q.dbs))

-----------------------------------------------------------------------------
(* An answer that is not marked as truncated holds every match of every    *)
(* table in order, and no answer exceeds either cap: the matches of one    *)
(* table cannot push the total over the limit, nor can a cap reached on    *)
(* the last row of a table hide the tables after it.                       *)
UnmarkedAnswerIsComplete(q) ==
    LET a == SearchFor(q)
    IN  /\ ~ a.truncated => FlattenSeq(a.results) = SelectSeq(FlattenSeq(FlattenSeq(q.dbs)), matchesQuery)
        /\ Len(FlattenSeq(a.results)) = a.total
        /\ a.total <= MaxTotal
        /\ \A i \in DOMAIN a.results : Len(a.results[i]) \in 1..MaxPerTable
=============================================================================
