------------------------------ MODULE QueryInput ------------------------------
(***************************************************************************)
(* From standard input to the queries the jobs execute, and to the end of  *)
(* their lists: rel_list_init reads paths and maps the relations,          *)
(* batch_list_populate reads the batches of queries, query_init takes a    *)
(* query apart, query_exec sorts the joins of its list of predicates, and  *)
(* main frees the lists, for which it waits for no query.  What a query    *)
(* computes is in QueryEngine, the threads and the jobs in JobScheduler    *)
(* and Harness, also that a job may execute a query twice: not so here.    *)
(*                                                                         *)
(* Standard input is a sequence of tokens.  A token stands for the         *)
(* characters it is written with; the limits of fgets count tokens.  Its   *)
(* kind is "nl", "done", "f", "bar", "path", "rel", "pred" or "proj"; cut  *)
(* says that its last character is gone.                                   *)
(***************************************************************************)
EXTENDS ListSort, SequencesExt, FiniteSets, FiniteSetsExt

CONSTANTS
  Inputs,     \* what standard input may hold
  Files,      \* the files there are, by path: [words, rows, cols]
  MaxPath,    \* MAX_PATH
  MaxQuery,   \* MAX_QUERY
  PageWords,  \* words of a page
  IntValues,  \* values of an int, 2 ^ 32
  WordValues  \* values of a uint64_t, 2 ^ 64

Column == [key : Nat, payload : Nat]

Predicate ==
  [left : Column, op : {"="}, right : Column]
    \cup [left : Column, op : {"<", ">", "="}, right : [key : Nat, payload : {Constant}]]

Token ==
  [kind : {"nl", "done", "f", "bar"}, cut : BOOLEAN]
    \cup [kind : {"path"}, cut : BOOLEAN, name : STRING]
    \cup [kind : {"rel"}, cut : BOOLEAN, index : Nat]
    \cup [kind : {"pred"}, cut : BOOLEAN, pred : Predicate]
    \cup [kind : {"proj"}, cut : BOOLEAN, column : Column]

Bars(s) == {k \in DOMAIN s : s[k].kind = "bar"}

OneLine(s, first, last) == \A k \in first .. last : s[k].kind # "nl"

(* In a line with two bars the relations are in front of the first and the *)
(* predicates between them.                                                *)
WellWritten(s) ==
  /\ s \in Seq(Token) /\ \A k \in DOMAIN s : ~s[k].cut
  /\ \A b, c \in Bars(s) : b < c /\ OneLine(s, b, c) =>
       /\ \A k \in b + 1 .. c - 1 : s[k].kind = "pred"
       /\ \A k \in 1 .. b - 1 : OneLine(s, k, b) => s[k].kind = "rel"

ASSUME InputAssumption ==
  /\ \A s \in Inputs : WellWritten(s)
  /\ Files \in [DOMAIN Files -> [words : Nat, rows : Nat, cols : Nat]]
  /\ \A path \in DOMAIN Files : {Files[path].rows, Files[path].cols} \subseteq 0 .. WordValues - 1
  /\ MaxPath \in Nat \ {0, 1} /\ MaxQuery \in Nat \ {0, 1}
  /\ PageWords \in Nat \ {0} /\ IntValues \in Nat \ {0}
  /\ WordValues \in Nat \ {0} /\ WordValues % 8 = 0

VARIABLES
  stdin,         \* what is still to be read
  rel_list,      \* the relations, a list of LinkedList
  batches,       \* batch_list: a sequence of sequences of queries
  end_of_batch,
  pc,            \* what main does: "relations", "queries", "execute",
                 \* "free", "end"; "aborted" on an assertion, "undefined"
                 \* when sscanf has left a string of query_init as it was,
                 \* "raced" when main frees a list that a query works on
  parser,        \* list_free: the place of the list and the node it is at
  freed,         \* nodes list_free has freed
  lines          \* history: the lines read so far, [text, whole]

vars == <<stdin, rel_list, batches, end_of_batch, pc, parser, freed, lines>>

Init ==
  /\ stdin \in Inputs
  /\ rel_list = EmptyList
  /\ batches = <<>>
  /\ end_of_batch = TRUE
  /\ pc = "relations"
  /\ parser = [place |-> <<0, 0>>, node |-> NULL] /\ freed = {}
  /\ lines = <<>>

-----------------------------------------------------------------------------
(* Reading *)

IsNewline(token) == token.kind = "nl"

OneCharacter == {"nl", "f", "bar"}

(* The tokens that one fgets takes. *)
Taken(limit) ==
  Min({k \in DOMAIN stdin : IsNewline(stdin[k])} \cup {limit - 1, Len(stdin)})

(* fgets_crop: the last character goes, whether or not it is a newline. *)
Cropped(chunk) ==
  IF Last(chunk).kind \in OneCharacter THEN Front(chunk)
  ELSE [chunk EXCEPT ![Len(chunk)].cut = TRUE]

Chunk(limit) == SubSeq(stdin, 1, Taken(limit))

Line(limit) == Cropped(Chunk(limit))

Fgets(limit) ==
  /\ stdin' = SubSeq(stdin, Taken(limit) + 1, Len(stdin))
  /\ lines' = Append(lines, [text |-> Line(limit), whole |-> IsNewline(Last(Chunk(limit)))])

Is(line, kind) == Len(line) = 1 /\ line[1].kind = kind /\ ~line[1].cut

-----------------------------------------------------------------------------
(* Relations *)

Unset == -1   \* a field rel_init has not written

(* Mutant: the mapping ends with the last whole page. *)
RoundDown(words) == (words \div PageWords) * PageWords

RoundUp(words) == ((words + PageWords - 1) \div PageWords) * PageWords

(* A number of words, each of eight bytes, that a size_t gives in bytes.   *)
SizeWords == WordValues \div 8

(* rel_init.  mapped is the number of words, from the start of the file    *)
(* on, that the mapping makes readable: that of whole pages.  The data     *)
(* begins after the two words of the header.  data_size and its sum with   *)
(* the header wrap around.  A mapping of no words fails, and one of almost *)
(* all words that can be addressed, but not rel_init.                      *)
rel_init(path) ==
  LET rel  == [path |-> path, rows |-> Unset, cols |-> Unset, mapped |-> Unset]
      file == Files[path]
      data_size == (file.rows * file.cols) % SizeWords
  IN  IF path \notin DOMAIN Files \/ file.words = 0 THEN rel
      ELSE IF file.words = 1 THEN [rel EXCEPT !.rows = file.rows]
      ELSE [rel EXCEPT
              !.rows = file.rows, !.cols = file.cols,
              !.mapped =
                IF \/ file.words < (data_size + 2) % SizeWords
                   \/ data_size = 0 \/ data_size + 2 >= SizeWords
                  THEN Unset ELSE RoundUp(data_size)]

(* Mutant: a relation that could not be read has no node. *)
ReadRelationIfLoaded ==
  /\ pc = "relations" /\ stdin # <<>>
  /\ Fgets(MaxPath)
  /\ IF Is(Line(MaxPath), "done")
       THEN pc' = "queries" /\ UNCHANGED rel_list
       ELSE /\ rel_list' = IF rel_init(Line(MaxPath)).mapped = Unset THEN rel_list
                           ELSE list_insert(rel_list, "LIST_END", rel_init(Line(MaxPath)))
            /\ UNCHANGED pc
  /\ UNCHANGED <<batches, end_of_batch, parser, freed>>

(* list_insert adds the node whether or not rel_init succeeded. *)
ReadRelation ==
  /\ pc = "relations" /\ stdin # <<>>
  /\ Fgets(MaxPath)
  /\ IF Is(Line(MaxPath), "done")
       THEN pc' = "queries" /\ UNCHANGED rel_list
       ELSE /\ rel_list' = list_insert(rel_list, "LIST_END", rel_init(Line(MaxPath)))
            /\ UNCHANGED pc
  /\ UNCHANGED <<batches, end_of_batch, parser, freed>>

EndOfRelations ==
  /\ pc = "relations" /\ stdin = <<>>
  /\ pc' = "queries"
  /\ UNCHANGED <<stdin, rel_list, batches, end_of_batch, parser, freed, lines>>

-----------------------------------------------------------------------------
(* Queries *)

(* sscanf assigns rels, preds and projs: three parts, none of them empty. *)
Parsed(line) ==
  /\ Cardinality(Bars(line)) = 2
  /\ Min(Bars(line)) > 1 /\ Max(Bars(line)) < Len(line)
  /\ Max(Bars(line)) > Min(Bars(line)) + 1

RelsOf(line) == SubSeq(line, 1, Min(Bars(line)) - 1)

PredsOf(line) == SubSeq(line, Min(Bars(line)) + 1, Max(Bars(line)) - 1)

ProjsOf(line) == SubSeq(line, Max(Bars(line)) + 1, Len(line))

(* atoi, and its value as a uint64_t. *)
atoi(n) ==
  LET low == n % IntValues
  IN  IF low < IntValues \div 2 THEN low ELSE WordValues - IntValues + low

(* The constant of < and > is read by atoi, that of = as a long. *)
pred_init(token) ==
  IF token.pred.op # "=" THEN [token.pred EXCEPT !.right.key = atoi(@)]
  ELSE token.pred

(* Mutant: a comparison with a constant is a join, too. *)
IsEquality(token) == token.pred.op = "="

(* Two columns are compared.  The relations may be the same: is_join looks  *)
(* at the first character and at the sign, which always differ.            *)
is_join(token) == token.pred.op = "=" /\ token.pred.right.payload # Constant

Predicates(line) ==
  LET token == PredsOf(line)
      list[k \in 0 .. Len(token)] ==
        IF k = 0 THEN EmptyList
        ELSE list_insert(list[k - 1],
                         IF is_join(token[k]) THEN "LIST_END" ELSE "LIST_START",
                         pred_init(token[k]))
  IN  list[Len(token)]

query_init(line) ==
  [rels  |-> [k \in DOMAIN RelsOf(line) |-> list_get(rel_list, RelsOf(line)[k].index)],
   preds |-> Predicates(line),
   projs |-> ProjsOf(line),
   text  |-> line,     \* history: the query as it was read
   stage |-> "read"]   \* "running" in query_exec until it has sorted the
                       \* joins, then "ordered"; "empty" when a filter left
                       \* it nothing to join

NamesOnlyKnown(line) ==
  \A k \in DOMAIN RelsOf(line) : RelsOf(line)[k].index < rel_list.length

(* A line opens a batch if the one before closed one; "F" closes it. *)
Opened == IF end_of_batch THEN Append(batches, <<>>) ELSE batches

(* Mutant: "F" opens the next batch itself. *)
ReadLineOpeningAtF ==
  /\ pc = "queries" /\ stdin # <<>>
  /\ Fgets(MaxQuery)
  /\ LET line == Line(MaxQuery)
         open == IF batches = <<>> THEN << <<>> >> ELSE batches
     IN  \/ /\ Is(line, "f")
            /\ batches' = Append(open, <<>>)
            /\ UNCHANGED <<pc, end_of_batch>>
         \/ /\ ~Is(line, "f") /\ Parsed(line) /\ NamesOnlyKnown(line)
            /\ batches' = [open EXCEPT ![Len(open)] = Append(@, query_init(line))]
            /\ UNCHANGED <<pc, end_of_batch>>
  /\ UNCHANGED <<rel_list, parser, freed>>

ReadLine ==
  /\ pc = "queries" /\ stdin # <<>>
  /\ Fgets(MaxQuery)
  /\ LET line == Line(MaxQuery)
     IN  \/ /\ Is(line, "f")
            /\ end_of_batch' = TRUE
            /\ batches' = Opened
            /\ UNCHANGED pc
         \/ /\ ~Is(line, "f") /\ Parsed(line) /\ NamesOnlyKnown(line)
            /\ end_of_batch' = FALSE
            /\ batches' = [Opened EXCEPT ![Len(Opened)] = Append(@, query_init(line))]
            /\ UNCHANGED pc
         \/ /\ ~Is(line, "f") /\ (Parsed(line) => ~NamesOnlyKnown(line))
            /\ pc' = IF Parsed(line) THEN "aborted" ELSE "undefined"
            /\ UNCHANGED <<batches, end_of_batch>>
  /\ UNCHANGED <<rel_list, parser, freed>>

EndOfQueries ==
  /\ pc = "queries" /\ stdin = <<>>
  /\ pc' = "execute"
  /\ UNCHANGED <<stdin, rel_list, batches, end_of_batch, parser, freed, lines>>

-----------------------------------------------------------------------------
(* Order of the joins *)

(* Where the loop over the filters ends, if no filter leaves nothing. *)
FirstJoin(l) ==
  SelectInSeq(Chain(l), LAMBDA n : is_pred_join(l.data[n]))

(* Mutant: i->prev is loaded after the call. *)
ReorderedLate(l) ==
  IF FirstJoin(l) = 0 THEN l
  ELSE LET i      == Chain(l)[FirstJoin(l)]
           sorted == SortNodes(l, i)
           before == sorted.list.prev[i]
       IN  IF l.prev[i] # NULL /\ before # NULL
             THEN [sorted.list EXCEPT !.next[before] = sorted.head]
           ELSE IF i = l.head THEN [sorted.list EXCEPT !.head = sorted.head]
           ELSE l

(* i->prev is loaded before the call that changes it: the order in which   *)
(* gcc evaluates i->prev->next = nodelist_mergesort(i).                    *)
Reordered(l) ==
  IF FirstJoin(l) = 0 THEN l
  ELSE LET i      == Chain(l)[FirstJoin(l)]
           sorted == SortNodes(l, i)
       IN  IF l.prev[i] # NULL
             THEN [sorted.list EXCEPT !.next[l.prev[i]] = sorted.head]
           ELSE IF i = l.head THEN [sorted.list EXCEPT !.head = sorted.head]
           ELSE l

(* The places of the lists that main frees: that of the relations and that *)
(* of the predicates of every query.                                       *)
Places == {<<0, 0>>} \cup UNION {{b} \X DOMAIN batches[b] : b \in DOMAIN batches}

ListAt(p) == IF p[1] = 0 THEN rel_list ELSE batches[p[1]][p[2]].preds

(* Main comes to place q later than to p. *)
Behind(p, q) == q[1] > p[1] \/ (q[1] = p[1] /\ q[2] > p[2])

CameTo(p) == pc = "free" /\ ~Behind(parser.place, p)

(* Workers execute the queries in any order and at any time from           *)
(* batch_exec on: main does not wait.  A list that main has come to is not *)
(* what it was.                                                            *)
Begin ==
  /\ pc \in {"execute", "free"}
  /\ \E b \in DOMAIN batches : \E q \in DOMAIN batches[b] :
       /\ batches[b][q].stage = "read"
       /\ batches' = [batches EXCEPT ![b][q].stage = "running"]
       /\ pc' = IF CameTo(<<b, q>>) THEN "raced" ELSE pc
  /\ UNCHANGED <<stdin, rel_list, end_of_batch, parser, freed, lines>>

(* A filter that leaves nothing ends the query before its joins are        *)
(* sorted.  The sort is one step: nobody else is at the nodes of the list  *)
(* until main comes to it, see FreeNext.                                   *)
Execute ==
  /\ pc \in {"execute", "free"}
  /\ \E b \in DOMAIN batches : \E q \in DOMAIN batches[b] :
       LET l == batches[b][q].preds
       IN  /\ batches[b][q].stage = "running"
           /\ \/ batches' = [batches EXCEPT ![b][q].preds = Reordered(l),
                                           ![b][q].stage = "ordered"]
              \/ /\ ~is_pred_join(l.data[l.head])
                 /\ batches' = [batches EXCEPT ![b][q].stage = "empty"]
  /\ UNCHANGED <<stdin, rel_list, end_of_batch, pc, parser, freed, lines>>

-----------------------------------------------------------------------------
(* The end *)

(* Main schedules the queries and goes on to list_free at once.            *)
EndOfBatches ==
  /\ pc = "execute"
  /\ pc' = "free"
  /\ parser' = [place |-> <<0, 0>>, node |-> rel_list.head]
  /\ UNCHANGED <<stdin, rel_list, batches, end_of_batch, freed, lines>>

(* list_free reads next of a node before it frees it. *)
FreeNode ==
  /\ pc = "free" /\ parser.node # NULL
  /\ freed' = freed \cup {parser}
  /\ parser' = [parser EXCEPT !.node = ListAt(parser.place).next[@]]
  /\ UNCHANGED <<stdin, rel_list, batches, end_of_batch, pc, lines>>

Left == {p \in Places : Behind(parser.place, p)}

(* The next list: of the next query, or of the first one of the next batch *)
(* that has any.  While its query is running the nodes may be on their way *)
(* between two orders.                                                     *)
FreeNext ==
  /\ pc = "free" /\ parser.node = NULL
  /\ \E p \in Left :
       /\ \A r \in Left : r = p \/ Behind(p, r)
       /\ parser' = [place |-> p, node |-> ListAt(p).head]
       /\ pc' = IF batches[p[1]][p[2]].stage = "running" THEN "raced" ELSE pc
  /\ UNCHANGED <<stdin, rel_list, batches, end_of_batch, freed, lines>>

FreeEnd ==
  /\ pc = "free" /\ parser.node = NULL /\ Left = {}
  /\ pc' = "end"
  /\ UNCHANGED <<stdin, rel_list, batches, end_of_batch, parser, freed, lines>>

Stopped == pc \in {"end", "aborted", "undefined", "raced"} /\ UNCHANGED vars

Next ==
  \/ ReadRelation \/ EndOfRelations \/ ReadLine \/ EndOfQueries
  \/ Begin \/ Execute \/ EndOfBatches \/ FreeNode \/ FreeNext \/ FreeEnd
  \/ Stopped

Spec == Init /\ [][Next]_vars

-----------------------------------------------------------------------------
AllSatisfy(P(_)) ==
  \A b \in DOMAIN batches : \A q \in DOMAIN batches[b] : P(batches[b][q])

IsList(l) ==
  /\ l.length = Len(l.data) /\ l.length = Len(l.next) /\ l.length = Len(l.prev)
  /\ {l.head, l.tail} \cup {l.next[n] : n \in Nodes(l)} \cup {l.prev[n] : n \in Nodes(l)}
       \subseteq {NULL} \cup Nodes(l)

(* TypeOK: the type of every variable. *)
TypeOK ==
  /\ \A k \in DOMAIN stdin : stdin[k].cut \in BOOLEAN
  /\ end_of_batch \in BOOLEAN
  /\ pc \in {"relations", "queries", "execute", "free", "end", "aborted", "undefined", "raced"}
  /\ IsList(rel_list)
  /\ \A r \in Nodes(rel_list) :
       {rel_list.data[r].rows, rel_list.data[r].cols, rel_list.data[r].mapped}
         \subseteq Nat \cup {Unset}
  /\ AllSatisfy(LAMBDA query :
       /\ query.stage \in {"read", "running", "ordered", "empty"}
       /\ IsList(query.preds)
       /\ Range(query.rels) \subseteq Nodes(rel_list))
  /\ \A f \in freed : f.place \in Places /\ f.node \in Nat
  /\ \A k \in DOMAIN lines : lines[k].whole \in BOOLEAN

DoneLines == {k \in DOMAIN lines : Is(lines[k].text, "done")}

(* The lines after "done". *)
QueryLines ==
  IF DoneLines = {} THEN <<>>
  ELSE [k \in 1 .. Len(lines) - Min(DoneLines) |-> lines[Min(DoneLines) + k].text]

AllWhole == \A k \in DOMAIN lines : lines[k].whole

BATCH_TERM == <<[kind |-> "f", cut |-> FALSE]>>

(* Behind "done" every line that ends with a newline is "F" or a query:    *)
(* there is nothing to say of what a program reads into a string that it   *)
(* has not been given.                                                     *)
Answerable(s) ==
  \A d, a, b \in DOMAIN s :
    s[d].kind = "done" /\ d < a /\ a <= b /\ IsNewline(s[a - 1]) /\ IsNewline(s[b])
        /\ OneLine(s, a, b - 1) =>
      Is(SubSeq(s, a, b - 1), "f") \/ Parsed(SubSeq(s, a, b - 1))

(* BatchesAsWritten: if every line so far was terminated and shorter than  *)
(* the limits, the batches, each with "F" behind it, are the lines that    *)
(* were read, whether or not the last one is "F".  No line was mistaken    *)
(* for another or left a string of query_init unwritten: fgets_crop cuts   *)
(* the last character of whatever fgets has read, and query_init does not  *)
(* look at what sscanf returns.                                            *)
BatchesAsWritten ==
  AllWhole /\ pc \notin {"relations", "aborted"} =>
    LET written == QueryLines
        closed  == FlattenSeq([b \in DOMAIN batches |->
                      Append([q \in DOMAIN batches[b] |-> batches[b][q].text], BATCH_TERM)])
    IN  /\ pc # "undefined"
        /\ closed = IF end_of_batch THEN written ELSE Append(written, BATCH_TERM)

(* RelationsInPlace: the relation a query finds by a number is that of the *)
(* line of that number, also when other relations could not be read: the   *)
(* result of rel_init is lost, but the node it was meant for keeps the     *)
(* numbers of the relations behind it right.                               *)
RelationsInPlace ==
  AllSatisfy(LAMBDA query :
    \A r \in DOMAIN query.rels :
      rel_list.data[query.rels[r]].path = lines[query.text[r].index + 1].text)

(* A size that the header states and data_size cannot hold. *)
Wraps(rel) == rel.rows * rel.cols >= SizeWords

(* OnlyTailUnmapped: the mapping is as long as the data, but begins two    *)
(* words before it.  Whole pages are mapped, so a word of a relation lies  *)
(* outside only if it is one of the last two and the data ends with a page *)
(* or one word before, or if data_size wrapped around: then a short file   *)
(* is "at least as big as (header + rows * cols)" (master.c:786), and what *)
(* is mapped need not be more than a page of it.                           *)
OnlyTailUnmapped ==
  \A n \in Nodes(rel_list) :
    LET rel  == rel_list.data[n]
        size == rel.rows * rel.cols
        outside == {w \in 0 .. size - 1 : w + 2 >= rel.mapped}
    IN  rel.mapped # Unset =>
          \/ Wraps(rel)
          \/ /\ outside \subseteq {size - 2, size - 1}
             /\ outside # {} => size % PageWords \in {0, PageWords - 1}

(* A constant that atoi reads as it is written. *)
Fits(p) == p.op = "=" \/ p.right.key < IntValues \div 2

SamePredicate(p, written) ==
  /\ p.left = written.left /\ p.op = written.op
  /\ p.right.payload = written.right.payload
  /\ Fits(written) => p.right.key = written.right.key

Compares(token) == token.pred.op = "=" /\ token.pred.right.payload # Constant

(* What is not a comparison of two columns goes to the front, the last one *)
(* first; the rest keeps its order.                                        *)
Place(written, k) ==
  Cardinality(IF Compares(written[k])
                THEN {m \in DOMAIN written : m <= k \/ ~Compares(written[m])}
                ELSE {m \in DOMAIN written : m >= k /\ ~Compares(written[m])})

Arranged(line) ==
  LET written == PredsOf(line)
  IN  [m \in DOMAIN written |->
         written[CHOOSE k \in DOMAIN written : Place(written, k) = m]]

(* PredicatesAsWritten: a query has the predicates of its line, each once. *)
(* Those with a constant are in front, where query_exec looks for filters; *)
(* a comparison of two columns of one relation, a filter by is_pred_join   *)
(* but not by is_join, is among the joins and runs as a filter only if no  *)
(* join was written before it.  A constant after < or > that needs more    *)
(* than an int may have changed.                                           *)
PredicatesAsWritten ==
  AllSatisfy(LAMBDA query :
    LET found   == DataOf(query.preds, Chain(query.preds))
        written == Arranged(query.text)
    IN  query.stage \in {"read", "running"} =>
          /\ Len(found) = Len(written)
          /\ \A m \in DOMAIN found : SamePredicate(found[m], written[m].pred))

(* DoublyLinked: until the joins are sorted prev leads back along next and *)
(* the walk ends at the tail, although nodes were added at both ends and   *)
(* prev of the head is not NULL; the sort splits lists by prev.            *)
DoublyLinked ==
  AllSatisfy(LAMBDA query :
    LET l     == query.preds
        chain == Chain(l)
    IN  query.stage \in {"read", "running"} =>
          /\ chain[l.length] = l.tail
          /\ \A m \in 1 .. l.length - 1 : l.prev[chain[m + 1]] = chain[m])

(* JoinsInOrder: the sort leaves the filters that have run in front and    *)
(* behind them the other predicates, each once, in the order of pred_cmp:  *)
(* the chain is the sequence that the sort on sequences gives.             *)
JoinsInOrder ==
  AllSatisfy(LAMBDA query :
    LET before  == LET written == Arranged(query.text)
                   IN  [k \in DOMAIN written |-> pred_init(written[k])]
        filters == Min({m \in DOMAIN before : is_pred_join(before[m])} \cup {Len(before) + 1}) - 1
        joins   == SubSeq(before, filters + 1, Len(before))
        found   == DataOf(query.preds, Chain(query.preds))
    IN  query.stage = "ordered" =>
          /\ found = SubSeq(before, 1, filters) \o nodelist_mergesort(joins)
          /\ \A m \in filters + 1 .. Len(found) - 1 : pred_cmp(found[m], found[m + 1]) <= 0)

(* NodesFreedOnce: while queries begin and end, list_free never comes to a *)
(* node it has freed, and in the end it has freed every node of the lists  *)
(* of relations and predicates: sorting loses none and makes no cycle.     *)
(* The only other end is that main and a query met at a list.              *)
NodesFreedOnce ==
  /\ parser \notin freed
  /\ pc = "end" =>
       freed = UNION {{[place |-> p, node |-> n] : n \in Nodes(ListAt(p))} : p \in Places}
=============================================================================
