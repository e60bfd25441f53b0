----------------------------- MODULE MCQueryInput -----------------------------
EXTENDS QueryInput

(* Tokens *)
Plain(kind) == [kind |-> kind, cut |-> FALSE]
NL   == Plain("nl")
Done == Plain("done")
F    == Plain("f")
Bar  == Plain("bar")
Path(name) == [kind |-> "path", cut |-> FALSE, name |-> name]
Rel(index) == [kind |-> "rel", cut |-> FALSE, index |-> index]
Proj(r, a) == [kind |-> "proj", cut |-> FALSE, column |-> [key |-> r, payload |-> a]]
Pred(left, op, right) ==
  [kind |-> "pred", cut |-> FALSE, pred |-> [left |-> left, op |-> op, right |-> right]]
End(r, a) == [key |-> r, payload |-> a]

(* Two filters, one with a constant too large for an int, three joins and  *)
(* the comparison of two columns of a relation.                            *)
Written ==
  {Pred(End(0, 0), "<", End(5, Constant)), Pred(End(1, 0), "=", End(5, Constant)),
   Pred(End(0, 1), ">", End(1, Constant)),
   Pred(End(1, 0), "=", End(0, 0)), Pred(End(0, 0), "=", End(2, 1)),
   Pred(End(2, 0), "=", End(1, 1)), Pred(End(0, 0), "=", End(0, 1))}

Query(preds) ==
  <<Rel(1), Rel(0), Bar>> \o preds \o <<Bar, Proj(0, 0), Proj(1, 1)>>

Short == Query(<<Pred(End(1, 0), "=", End(0, 0))>>)

Long(n) == Query([k \in 1 .. n |-> Pred(End(0, 1), ">", End(1, Constant))])

Unknown == <<Rel(2), Bar, Pred(End(0, 1), ">", End(1, Constant)), Bar, Proj(0, 0)>>

(* Files of every length: one that is missing, some that are too short,    *)
(* one without rows, data that ends before, with and after a page, a size  *)
(* that wraps around to one word and one whose sum with the header wraps   *)
(* around to one word: no file is too short for them.                      *)
MCFiles ==
  [p \in {<<Path(name)>> : name \in {"none", "one", "torn", "empty", "wide", "full", "p2", "p3", "p4", "p5"}} |->
     CASE p[1].name = "none"  -> [words |-> 0, rows |-> 0, cols |-> 0]
       [] p[1].name = "one"   -> [words |-> 1, rows |-> 2, cols |-> 2]
       [] p[1].name = "torn"  -> [words |-> 5, rows |-> 2, cols |-> 2]
       [] p[1].name = "empty" -> [words |-> 2, rows |-> 0, cols |-> 2]
       [] p[1].name = "wide"  -> [words |-> 3, rows |-> SizeWords + 1, cols |-> 1]
       [] p[1].name = "full"  -> [words |-> 3, rows |-> SizeWords - 1, cols |-> 1]
       [] p[1].name = "p2"    -> [words |-> 8, rows |-> 3, cols |-> 2]
       [] p[1].name = "p3"    -> [words |-> 9, rows |-> 7, cols |-> 1]
       [] p[1].name = "p4"    -> [words |-> 10, rows |-> 2, cols |-> 4]
       [] p[1].name = "p5"    -> [words |-> 11, rows |-> 3, cols |-> 3]]

Lined(s) == FlattenSeq([k \in DOMAIN s |-> s[k] \o <<NL>>])

Two == Lined(<< <<Path("p2")>>, <<Path("p4")>>, <<Done>> >>)

Compared ==
  {Pred(End(1, 0), "=", End(0, 0)), Pred(End(0, 0), "=", End(2, 1)),
   Pred(End(2, 0), "=", End(1, 1)), Pred(End(0, 0), "=", End(0, 1)),
   Pred(End(1, 1), "=", End(0, 0))}

Orders(tokens) ==
  {p \in [1 .. Cardinality(tokens) -> tokens] : Range(p) = tokens}

(* One query: up to three predicates in any order and as often as one      *)
(* likes, five different ones, five comparisons of columns.                *)
OneQuery ==
  {Two \o Lined(<<Query(preds), <<F>> >>) :
     preds \in UNION {[1 .. n -> Written] : n \in 1 .. 3}
                 \cup UNION {Orders(five) :
                         five \in {Compared} \cup
                           {s \in SUBSET Written : Cardinality(s) = 5}}}

(* Batches with one, two and no queries, with and without a last "F". *)
Batched ==
  {Two \o Lined(s) :
     s \in {<<Short, <<F>>, Short, Short, <<F>> >>, <<Short, Short>>,
            <<Short, <<F>>, <<F>>, Short, <<F>> >>, << <<F>>, Short>>, <<>>, << <<F>> >>}}

(* Relations that cannot be read, in front of others. *)
Related ==
  {Lined(<< <<Path(a)>>, <<Path(b)>>, <<Path("p2")>>, <<Done>>, Short, <<F>> >>) :
     a \in {"none", "one", "torn", "empty", "missing", "wide", "full", "p2", "p3", "p4", "p5"},
     b \in {"p2", "p3", "p5"}}

(* Lines that fgets does not read whole: too long by one, by two or by     *)
(* more, or the last line without its newline; a relation that is missing. *)
Damaged ==
  {Two \o Lined(<<Short>>) \o s :
     s \in {Short, <<F>>, Short \o <<NL, F>>, Lined(<<Long(6), Short, <<F>> >>),
            Lined(<<Long(7), <<F>> >>), Lined(<<Long(9), Short>>), Lined(<<Unknown>>)}}
  \cup {Lined(<< <<Path("p2")>>, <<Path("a"), Path("b")>>, <<Done>>, Short>>),
        Lined(<< <<Path("p2")>>, <<Path("p4")>> >>) \o <<Done>>,
        Lined(<< <<Path("p2")>>, <<Path("p4")>> >>)}

MCInputs == OneQuery \cup Batched \cup Related \cup Damaged

ASSUME LinesAnswerable == \A s \in MCInputs : Answerable(s)
=============================================================================
