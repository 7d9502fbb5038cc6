---- MODULE MCNotebooks ----
(* A small instance of Notebooks for TLC: the cells of the example notebooks, and *)
(* cells with a marker missing, doubled, indented or in another order. *)
EXTENDS Notebooks

Code(lines) == [type |-> "code", lines |-> lines]

Block == <<"begin", "solution", "solution", "end">>

Hidden == <<"hiddenBegin", "hidden", "hiddenEnd">>

SomeCells == {
    Code(<<"visible">>),
    [type |-> "markdown", lines |-> <<"visible">>],
    Code(<<"def">> \o Block \o <<"visible">>),
    Code(<<"def">> \o Block \o Block),
    Code(<<"def", "begin", "solution">>),
    Code(<<"end", "def", "begin", "solution">>),
    Code(<<"def", "end", "begin", "solution">>),
    Code(<<"tests", "visible">>),
    Code(<<"tests", "visible">> \o Hidden),
    Code(<<"tests">> \o Hidden \o <<"visible", "visible">>),
    Code(<<"tests", "indented", "hidden", "hiddenEnd">>),
    Code(Hidden \o <<"tests", "visible">>),
    Code(<<"undotted", "visible">> \o Hidden),
    Code(<<"def">> \o Block \o <<"tests">> \o Hidden),
    Code(<<"tests">> \o Hidden \o <<"visible", "def">> \o Block),
    Code(<<"tests">> \o Hidden \o Hidden),
    Code(<<"hiddenBegin", "tests", "hidden", "hiddenEnd">>)}
====
