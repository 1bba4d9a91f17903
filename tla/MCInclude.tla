------------------------------ MODULE MCInclude ------------------------------
(***************************************************************************)
(* Source trees for IncludeAnalyzer: two sources and their headers in two  *)
(* directories.                                                            *)
(***************************************************************************)
EXTENDS IncludeAnalyzer

Src(n) == [dir |-> "src", name |-> n]
Inc(n) == [dir |-> "inc", name |-> n]
D(v) == [symbol |-> "S", value |-> v]

Plain == [quote |-> <<>>, angle |-> <<>>, expr |-> <<>>, next |-> <<>>,
          define |-> {}, absolute |-> FALSE]
Quote(n) == [Plain EXCEPT !.quote = <<n>>]
Angle(n) == [Plain EXCEPT !.angle = <<n>>]
NextTo(n) == [Plain EXCEPT !.next = <<n>>]
Computed == [Plain EXCEPT !.expr = <<"S">>]

\* Stands for a file that is not there.
Absent == [Plain EXCEPT !.absolute = TRUE]

Tree(a, b, h, i, g) ==
    [f \in {Src("a"), Src("b"), Inc("h"), Src("g"), Inc("x"), Inc("y")}
           \cup (IF h = Absent THEN {} ELSE {Src("h")}) |->
        CASE f = Src("a") -> a [] f = Src("b") -> b [] f = Src("h") -> h
          [] f = Inc("h") -> i [] f = Src("g") -> g [] OTHER -> Plain]

\* A header with an absolute include.
AbsoluteTrees ==
    {Tree(Quote("h"), b, Quote("g"), Plain,
          [Angle("x") EXCEPT !.absolute = TRUE, !.define = {D("y")}]) :
        b \in {Quote("g"), Angle("h")}}

\* A computed include whose macro may be an absolute path.
AbsoluteValueTree ==
    Tree(Quote("h"), [Quote("h") EXCEPT !.define = {D("/g")}], Computed, Plain, Plain)

\* A source that is also given with -include, and included after a computed include.
AgainTree ==
    Tree(Quote("h"), [Plain EXCEPT !.define = {D("y")}],
         [Plain EXCEPT !.quote = <<"g", "b">>], Plain, Computed)

Bs == {Quote("g"), [Quote("g") EXCEPT !.expr = <<"S">>],
       [Angle("h") EXCEPT !.define = {D("y")}]}
Is == {[Quote("h") EXCEPT !.angle = <<"g">>], Computed}

Trees ==
    {Tree(Quote("h"), b, h, i, g) :
        b \in Bs, i \in Is,
        h \in {Absent, Quote("g"), NextTo("h"), [Quote("g") EXCEPT !.expr = <<"S">>]},
        g \in {Plain, Computed, Quote("h")}}
    \cup {Tree(Angle("h"), b, Quote("g"), i, Computed) : b \in Bs, i \in Is}
    \cup AbsoluteTrees \cup {AbsoluteValueTree, AgainTree}

\* Two sources that include one header, which includes another.
SharedTrees == {Tree(Quote("h"), Quote("h"), Quote("g"), Plain, Angle("x"))}

MCCommands ==
    {[roots |-> r, d_opts |-> {}] :
        r \in {<<Src("a")>>, <<Src("b")>>, <<Src("b"), Src("a")>>}}
    \cup {[roots |-> <<Src("a")>>, d_opts |-> {D("x")}]}

MCQuoteDirs == <<"src", "inc">>
MCAngleDirs == <<"inc">>
=============================================================================
