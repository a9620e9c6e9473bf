---------------------------- MODULE MCMetricsCompile ----------------------------
(***************************************************************************)
(* Instances of MetricsCompile for TLC.  The value of a sample is its      *)
(* place in the series, so that samples of one time can be told apart.     *)
(***************************************************************************)
EXTENDS MetricsCompile

Samples(times, kinds) ==
  [n \in DOMAIN times |-> [ts |-> times[n], value |-> n, kind |-> kinds[n]]]
Plain(times) == Samples(times, [n \in DOMAIN times |-> "number"])

Label(i, t) == [k \in Keys |-> IF k = "instance" THEN i ELSE t]
Of(name, labels, points) == [name : {name}, labels : labels, points : points]

Full == Plain(<<1, 2, 3, 4>>)
Gap == Plain(<<1, 3, 4>>)
Repeated == Plain(<<3, 1, 3, 4>>)
Later == Plain(<<2, 3, 4, 5, 6>>)     \* three times in common with Full
Sparse == Plain(<<1, 3, 4, 6, 7>>)    \* too little in common with Later
Short == Plain(<<1, 1, 2>>)
WithNaN == Samples(<<1, 2, 3, 4>>, <<"number", "nan", "number", "number">>)
WithText == Samples(<<3, 3, 1, 4>>, <<"number", "text", "number", "number">>)
OnlyText == Samples(<<1>>, <<"text">>)

\* Series told apart by instance or by nothing, of two metrics; Label(1, 0) and
\* Label(0, 1) are written alike although they differ.
MCSeries ==
  Of(0, {Label(1, 1), Label(2, 1)}, {Full, Repeated, Later}) \cup
  Of(0, {Label(1, 1)}, {Short, OnlyText, Gap}) \cup
  Of(0, {Label(0, 1), Label(1, 0)}, {Sparse}) \cup
  Of(0, {Label(2, 1)}, {WithNaN, WithText}) \cup
  Of(7, {Label(1, 1), Label(2, 1)}, {Full})

MCQueries ==
  [metric : {0}, expr : {0, 8}, filtered : {FALSE}, interest : {{}}] \cup
  [metric : {9}, expr : {8}, filtered : {TRUE}, interest : {{"instance"}}]
===============================================================================
