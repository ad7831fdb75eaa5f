------------------------------ MODULE MCConsole ------------------------------
(* The instances on which TLC checks the units of the console.               *)
EXTENDS Console

(* Four files and a content of one line each, or of two of the first three;  *)
(* a line may match two patterns, and one file is another language's.        *)
Path(d, s, e) == [dir |-> d, stem |-> s, ext |-> e]
Branch == {Path(<<>>, "a", ".js"), Path(<<>>, "b", ".tsx"),
           Path(<<"lib">>, "index", ".js"), Path(<<>>, "u", ".py")}
Raw(s, e) == [kind |-> "relative", up |-> 1, dir |-> <<>>, stem |-> s, ext |-> e]
Lines == {{<<"static", Raw("a", "")>>, <<"dynamic", Raw("b", "")>>},
          {<<"require", Raw("b", ".tsx")>>, <<"import", Raw("u", "")>>},
          {<<"re-export", Raw("lib", "")>>, <<"from", Raw("gone", "")>>}}
LastLine == {<<"dynamic", Raw("u", ".py")>>, <<"from", Raw("a", ".js")>>}
Contents == {s \in SUBSET Lines : Cardinality(s) <= 2} \cup {{LastLine}}

(* Two commits that share a text, one of which has it twice; a batch that is *)
(* full and one that is not.                                                 *)
CommitOfAttempt == <<"c1", "c2">>
TextsOf == [c \in {"c1", "c2"} |-> IF c = "c1" THEN <<"x", "y", "x">> ELSE <<"y", "z">>]

(* Two graphs with one and two cycles, an isolated module, and an import of  *)
(* a file that is no node.                                                   *)
DirOf == [f \in {"pages/a", "utils/b", "utils/c", "docs/d"} |->
            CASE f = "pages/a" -> "pages" [] f = "docs/d" -> "docs" [] OTHER -> "utils"]
OneCycle == [files |-> {"pages/a", "utils/b", "docs/d"},
             edges |-> {<<"pages/a", "utils/b">>, <<"utils/b", "pages/a">>,
                        <<"pages/a", "utils/c">>},
             cycles |-> <<<<"pages/a", "utils/b", "pages/a">>>>]
TwoCycles == [files |-> {"pages/a", "utils/b", "utils/c"},
              edges |-> {<<"utils/c", "utils/b">>, <<"utils/b", "utils/c">>,
                         <<"utils/c", "pages/a">>, <<"pages/a", "utils/c">>},
              cycles |-> <<<<"utils/b", "utils/c", "utils/b">>,
                           <<"utils/c", "pages/a", "utils/c">>>>]
Empty == [files |-> {}, edges |-> {}, cycles |-> <<>>]
Answers == {Empty, OneCycle, TwoCycles}

(* Commits on and around the boundaries of buckets, halves and ranges, one   *)
(* without statistics.                                                       *)
F1 == <<"src", "a">>
F2 == <<"src", "b">>
F3 == <<"docs", "d">>
Commit(i, at, who, files, adds, dels) ==
  [id |-> i, at |-> at, author |-> who, files |-> files, adds |-> adds, dels |-> dels]
Commits == {Commit(1, 0, "x", {F1}, 10, 60), Commit(2, 18, "y", {F1, F2}, 5, 0),
            Commit(3, 142, "x", {F1, F3}, -1, -1), Commit(4, 172, "y", {F2, F3}, 7, 2)}
InsightsOf == [f \in {F1, F2, F3} |-> IF f = F1 THEN 1 ELSE IF f = F2 THEN 2 ELSE 0]
==============================================================================
