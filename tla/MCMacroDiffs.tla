---------------------------- MODULE MCMacroDiffs ----------------------------
(***************************************************************************)
(* Small programs on which TLC checks MacroDiffs.                          *)
(***************************************************************************)
EXTENDS MacroDiffs, SequencesExt

T(id) == [id |-> id, args |-> <<>>, glue |-> FALSE, code |-> <<>>]
C(id, args) == [T(id) EXCEPT !.args = args]
G(id) == [T(id) EXCEPT !.glue = TRUE]
A(code, args) == [C(Asm, args) EXCEPT !.code = code]
\* The arguments come again as identifiers.
Toks(toks) ==
    FlattenSeq([k \in DOMAIN toks |->
        <<toks[k]>> \o IF toks[k].args = <<"">> THEN <<>> ELSE [n \in DOMAIN toks[k].args |-> T(toks[k].args[n])]])
Body(toks) == [toks |-> Toks(toks), ends |-> FALSE]
EndsIn(toks) == [toks |-> Toks(toks), ends |-> TRUE]

L(toks) == [toks |-> Toks(toks), blank |-> FALSE, net |-> 0, ret |-> FALSE, semi |-> TRUE, ends |-> FALSE]
Blank == [L(<<>>) EXCEPT !.blank = TRUE, !.semi = FALSE]
Open(toks, n) == [L(toks) EXCEPT !.net = n, !.semi = FALSE]
Close(toks, n) == [L(toks) EXCEPT !.net = -n]
Ret(toks) == [L(toks) EXCEPT !.ret = TRUE, !.semi = FALSE]
SourceFile(lines) ==
    [lines |-> [n \in DOMAIN lines |-> [f \in {"blank", "net", "ret", "semi", "ends"} |-> lines[n][f]]],
     toks |-> FlattenSeq([n \in DOMAIN lines |-> lines[n].toks]),
     lineOf |-> FlattenSeq([n \in DOMAIN lines |-> [k \in DOMAIN lines[n].toks |-> n]])]

D(name, params, body) == [name |-> name, define |-> TRUE, params |-> params, body |-> body]
Undef(name) == [name |-> name, define |-> FALSE, params |-> <<>>, body |-> Body(<<>>)]
MacroFile(nodes, includes) == [nodes |-> nodes, includes |-> includes]

\* Two units: the main file of each may include a header.
Main(u) == <<u, "main">>
Header(u) == <<u, "header">>
AllUnits == {"left", "right"}
AllMacroFiles == {Main(u) : u \in AllUnits} \cup {Header(u) : u \in AllUnits}
AllLocations == {"l1", "l2", "r1", "r2"}
UnitOf(l) == IF l \in {"l1", "l2"} THEN "left" ELSE "right"

\* The lines of the locations, the files and the macros of both sides.
Case(at, files, main, header, calls, codes) ==
    [files |-> files,
     loc |-> [l \in AllLocations |-> [scope |-> at[l] > 0, unit |-> UnitOf(l), file |-> UnitOf(l), line |-> at[l]]],
     macros |-> [u \in AllUnits |-> <<Main(u)>>],
     macroFiles |-> [mf \in AllMacroFiles |->
                        IF mf[2] = "main" THEN MacroFile(main[mf[1]], <<Header(mf[1])>>) ELSE MacroFile(header[mf[1]], <<>>)],
     left |-> {"l1", "l2"}, right |-> {"r1", "r2"}, calls |-> calls, codes |-> codes]
At(l1, l2, r1, r2) == [l1 |-> l1, l2 |-> l2, r1 |-> r1, r2 |-> r2]
Sides(a, b) == [left |-> a, right |-> b]
Same(a) == Sides(a, a)

\* M uses K, which calls f and has changed; the line after it only calls f.
Nested ==
    Case(At(2, 3, 2, 3),
         Same(SourceFile(<<L(<<>>), L(<<C("M", <<"v">>)>>), L(<<C("f", <<"v">>)>>)>>)),
         Same(<<D("M", <<"p">>, Body(<<C("K", <<"p">>)>>))>>),
         Sides(<<D("K", <<"q">>, Body(<<C("f", <<"q">>)>>))>>, <<D("K", <<"q">>, Body(<<C("f", <<"q">>), T("w")>>))>>),
         {"f"}, {})

\* Macros that use each other, a function that has become a macro, and differing paths to K.
Circles ==
    Case(At(2, 3, 3, 2),
         Sides(SourceFile(<<L(<<>>), L(<<C("f", <<"K">>), T("K")>>), L(<<T("M")>>)>>),
               SourceFile(<<L(<<>>), L(<<T("w")>>), L(<<C("f", <<"K">>), T("K")>>)>>)),
         Sides(<<D("M", <<>>, Body(<<T("K")>>)), D("K", <<>>, Body(<<T("M")>>))>>,
               <<D("M", <<>>, Body(<<T("w")>>)), D("f", <<"p">>, EndsIn(<<T("p"), T("K")>>))>>),
         Sides(<<D("K", <<>>, Body(<<T("v")>>))>>, <<D("K", <<>>, Body(<<T("M")>>))>>),
         {"f"}, {})

\* Statements of several lines, blank lines, a return without its end, and an instruction
\* without a place in the source.
StatementLines ==
    Case(At(3, 7, 5, 0),
         Same(SourceFile(<<Blank, L(<<T("K")>>), Open(<<C("f", <<"v">>), T("M")>>, 1), Close(<<T("v")>>, 1), Blank,
                           Ret(<<T("w")>>), L(<<T("K")>>), L(<<T("M")>>)>>)),
         Same(<<D("M", <<>>, Body(<<>>))>>), Sides(<<D("K", <<>>, Body(<<T("v")>>))>>, <<D("K", <<>>, EndsIn(<<T("M")>>))>>),
         {"f"}, {})
Return == [StatementLines EXCEPT !.loc["r1"].line = 6, !.loc["l1"].line = 4]

\* Identifiers that ## makes, arguments that are parameters, and a last identifier of one character.
Joined(params, body) ==
    LET K(args) == C("K", IF params = <<"">> THEN <<"">> ELSE SubSeq(args, 1, Len(params)))
    IN
    Case(At(2, 2, 2, 3),
         Same(SourceFile(<<L(<<>>), L(<<C("M", <<"q", "v">>)>>), L(<<K(<<"v", "v">>)>>)>>)),
         Same(<<D("M", <<"p", "q">>, Body(<<K(<<"p", "q">>)>>)), D("K", params, body)>>),
         Sides(<<D("v_x", <<>>, Body(<<T("w")>>)), D("vv_x", <<>>, Body(<<T("v_x")>>)), D("i", <<>>, Body(<<>>))>>,
               <<D("v_x", <<>>, EndsIn(<<T("i")>>)), D("vv_x", <<>>, Body(<<>>)), D("i", <<>>, Body(<<>>))>>),
         {}, {})
JoinedIn(body) == Joined(<<"p", "q">>, body)
\* Several parameters in one identifier, in either order, or the same one twice; names that end
\* in a parameter: alone, and one or two characters behind one; and no parameters.
Joins == {JoinedIn(Body(<<G("p"), T("_x"), T("w")>>)), JoinedIn(EndsIn(<<G("w"), T("_x"), T("i")>>)),
          JoinedIn(Body(<<G("p"), G("q"), T("_x")>>)), JoinedIn(Body(<<G("q"), G("p"), T("_x")>>)),
          Joined(<<"p">>, Body(<<G("p"), G("p"), T("_x")>>)), JoinedIn(Body(<<G("xp"), T("_x")>>)),
          JoinedIn(Body(<<G("p"), G("xp"), T("_x")>>)), JoinedIn(Body(<<G("p"), G("xxp"), T("_x")>>)),
          Joined(<<"p">>, Body(<<G("p"), G("xp"), T("v_x")>>)),
          Joined(<<"">>, Body(<<G("v"), T("_x"), T("v_x")>>))}

\* The header's definition is removed and made anew.
Again ==
    Case(At(2, 3, 2, 3),
         Same(SourceFile(<<L(<<>>), L(<<T("K")>>), L(<<T("w")>>)>>)),
         Same(<<Undef("K"), D("K", <<>>, Body(<<T("w")>>))>>),
         Same(<<D("K", <<>>, Body(<<T("v")>>))>>), {}, {})

\* Assembly in macros: alike at the beginning, alike in all, and without a text.
Assembly(one, other) ==
    Case(At(2, 3, 3, 0),
         Same(SourceFile(<<L(<<>>), L(<<T("M"), T("K")>>), L(<<T("M"), A(one, <<"w">>)>>)>>)),
         Same(<<D("M", <<>>, Body(<<A(other, <<"v">>)>>)), D("K", <<>>, Body(<<A(one, <<"p">>)>>))>>),
         Same(<<>>), {}, {<<1>>, <<1, 2>>, <<1, 1>>, <<>>})

AllPrograms ==
    {Nested, Circles, StatementLines, Return, Again} \cup Joins
        \cup {Assembly(codes[1], codes[2]) : codes \in {<<1>>, <<1, 2>>, <<1, 1>>, <<>>} \X {<<1>>, <<1, 2>>}}

AllNames == {"M", "K", "f", "v", "w", "p", "q", "i", "_x", "v_x", "vv_x", "xp", "xxp",
             "vp", "vq", "vxp", "vxxp", "other", "", Asm}
OneCharacter == {"M", "K", "f", "v", "w", "p", "q", "i"}
\* Where v is what others are joined to.
Joining ==
    [a \in AllNames |-> [b \in AllNames |->
        IF a = "" THEN b
        ELSE IF a # "v" THEN "other"
        ELSE CASE b = "_x" -> "v_x" [] b = "v_x" -> "vv_x" [] b = "p" -> "vp" [] b = "q" -> "vq"
               [] b = "xp" -> "vxp" [] b = "xxp" -> "vxxp" [] b = "" -> "v" [] OTHER -> "other"]]
\* The parameters, and other names, that names end in; at the end of each is the empty one.
Placing ==
    [n \in AllNames |-> [p \in AllNames |->
        CASE p = n -> 0
          [] p = "" -> 9
          [] <<n, p>> \in {<<"v_x", "_x">>, <<"vv_x", "v_x">>, <<"xp", "p">>, <<"xxp", "xp">>, <<"vp", "p">>,
                           <<"vq", "q">>, <<"vxp", "xp">>, <<"vxxp", "xxp">>} -> 1
          [] <<n, p>> \in {<<"vv_x", "_x">>, <<"xxp", "p">>, <<"vxp", "p">>, <<"vxxp", "xp">>} -> 2
          [] <<n, p>> = <<"vxxp", "p">> -> 3
          [] OTHER -> -1]]
=============================================================================
