----------------------------- MODULE MacroDiffs -----------------------------
(***************************************************************************)
(* SourceCodeUtils.cpp: what the comparison of functions looks up in the C *)
(* source of an instruction: the macros that its line uses, with their     *)
(* definitions from the debug information.  One MacroDiffAnalysis serves   *)
(* all functions that one run of SimpLL compares, and keeps what it found  *)
(* for each compilation unit and for each debug location.                  *)
(*                                                                         *)
(* A text (a statement, or the body of a macro) is                         *)
(*   toks  its identifiers in order: [id, args, glue, code]; args are the  *)
(*         identifiers in brackets after it (which come again as toks),    *)
(*         glue tells that ## is between it and the next one, without      *)
(*         spaces, and code is the text of an "asm";                       *)
(*   ends  whether nothing comes after the last identifier.                *)
(* A program has                                                           *)
(*   files       lines [blank, net, ret, semi, ends], net being the number *)
(*               of opening less that of closing brackets, toks, and for   *)
(*               each of toks the line it is on;                           *)
(*   loc         debug locations [scope, unit, file, line];                *)
(*   macros      for each compilation unit its DIMacroFiles;               *)
(*   macroFiles  for each DIMacroFile [nodes, includes]: a node is         *)
(*               [name, define, params, body], where ~define is an #undef; *)
(*   left, right the locations of the compared functions;                  *)
(*   calls       names of functions; codes  texts of inline assembly.      *)
(***************************************************************************)
EXTENDS Integers, Sequences, FiniteSets, FiniteSetsExt

CONSTANTS
    Names,       \* identifiers
    Short,       \* those of a single character
    Paste,       \* Paste[a][b] is a ## b
    Place,       \* Place[n][p]: how many characters n has before p at its end, -1 if p is not there
    Locations, Units, MacroFiles,
    Programs

NoName == "no name"
Characters == Nat \ {0}     \* 0 is read after the end
Tokens(ids) == [id : ids, args : Seq(Names), glue : BOOLEAN, code : Seq(Characters)]
Texts(ids) == [toks : Seq(Tokens(ids)), ends : BOOLEAN]
Definitions == [name : Names, define : BOOLEAN, params : Seq(Names), body : Texts(Names)]
Uses == [name : Names, parent : Nat, args : Seq(Names)]
Lines == [blank : BOOLEAN, net : Int, ret : BOOLEAN, semi : BOOLEAN, ends : BOOLEAN]

IsProgram(p) ==
    /\ \A f \in DOMAIN p.files : /\ p.files[f].lines \in Seq(Lines)
                                 /\ p.files[f].toks \in Seq(Tokens(Names))
                                 /\ p.files[f].lineOf \in [DOMAIN p.files[f].toks -> Nat]
    /\ p.loc \in [Locations -> [scope : BOOLEAN, unit : Units, file : DOMAIN p.files, line : Nat]]
    /\ p.macros \in [Units -> Seq(MacroFiles)]
    /\ p.macroFiles \in [MacroFiles -> [nodes : Seq(Definitions), includes : Seq(MacroFiles)]]
    /\ p.left \subseteq Locations /\ p.right \subseteq Locations
    /\ p.calls \subseteq Names /\ p.codes \subseteq Seq(Characters)

ASSUME NamesAssumption == NoName \notin Names /\ Paste \in [Names -> [Names -> Names]]
ASSUME PlaceAssumption == /\ Place \in [Names -> [Names -> Nat \cup {-1}]]
                          /\ \A n \in Names : Place[n][n] = 0
ASSUME ProgramsAssumption == Locations # {} /\ \A p \in Programs : IsProgram(p)

VARIABLES
    program,
    known,       \* the units whose definitions are collected: the keys of MacroDefMaps
    defs,        \* the definitions of each unit: the values of MacroDefMaps
    cached,      \* the locations that have been searched: the keys of MacroUsesAtLocation
    uses,        \* the uses found for each location, in the order they are found
    query, off,  \* what is asked, and the offset of the line that is searched
    todo,        \* the locations whose uses are still to be got
    pc,
    macroFileStack,
    toExpand,    \* uses whose bodies are to be searched
    scan,        \* the text that is searched, where it comes from, and how far it is done
    answer

memory == <<known, defs, cached, uses>>
search == <<macroFileStack, toExpand, scan>>
vars == <<program, memory, query, off, todo, pc, search, answer>>

NoDef == [name |-> NoName]
NoText == [toks |-> <<>>, ends |-> FALSE]
NoScan == [parent |-> 0, text |-> NoText, at |-> 1]
NoQuery == [kind |-> "none", l |-> CHOOSE l \in Locations : TRUE, r |-> CHOOSE l \in Locations : TRUE,
            names |-> <<NoName, NoName>>, code |-> <<>>]
NoAnswer == [macros |-> {}, call |-> {}, args |-> <<>>]

-----------------------------------------------------------------------------
(***************************************************************************)
(* Statements.                                                             *)
(***************************************************************************)
Loc(l) == program.loc[l]
File(l) == program.files[Loc(l).file]

\* The iterator skips blank lines, and stands at the first other one from the beginning:
\* that one is never read.
LinesRead(file) == LET some == {n \in DOMAIN file.lines : ~file.lines[n].blank}
                   IN  some \ {n \in some : \A m \in some : n <= m}
From(file, n) == {m \in LinesRead(file) : m >= n}
Net(file, b, e) == MapThenSumSet(LAMBDA n : file.lines[n].net, {n \in LinesRead(file) : b <= n /\ n <= e})

\* A line that closes more brackets than it opens belongs to the one before it.
FirstLine(file, n) ==
    LET own == {m \in LinesRead(file) : m <= n /\ file.lines[m].net >= 0}
    IN  IF own = {} THEN Min(LinesRead(file)) ELSE Max(own)

\* Up to a line with property P, or to the end of the file.
UpTo(file, n, P(_)) ==
    LET ends == {m \in From(file, n) : P(m)} IN IF ends = {} THEN Max(LinesRead(file)) ELSE Min(ends)
LastLine(file, n) ==
    LET b == FirstLine(file, n)
        e == UpTo(file, n, LAMBDA m : Net(file, b, m) <= 0)
        HasSemicolon(m) == \E k \in From(file, b) : k <= m /\ file.lines[k].semi
    IN  IF file.lines[b].ret THEN UpTo(file, e, HasSemicolon) ELSE e

\* The identifiers of the lines before and up to a line.
Before(file, n) == Cardinality({k \in 1 .. Len(file.toks) : file.lineOf[k] < n})
UpToLine(file, n) == Cardinality({k \in 1 .. Len(file.toks) : file.lineOf[k] <= n})

Found(l, o) == Loc(l).scope /\ Loc(l).line + o \in LinesRead(File(l))
StatementAt(file, n) ==
    IF n \notin LinesRead(file) THEN NoText
    ELSE [toks |-> SubSeq(file.toks, Before(file, FirstLine(file, n)) + 1, UpToLine(file, LastLine(file, n))),
          ends |-> LastLine(file, n) \in {m \in LinesRead(file) : file.lines[m].ends}]

\* For each place, so that TLC evaluates it once.
Statements ==
    [p \in Programs |-> [l \in Locations |-> [o \in {0, -1} |->
        IF p.loc[l].scope THEN StatementAt(p.files[p.loc[l].file], p.loc[l].line + o) ELSE NoText]]]
extractLineFromLocation(l, o) == Statements[program][l][o]

-----------------------------------------------------------------------------
(***************************************************************************)
(* Uses of macros.                                                         *)
(***************************************************************************)
Unit(l) == Loc(l).unit
Def(l, i) == defs[Unit(l)][uses[l][i].name]
NamesAt(l) == {uses[l][i].name : i \in DOMAIN uses[l]}

\* Where p ## is found in the text of the k-th identifier and what follows it.
PlaceOf(p, toks, k) == IF k < Len(toks) /\ toks[k].glue THEN Place[toks[k].id][p] ELSE -1

\* p ## becomes a, which is then one identifier with what comes after; the search goes on two
\* characters behind a.  When p is only a part of an identifier, the search goes on where it was
\* found, for ever: that is what Stuck stands for.
Stuck == [id |-> NoName, args |-> <<>>, glue |-> FALSE, code |-> <<>>]
JoinBehindArgument(p, a, toks) ==                                   \* mutant: right behind a
    LET Rest[k \in 1 .. Len(toks) + 2] ==
            IF k > Len(toks) THEN <<>>
            ELSE IF PlaceOf(p, toks, k) = -1 THEN <<toks[k]>> \o Rest[k + 1]
            ELSE IF PlaceOf(p, toks, k) > 0 \/ PlaceOf(p, toks, k + 1) >= 0 THEN <<Stuck>>
            ELSE <<[toks[k + 1] EXCEPT !.id = Paste[a][@]]>> \o Rest[k + 2]
    IN  Rest[1]
Join(p, a, toks) ==
    LET Rest[k \in 1 .. Len(toks) + 2] ==
            IF k > Len(toks) THEN <<>>
            ELSE IF PlaceOf(p, toks, k) = -1 THEN <<toks[k]>> \o Rest[k + 1]
            ELSE IF PlaceOf(p, toks, k) > 0 \/ PlaceOf(p, toks, k + 1) >= 2 THEN <<Stuck>>
            ELSE <<[toks[k + 1] EXCEPT !.id = Paste[a][@]]>> \o Rest[k + 2]
    IN  Rest[1]
IsStuck(toks) == \E k \in DOMAIN toks : toks[k].id = NoName

\* The pairs of parameters and arguments, one after the other.
expandCompositeMacroNames(params, args, text) ==
    LET Joined[n \in 0 .. Len(params)] ==
            IF n = 0 THEN text.toks
            ELSE IF n \in DOMAIN args /\ ~IsStuck(Joined[n - 1]) THEN Join(params[n], args[n], Joined[n - 1])
            ELSE Joined[n - 1]
    IN  [text EXCEPT !.toks = Joined[Len(params)]]

\* The pairs of parameters and arguments are replaced one after the other.
expandMacros(params, args, n) ==
    LET Replaced[k \in 0 .. Len(params)] ==
            IF k = 0 THEN n
            ELSE IF k \in DOMAIN args /\ params[k] = Replaced[k - 1] THEN args[k] ELSE Replaced[k - 1]
    IN  Replaced[Len(params)]

\* The text of the body of a use, as it is searched, and of the argument of a macro in it.
BodyOf(l, i) == expandCompositeMacroNames(Def(l, i).params, uses[l][i].args, Def(l, i).body)
ArgsIn(l, parent, tok) ==
    IF parent = 0 \/ Def(l, parent).params = <<>> THEN tok.args
    ELSE [k \in DOMAIN tok.args |-> expandMacros(Def(l, parent).params, uses[l][parent].args, tok.args[k])]

\* An identifier is looked up when its end is found.  That of a single last character is not.
IsLookedUp(text, k) == ~(k = Len(text.toks) /\ text.ends /\ text.toks[k].id \in Short)

-----------------------------------------------------------------------------
Init ==
    /\ program \in Programs
    /\ known = {} /\ defs = [u \in Units |-> [n \in Names |-> NoDef]]
    /\ cached = {} /\ uses = [l \in Locations |-> <<>>]
    /\ query = NoQuery /\ off = 0 /\ todo = <<>> /\ pc = "idle"
    /\ macroFileStack = <<>> /\ toExpand = <<>> /\ scan = NoScan
    /\ answer = NoAnswer

\* findDifference looks for macros that differ at two instructions, and for a function that has
\* become a macro; n and m are the functions that are called, if any.
FindDifference(l, r, n, m) ==
    /\ pc = "idle" /\ l \in program.left /\ r \in program.right
    /\ query' = [kind |-> "difference", l |-> l, r |-> r, names |-> <<n, m>>, code |-> <<>>]
    /\ off' = 0 /\ todo' = <<l, r>> /\ pc' = "get" /\ answer' = NoAnswer
    /\ UNCHANGED <<program, memory, search>>

\* The arguments of a call, or of inline assembly, are looked for in the source.
FindArguments(l, n, code) ==
    /\ pc = "idle" /\ l \in program.left \cup program.right
    /\ query' = [kind |-> IF n = NoName THEN "asm" ELSE "call", l |-> l, r |-> l, names |-> <<n, n>>, code |-> code]
    /\ off' = 0 /\ answer' = NoAnswer
    /\ IF Found(l, 0) /\ (n # NoName \/ code # <<>>)
       THEN todo' = <<l>> /\ pc' = "get"
       ELSE todo' = <<>> /\ pc' = "idle"
    /\ UNCHANGED <<program, memory, search>>

\* getAllMacroUsesAtLocation.
Getting(l) == pc = "get" /\ todo # <<>> /\ l = Head(todo)
MustSearchOnce(l) == Loc(l).scope /\ l \notin cached
MustSearch(l) == Loc(l).scope /\ (l \notin cached \/ off # 0)

GetWithoutSearch(l) ==
    /\ Getting(l)
    /\ Loc(l).scope => Unit(l) \in known
    /\ ~MustSearch(l)
    /\ cached' = cached \cup {l}
    /\ todo' = Tail(todo)
    /\ UNCHANGED <<program, known, defs, uses, query, off, pc, search, answer>>

StartCollecting(l) ==
    /\ Getting(l) /\ Loc(l).scope /\ Unit(l) \notin known
    /\ macroFileStack' = program.macros[Unit(l)]
    /\ pc' = "files"
    /\ UNCHANGED <<program, memory, query, off, todo, toExpand, scan, answer>>

StartSearch(l) ==
    /\ Getting(l) /\ Unit(l) \in known /\ MustSearch(l)
    /\ cached' = cached \cup {l}
    /\ scan' = [parent |-> 0, text |-> extractLineFromLocation(l, off), at |-> 1]
    /\ pc' = "search"
    /\ UNCHANGED <<program, known, defs, uses, query, off, todo, macroFileStack, toExpand, answer>>

\* collectMacroDefs: the first node with a name is its definition.
CollectFile ==
    /\ pc = "files" /\ macroFileStack # <<>>
    /\ LET top == macroFileStack[Len(macroFileStack)]
           nodes == program.macroFiles[top].nodes
           Named(n) == {k \in DOMAIN nodes : nodes[k].name = n}
           u == Unit(Head(todo))
       IN  /\ defs' = [defs EXCEPT ![u] = [n \in Names |->
                          IF @[n] # NoDef \/ Named(n) = {} THEN @[n] ELSE nodes[Min(Named(n))]]]
           /\ macroFileStack' = SubSeq(macroFileStack, 1, Len(macroFileStack) - 1) \o program.macroFiles[top].includes
    /\ UNCHANGED <<program, known, cached, uses, query, off, todo, pc, toExpand, scan, answer>>

FilesCollected ==
    /\ pc = "files" /\ macroFileStack = <<>>
    /\ known' = known \cup {Unit(Head(todo))}
    /\ pc' = "get"
    /\ UNCHANGED <<program, defs, cached, uses, query, off, todo, search, answer>>

LookUpWithLastParent ==
    /\ pc = "search" /\ scan.at <= Len(scan.text.toks)
    /\ LET l == Head(todo)
           tok == scan.text.toks[scan.at]
           use == [name |-> tok.id, parent |-> Len(uses[l]), args |-> ArgsIn(l, scan.parent, tok)]
       IN  IF /\ IsLookedUp(scan.text, scan.at) /\ tok.id \notin NamesAt(l)
              /\ tok.id \in Names /\ defs[Unit(l)][tok.id] # NoDef
           THEN /\ uses' = [uses EXCEPT ![l] = Append(@, use)]
                /\ toExpand' = Append(toExpand, Len(uses[l]) + 1)
           ELSE UNCHANGED <<uses, toExpand>>
    /\ scan' = [scan EXCEPT !.at = @ + 1]
    /\ UNCHANGED <<program, known, defs, cached, query, off, todo, pc, macroFileStack, answer>>

\* collectMacroUsesAtLocation: the next identifier of the text.
LookUp ==
    /\ pc = "search" /\ scan.at <= Len(scan.text.toks)
    /\ LET l == Head(todo)
           tok == scan.text.toks[scan.at]
           use == [name |-> tok.id, parent |-> scan.parent, args |-> ArgsIn(l, scan.parent, tok)]
       IN  IF /\ IsLookedUp(scan.text, scan.at) /\ tok.id \notin NamesAt(l)
              /\ tok.id \in Names /\ defs[Unit(l)][tok.id] # NoDef
           THEN /\ uses' = [uses EXCEPT ![l] = Append(@, use)]
                /\ toExpand' = Append(toExpand, Len(uses[l]) + 1)
           ELSE UNCHANGED <<uses, toExpand>>
    /\ scan' = [scan EXCEPT !.at = @ + 1]
    /\ UNCHANGED <<program, known, defs, cached, query, off, todo, pc, macroFileStack, answer>>

\* The body of the use that was found last is next.
TextDone == pc = "search" /\ scan.at > Len(scan.text.toks)
Newest == toExpand[Len(toExpand)]
NeverEnds(l, i) == IsStuck(BodyOf(l, i).toks)
ExpandFirstDropLast ==
    /\ TextDone /\ toExpand # <<>>
    /\ ~NeverEnds(Head(todo), Head(toExpand))
    /\ scan' = [parent |-> Head(toExpand), text |-> BodyOf(Head(todo), Head(toExpand)), at |-> 1]
    /\ toExpand' = SubSeq(toExpand, 1, Len(toExpand) - 1)
    /\ UNCHANGED <<program, memory, query, off, todo, pc, macroFileStack, answer>>

ExpandNext ==
    /\ TextDone /\ toExpand # <<>>
    /\ ~NeverEnds(Head(todo), Newest)
    /\ scan' = [parent |-> Newest, text |-> BodyOf(Head(todo), Newest), at |-> 1]
    /\ toExpand' = SubSeq(toExpand, 1, Len(toExpand) - 1)
    /\ UNCHANGED <<program, memory, query, off, todo, pc, macroFileStack, answer>>

GoOnForEver ==
    /\ TextDone /\ toExpand # <<>>
    /\ NeverEnds(Head(todo), Newest)
    /\ UNCHANGED vars

EndSearch ==
    /\ TextDone /\ toExpand = <<>>
    /\ todo' = Tail(todo) /\ pc' = "get" /\ scan' = NoScan
    /\ UNCHANGED <<program, memory, query, off, macroFileStack, toExpand, answer>>

-----------------------------------------------------------------------------
(***************************************************************************)
(* Answers.                                                                *)
(***************************************************************************)
\* The uses from that of the line to use i.
Stack(l, i) ==
    LET S[k \in DOMAIN uses[l]] ==
            Append(IF uses[l][k].parent = 0 THEN <<>> ELSE S[uses[l][k].parent], uses[l][k].name)
    IN  S[i]

\* Macros that are used at both locations, and have different bodies.
Differing(l, r) ==
    {u \in (DOMAIN uses[l]) \X (DOMAIN uses[r]) :
        uses[l][u[1]].name = uses[r][u[2]].name /\ Def(l, u[1]).body # Def(r, u[2]).body}

\* findMacroFunctionDifference: what is called on one side is a macro of the same line on the other.
FunctionOrMacro(l, r, n, m) ==
    IF ~Found(l, 0) \/ ~Found(r, 0) \/ extractLineFromLocation(l, 0) # extractLineFromLocation(r, 0) THEN {}
    ELSE IF n \notin NamesAt(l) /\ n \in NamesAt(r) THEN {n}
    ELSE IF m \in NamesAt(l) /\ m \notin NamesAt(r) THEN {m} ELSE {}

Got(kind) == pc = "get" /\ todo = <<>> /\ query.kind = kind

TryEachLineBefore ==
    /\ Got("difference") /\ Differing(query.l, query.r) = {}
    /\ off' = off - 1 /\ todo' = <<query.l, query.r>>
    /\ UNCHANGED <<program, memory, query, pc, search, answer>>

\* The line before is tried when nothing is found.
TryLineBefore ==
    /\ Got("difference") /\ Differing(query.l, query.r) = {} /\ off = 0
    /\ off' = -1 /\ todo' = <<query.l, query.r>>
    /\ UNCHANGED <<program, memory, query, pc, search, answer>>

Report ==
    /\ Got("difference") /\ (Differing(query.l, query.r) # {} \/ off # 0)
    /\ answer' = [macros |-> {<<Stack(query.l, u[1]), Stack(query.r, u[2])>> : u \in Differing(query.l, query.r)},
                  call |-> FunctionOrMacro(query.l, query.r, query.names[1], query.names[2]),
                  args |-> <<>>]
    /\ pc' = "idle"
    /\ UNCHANGED <<program, memory, query, off, todo, search>>

\* The texts in which arguments are looked for: 0 is the statement.
Text(l, i) == IF i = 0 THEN extractLineFromLocation(l, 0) ELSE Def(l, i).body
Inputs(l) == {0} \cup DOMAIN uses[l]
Mentions(text, n) == {k \in DOMAIN text.toks : text.toks[k].id = n}
FirstMention(text, n) == text.toks[Min(Mentions(text, n))]

\* findFunctionCallSourceArguments: the last text with the name is taken, and the map of uses is
\* not in an order.
GiveCallArguments ==
    /\ Got("call")
    /\ LET l == query.l
           n == query.names[1]
           with == {i \in Inputs(l) : Mentions(Text(l, i), n) # {}}
           taken == IF with \ {0} # {} THEN with \ {0} ELSE with
       IN  IF taken = {} THEN answer' = NoAnswer
           ELSE \E i \in taken : answer' = [NoAnswer EXCEPT !.args = FirstMention(Text(l, i), n).args]
    /\ pc' = "idle"
    /\ UNCHANGED <<program, memory, query, off, todo, search>>

\* findInlineAssemblySourceArguments: texts with assembly are left out, one character of it after
\* the other, until one text is left.  When two have the very same assembly, what is read after
\* its end decides.
Asm == "asm"
Candidates(l) == {i \in Inputs(l) : Mentions(Text(l, i), Asm) # {}}
CharacterBeforeEnd(code, p) == IF p < Len(code) THEN code[p] ELSE 0
Character(code, p) == IF p <= Len(code) THEN code[p] ELSE 0
Agree(l, code, p) ==
    IF p = 0 THEN Candidates(l)
    ELSE {i \in Candidates(l) :
            LET own == FirstMention(Text(l, i), Asm).code
            IN  own # <<>> /\ \A q \in 1 .. p : Character(own, q) = Character(code, q)}
GiveAsmArguments ==
    /\ Got("asm")
    /\ LET Few == {p \in 0 .. Len(query.code) + 1 : Cardinality(Agree(query.l, query.code, p)) <= 1}
           left == IF Few = {} THEN Agree(query.l, query.code, Len(query.code) + 1)
                   ELSE Agree(query.l, query.code, Min(Few))
       IN  \/ /\ left = {} \/ Few = {}
              /\ answer' = NoAnswer
           \/ \E i \in left : answer' = [NoAnswer EXCEPT !.args = FirstMention(Text(query.l, i), Asm).args]
    /\ pc' = "idle"
    /\ UNCHANGED <<program, memory, query, off, todo, search>>

Ask ==
    \/ \E l, r \in Locations, n, m \in program.calls \cup {NoName} : FindDifference(l, r, n, m)
    \/ \E l \in Locations, n \in program.calls : FindArguments(l, n, <<>>)
    \/ \E l \in Locations, code \in program.codes : FindArguments(l, NoName, code)
Work ==
    \/ \E l \in Locations : GetWithoutSearch(l) \/ StartCollecting(l) \/ StartSearch(l)
    \/ CollectFile \/ FilesCollected
    \/ LookUp \/ ExpandNext \/ GoOnForEver \/ EndSearch
    \/ TryLineBefore \/ Report \/ GiveCallArguments \/ GiveAsmArguments
Next == Ask \/ Work

Spec == Init /\ [][Next]_vars

\* An analysis that was begun is done by one thread, without waiting.
FairSpec == Spec /\ WF_vars(Work)

-----------------------------------------------------------------------------
(***************************************************************************)
(* Properties.                                                             *)
(***************************************************************************)
TypeOK ==
    /\ program \in Programs
    /\ known \subseteq Units /\ cached \subseteq Locations
    /\ defs \in [Units -> [Names -> Definitions \cup {NoDef}]]
    /\ uses \in [Locations -> Seq(Uses)]
    /\ off \in {0, -1} /\ todo \in Seq(Locations)
    /\ query \in [kind : {"none", "difference", "call", "asm"}, l : Locations, r : Locations,
                  names : Seq(Names \cup {NoName}), code : Seq(Characters)]
    /\ pc \in {"idle", "get", "files", "search"}
    /\ macroFileStack \in Seq(MacroFiles)
    /\ toExpand \in Seq(Nat)
    /\ scan \in [parent : Nat, text : Texts(Names \cup {NoName}), at : Nat \ {0}]

\* The macros of unit u among the identifiers that are looked up in a text.
MacrosIn(u, text) ==
    {n \in Names : defs[u][n] # NoDef /\ \E k \in DOMAIN text.toks : text.toks[k].id = n /\ IsLookedUp(text, k)}

\* The parents of a use lead to the statement, or to the one before it, without a circle: each
\* macro is in the body of the one before, as it reads with that one's arguments.  The call
\* stacks of findMacroDifferences follow them until there is no parent.
StacksLeadToTheLine ==
    \A l \in Locations : \A i \in DOMAIN uses[l] :
        LET use == uses[l][i]
        IN  /\ use.parent < i
            /\ \A j \in DOMAIN uses[l] : uses[l][j].name = use.name => i = j
            /\ IF use.parent = 0
               THEN \E o \in {0, -1} : use.name \in MacrosIn(Unit(l), extractLineFromLocation(l, o))
               ELSE use.name \in MacrosIn(Unit(l), BodyOf(l, use.parent))

\* "Get all macros used on a certain DILocation": once a location is done, no macro of its
\* statement, or of the body of a macro that was found, is missing.
Searching(l) == pc = "search" /\ l = Head(todo)
NoMacroMissed ==
    \A l \in cached :
        Loc(l).scope /\ ~Searching(l) =>
            /\ MacrosIn(Unit(l), extractLineFromLocation(l, 0)) \subseteq NamesAt(l)
            /\ \A i \in DOMAIN uses[l] : MacrosIn(Unit(l), BodyOf(l, i)) \subseteq NamesAt(l)

\* The macros of a statement: the least set that is closed under the bodies.
MacrosUsed(l, o) ==
    LET u == Unit(l)
        all == {n \in Names : defs[u][n] # NoDef}
        closed == {S \in SUBSET all : /\ MacrosIn(u, extractLineFromLocation(l, o)) \subseteq S
                                      /\ \A n \in S : MacrosIn(u, defs[u][n].body) \subseteq S}
    IN  IF Loc(l).scope THEN {n \in all : \A S \in closed : n \in S} ELSE {}
MacrosAround(l) == MacrosUsed(l, 0) \cup MacrosUsed(l, -1)
PastesNothing ==
    \A u \in known : \A n \in Names :
        defs[u][n] # NoDef => \A k \in DOMAIN defs[u][n].body.toks : ~defs[u][n].body.toks[k].glue

\* findMacroDifferences: macros that both statements use and whose bodies differ are reported,
\* whatever was searched before; others only if the statements before them use them; and nothing
\* is reported only if no such macro differs.
ReportedDifferences ==
    pc = "idle" /\ query.kind = "difference" /\ Loc(query.l).scope /\ Loc(query.r).scope /\ PastesNothing =>
        LET l == query.l
            r == query.r
            Among(S) == {n \in S : defs[Unit(l)][n].body # defs[Unit(r)][n].body}
            reported == {s[1][Len(s[1])] : s \in answer.macros}
        IN  /\ Among(MacrosUsed(l, 0) \cap MacrosUsed(r, 0)) \subseteq reported
            /\ reported \subseteq Among(MacrosAround(l) \cap MacrosAround(r))
            /\ reported = {} => Among(MacrosAround(l) \cap MacrosAround(r)) = {}

\* findInlineAssemblySourceArguments: when one text has the assembly, its arguments are given.
RightAssembly ==
    pc = "idle" /\ query.kind = "asm" /\ query.code # <<>> /\ Found(query.l, 0) =>
        LET own == {i \in Candidates(query.l) : FirstMention(Text(query.l, i), Asm).code = query.code}
        IN  \A i \in own : own = {i} => answer.args = FirstMention(Text(query.l, i), Asm).args

\* Every search ends, unless a body joins an identifier whose last characters are a parameter,
\* or a parameter, but for the last one, and two more.
JoinsParts ==
    \E u \in known, n \in Names :
        LET params == defs[u][n].params
            toks == defs[u][n].body.toks
        IN  /\ defs[u][n] # NoDef
            /\ \E k \in DOMAIN toks, q \in DOMAIN params :
                  /\ toks[k].glue
                  /\ \/ Place[toks[k].id][params[q]] > 0
                     \/ k > 1 /\ toks[k - 1].glue /\ \E p \in 1 .. q - 1 : toks[k - 1].id = params[p]
SearchesEnd == (pc # "idle") ~> (pc = "idle" \/ JoinsParts)

-----------------------------------------------------------------------------
(***************************************************************************)
(* What the code does not keep.                                            *)
(***************************************************************************)
\* "The function searches for the function call at two locations - the first one is the line in
\* the original C source code [...], the second one are macros used on that line"
\* (SourceCodeUtils.cpp:626): the arguments are of a call that is there.
ArgumentsOfTheLine ==
    pc = "idle" /\ query.kind = "call" /\ answer.args # <<>> =>
        LET l == query.l
            texts == {extractLineFromLocation(l, 0)} \cup {defs[Unit(l)][n].body : n \in MacrosUsed(l, 0)}
        IN  \E text \in texts : \E k \in Mentions(text, query.names[1]) : text.toks[k].args = answer.args
=============================================================================
