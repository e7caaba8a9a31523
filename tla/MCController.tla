---------------------------- MODULE MCController ----------------------------
(***************************************************************************)
(* What the controller does before any packet moves, for TLC: part says    *)
(* whether the behaviour is one of the chip's set-up (ControllerBoot) or   *)
(* one of the probes that read the configuration (Configuration), which do *)
(* not depend on each other.  The other stays in one initial state.        *)
(***************************************************************************)
EXTENDS ControllerBoot, Configuration, SequencesExt

VARIABLE part

(* A time-out, a scan code that is like no command byte, and 0x57 or so *)
MCStrays == {{}, {"translate"}, {"kbdIRQ", "auxIRQ", "kbdOff", "auxOff", "translate"}}

MCSections == {"Controller", "Keyboard"}

Num(n) == <<"num", n>>
Str(s) == <<"str", s>>
Arr(s) == <<"array", s>>
Link(parts) == <<"link", parts>>
Yes == <<"bool", TRUE>>
No == <<"bool", FALSE>>

(* No profile; one like those in the Info.plist files, with links, links   *)
(* to links, a link that leads nowhere and a Default of the manufacturer;  *)
(* one without a Default                                                   *)
MCLists == {
    Null,
    Dict([Default |-> Dict([WakeDelay |-> Num(10), MouseWakeFirst |-> No]),
          HPQOEM |-> Dict([p1411 |-> Link(<<"ProBook", "ProBook 4520s">>),
                           p1619 |-> Link(<<"p1411">>),
                           lost |-> Link(<<"gone">>),
                           ProBook |-> Dict([WakeDelay |-> Num(300)]),
                           Default |-> Dict([MouseWakeFirst |-> Yes])])]),
    Dict([HPQOEM |-> Dict([p1411 |-> Dict([Swap |-> No])])])}

Computer(table, dsdt, oemOver, tableOver) ==
    [oem |-> <<"HPQOEM", 0>>, table |-> <<table, 2>>, dsdt |-> dsdt,
     oemOver |-> oemOver, tableOver |-> tableOver]
MCPlatforms ==
    {Computer("p1411", TRUE, <<>>, <<"p1619">>)}
    \cup {Computer(table, dsdt, oemOver, <<>>) : table \in {"p1411", "p1619", "lost", "new"},
                                dsdt \in BOOLEAN, oemOver \in {<<>>, <<"HPQOEM">>, <<"other">>}}

(* An RMCF that is a number, one that is an array, and three dictionaries, *)
(* with every kind of value and strings that look like Booleans            *)
MCOverrides == {
    Num(0),
    Arr(<<Str("a")>>),
    Dict([Controller |-> Dict([WakeDelay |-> Num(500), MouseWakeFirst |-> Yes])]),
    Dict([Keyboard |-> Dict([Swap |-> Yes, Name |-> Str(">n"),
                             Map |-> Arr(<<Str("a"), Str(">y"), No, Arr(<<>>)>>),
                             Sub |-> Dict([x |-> Str("x")])])]),
    Dict([Controller |-> Str("off"), Keyboard |-> Dict([Map |-> Arr(<<>>)])])}

RECURSIVE Nested(_)
Nested(v) == {v} \cup UNION {Nested(w) : w \in Parts(v)}
MCValues == UNION {Nested(v) : v \in MCOverrides}

RECURSIVE Nesting(_)
Nesting(v) == IF Parts(v) = {} THEN 0 ELSE 1 + Max({Nesting(w) : w \in Parts(v)})
MCDepth == [v \in MCValues |-> Nesting(v)]

RECURSIVE Encode(_)
Encode(v) ==
    CASE v[1] = "bool" -> Str(IF v[2] THEN ">y" ELSE ">n")
      [] v = Str(">y") -> Str(">>y")
      [] v = Str(">n") -> Str(">>n")
      [] v[1] = "array" -> Arr(<<EmptyPackage>> \o [i \in DOMAIN v[2] |-> Encode(v[2][i])])
      [] IsDict(v) ->
            LET keys == SetToSeq(DOMAIN v[2])
            IN  Arr([i \in 1 .. 2 * Len(keys) |->
                    IF i % 2 = 1 THEN Str(keys[(i + 1) \div 2]) ELSE Encode(v[2][keys[i \div 2]])])
      [] OTHER -> v
MCPackage == [v \in MCValues |-> Encode(v)]

InitEither ==
    /\ Init /\ ConfInit
    /\ \/ /\ part = "boot"
          /\ lists = [s \in Sections |-> Null] /\ ~ ready
          /\ platform = CHOOSE p \in Platforms : TRUE
          /\ over = CHOOSE v \in Overrides : TRUE
       \/ part = "configuration" /\ chip.byte = {} /\ ~ chip.capable

NextEither ==
    \/ part = "boot" /\ Next /\ UNCHANGED <<part, confVars>>
    \/ part = "configuration" /\ ConfNext /\ UNCHANGED <<part, vars>>

SpecEither == InitEither /\ [][NextEither]_<<part, vars, confVars>>
=============================================================================
