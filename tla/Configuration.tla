---------------------------- MODULE Configuration ----------------------------
(***************************************************************************)
(* makeConfigurationNode: what a driver reads at its probe is the Default  *)
(* of its Platform Profile, over which come the profile of this computer   *)
(* and the section that the ACPI method RMCF has for the driver.           *)
(*                                                                         *)
(* A value is a pair whose first element is its kind:                      *)
(*    <<"num", n>>  <<"str", s>>  <<"bool", b>>  <<"array", sequence>>     *)
(*    <<"dict", function>>, and in a profile <<"link", parts>>, a string   *)
(* that names another entry, cut at every ';' into its parts.              *)
(***************************************************************************)
EXTENDS Naturals, Sequences

CONSTANTS
    Sections,   \* the drivers, by the name of their section in RMCF
    Lists,      \* the Platform Profiles a driver may have, or Null
    Platforms,  \* how the computer says what it is
    Overrides,  \* what RMCF may mean
    Values,     \* Overrides and every value in one of them
    Depth,      \* how deeply each of Values is nested
    Package     \* the ACPI object that stands for each of Values

Null == <<"null">>
Dict(f) == <<"dict", f>>
IsDict(v) == v[1] = "dict"
IsLink(v) == v[1] = "link"
At(d, k) == IF k \in DOMAIN d[2] THEN d[2][k] ELSE Null

(* A dictionary is a function from strings. *)
ProperDict(d) == d = Dict([k \in DOMAIN d[2] |-> d[2][k]]) /\ DOMAIN d[2] \subseteq STRING

(* The name a link leads to: what comes before the first ';' *)
Target(link) == Head(link[2])

(* In what the links of a profile are looked up.  Its dictionaries are     *)
(* proper, and no link leads back to itself over other links.              *)
ProperRoot(root) ==
    /\ ProperDict(root)
    /\ \A n \in DOMAIN root[2] : /\ IsDict(root[2][n]) => ProperDict(root[2][n])
                                 /\ IsLink(root[2][n]) => Target(root[2][n]) \in STRING
    /\ \A S \in SUBSET DOMAIN root[2] : S # {} =>
          \E n \in S : ~ (IsLink(root[2][n]) /\ Target(root[2][n]) \in S)

ASSUME ListsAssumption ==
    /\ "Controller" \in Sections /\ "Default" \in STRING
    /\ \A list \in Lists : list = Null \/
          /\ ProperRoot(list)
          /\ \A n \in DOMAIN list[2] : IsDict(list[2][n]) => ProperRoot(list[2][n])

(* A platform is a record.  oem, table: names in the DSDT and the spaces   *)
(* they are padded with; dsdt: the DSDT can be read; oemOver, tableOver:   *)
(* the names in the registry that override them, as sequences of at most   *)
(* one.                                                                    *)
ASSUME PlatformsAssumption ==
    \A p \in Platforms :
       /\ p.oem \in STRING \X Nat /\ p.table \in STRING \X Nat /\ p.dsdt \in BOOLEAN
       /\ p.oemOver # <<>> => p.oemOver = <<p.oemOver[1]>> /\ p.oemOver[1] \in STRING
       /\ p.tableOver # <<>> => p.tableOver = <<p.tableOver[1]>> /\ p.tableOver[1] \in STRING

-----------------------------------------------------------------------------
(***************************************************************************)
(* The package of RMCF                                                     *)
(***************************************************************************)
Parts(v) == IF v[1] \in {"array", "dict"} THEN {v[2][k] : k \in DOMAIN v[2]} ELSE {}

(* A value that can be written: not an empty dictionary, and no string     *)
(* that looks like an escaped Boolean                                      *)
ProperValue(v) ==
    /\ v = <<v[1], v[2]>>
    /\ CASE v[1] = "num" -> TRUE
         [] v[1] = "str" -> v[2] \in STRING \ {">>y", ">>n"}
         [] v[1] = "bool" -> v[2] \in BOOLEAN
         [] v[1] = "array" -> v[2] \in Seq(Values)
         [] v[1] = "dict" -> ProperDict(v) /\ DOMAIN v[2] # {}
         [] OTHER -> FALSE

ASSUME ValuesAssumption ==
    /\ Overrides \subseteq Values
    /\ Depth \in [Values -> Nat]
    /\ \A v \in Values : /\ ProperValue(v)
                         /\ \A w \in Parts(v) : w \in Values /\ Depth[w] < Depth[v]

Objects == {Package[v] : v \in Values}
EmptyPackage == <<"array", <<>> >>
KeyPlaces(a) == {i \in 1 .. Len(a) : i % 2 = 1}

(* How the tables in Docs/ACPI write v.  A package can only hold strings,  *)
(* numbers and packages: a Boolean is the string ">y" or ">n", an array    *)
(* has an empty package in front, a dictionary is keys and values in turn. *)
Writes(p, v) ==
    CASE v[1] = "bool" -> p = <<"str", IF v[2] THEN ">y" ELSE ">n">>
      [] v = <<"str", ">y">> -> p = <<"str", ">>y">>
      [] v = <<"str", ">n">> -> p = <<"str", ">>n">>
      [] v[1] = "array" ->
            p = <<"array", <<EmptyPackage>> \o [i \in 1 .. Len(v[2]) |-> Package[v[2][i]]]>>
      [] v[1] = "dict" ->
            /\ p = <<"array", p[2]>>
            /\ p[2] \in Seq(Objects \cup {<<"str", k>> : k \in DOMAIN v[2]})
            /\ Len(p[2]) % 2 = 0
            /\ \A i \in KeyPlaces(p[2]) : \E k \in DOMAIN v[2] :
                  p[2][i] = <<"str", k>> /\ p[2][i + 1] = Package[v[2][k]]
            /\ \A k \in DOMAIN v[2] : \E i \in KeyPlaces(p[2]) : p[2][i] = <<"str", k>>
      [] OTHER -> p = v

ASSUME PackageAssumption ==
    DOMAIN Package = Values /\ \A v \in Values : Writes(Package[v], v)

(* Fault: ">>y" and ">>n" are taken for the Booleans too. *)
TranslateString_NoEscape(s) ==
    CASE s \in {">y", ">>y"} -> <<"bool", TRUE>>
      [] s \in {">n", ">>n"} -> <<"bool", FALSE>>
      [] OTHER -> Null
TranslateString(s) ==
    CASE s = ">y" -> <<"bool", TRUE>>
      [] s = ">n" -> <<"bool", FALSE>>
      [] s = ">>y" -> <<"str", ">y">>
      [] s = ">>n" -> <<"str", ">n">>
      [] OTHER -> Null

(* In these, translate is TranslateEntry. *)
Translated(translate, v) == IF translate[v] = Null THEN v ELSE translate[v]

(* translateArray: an array if its first entry is an empty package, else a *)
(* dictionary of keys and values.  Of a key that is there twice the last   *)
(* value counts.                                                           *)
LastPlace(a, k) ==
    CHOOSE i \in KeyPlaces(a) :
        a[i] = <<"str", k>> /\ \A j \in KeyPlaces(a) : a[j] = <<"str", k>> => j <= i
TranslateArray(translate, a) ==
    CASE a = <<>> -> Null
      [] a # <<>> /\ a[1] = EmptyPackage ->
            <<"array", [i \in 1 .. Len(a) - 1 |-> Translated(translate, a[i + 1])]>>
      [] OTHER ->
            IF Len(a) % 2 = 1 \/ \E i \in KeyPlaces(a) : a[i][1] # "str" THEN Null
            ELSE Dict([k \in {a[i][2] : i \in KeyPlaces(a)} |->
                          Translated(translate, a[LastPlace(a, k) + 1])])

TranslateObject(translate, v) ==
    CASE v[1] = "array" -> TranslateArray(translate, v[2])
      [] v[1] = "str" -> TranslateString(v[2])
      [] OTHER -> Null
TranslateEntry[v \in Objects] == TranslateObject(TranslateEntry, v)

VARIABLES
    lists,      \* each driver's Platform Profile
    platform,
    over,       \* what RMCF means
    ready,      \* ACPI can evaluate RMCF
    cache,      \* _rmcfCache
    conf,       \* the configuration each driver got, or "none" before
    told,       \* history: RMCF could be evaluated when the driver probed
    settings    \* _wakedelay and _mouseWakeFirst of the controller

confVars == <<lists, platform, over, ready, cache, conf, told, settings>>

(* getConfigurationOverride: must be dictionary after translation *)
GetConfigurationOverride ==
    LET r == Package[over]
        obj == IF r[1] = "array" THEN TranslateArray(TranslateEntry, r[2]) ELSE Null
    IN  IF ready /\ IsDict(obj) THEN obj ELSE Null

-----------------------------------------------------------------------------
(***************************************************************************)
(* The Platform Profile                                                    *)
(***************************************************************************)
StripTrailingSpaces(padded) == <<padded[1], 0>>

(* getPlatformManufacturer, getPlatformProduct: <<>> if there is no name.  *)
(* A name that kept its spaces is no key of any profile.                   *)
Named(padded) == IF padded[2] = 0 THEN padded[1] ELSE "padded"
PlatformName(override, padded) ==
    IF override # <<>> THEN override
    ELSE IF platform.dsdt THEN <<Named(StripTrailingSpaces(padded))>> ELSE <<>>
Manufacturer == PlatformName(platform.oemOver, platform.oem)
Product == PlatformName(platform.tableOver, platform.table)

(* _getConfigurationNode: links are followed to a dictionary *)
FollowLink(follow, root, name) ==
    LET entry == At(root, name)
    IN  CASE IsDict(entry) -> entry
          [] IsLink(entry) -> follow[Target(entry)]
          [] OTHER -> Null
FollowLinks(root, name) ==
    LET follow[n \in STRING] == FollowLink(follow, root, n) IN follow[name]

(* getConfigurationNode.  A product without an entry has no profile; only  *)
(* a computer without a product name gets its manufacturer's Default.      *)
GetConfigurationNode(list) ==
    IF Manufacturer = <<>> THEN Null
    ELSE LET maker == At(list, Manufacturer[1])
         IN  IF ~ IsDict(maker) THEN Null
             ELSE FollowLinks(maker, IF Product # <<>> THEN Product[1] ELSE "Default")

-----------------------------------------------------------------------------
(***************************************************************************)
(* The probes                                                              *)
(***************************************************************************)
Merge(d, e) ==
    Dict([k \in DOMAIN d[2] \cup DOMAIN e[2] |->
             IF k \in DOMAIN e[2] THEN e[2][k] ELSE d[2][k]])

(* makeConfigurationNode.  An RMCF that gave nothing is asked again.  The  *)
(* lock is held throughout, so the probes of two drivers do not mix.       *)
MakeConfigurationNode(list, section) ==
    LET defaultNode == FollowLinks(list, "Default")
        platformNode == GetConfigurationNode(list)
        profile == CASE IsDict(defaultNode) /\ IsDict(platformNode) ->
                            Merge(defaultNode, platformNode)
                     [] IsDict(defaultNode) /\ ~ IsDict(platformNode) -> defaultNode
                     [] OTHER -> platformNode
        rmcf == IF cache # Null THEN cache ELSE GetConfigurationOverride
        sect == IF rmcf # Null THEN At(rmcf, section) ELSE Null
        result == CASE ~ IsDict(sect) -> profile
                    [] IsDict(sect) /\ IsDict(profile) -> Merge(profile, sect)
                    [] OTHER -> sect
    IN  [result |-> result, cache |-> rmcf]

(* setPropertiesGated of the controller: a value of another kind is ignored *)
SetProperties(config) ==
    [wakedelay |-> IF At(config, "WakeDelay")[1] = "num" THEN At(config, "WakeDelay")[2]
                   ELSE settings.wakedelay,
     mouseWakeFirst |-> IF At(config, "MouseWakeFirst")[1] = "bool" THEN At(config, "MouseWakeFirst")[2]
                        ELSE settings.mouseWakeFirst]

(* probe, as far as the configuration goes *)
Probe(section) ==
    /\ LET made == IF IsDict(lists[section]) THEN MakeConfigurationNode(lists[section], section)
                   ELSE [result |-> Null, cache |-> cache]
       IN  /\ conf' = [conf EXCEPT ![section] = made.result]
           /\ cache' = made.cache
           /\ settings' = IF section = "Controller" /\ IsDict(made.result)
                          THEN SetProperties(made.result) ELSE settings
    /\ told' = [told EXCEPT ![section] = ready]
    /\ UNCHANGED <<lists, platform, over, ready>>

(* RMCF can be evaluated from now on. *)
AcpiReady ==
    /\ ~ ready
    /\ ready' = TRUE
    /\ UNCHANGED <<lists, platform, over, cache, conf, told, settings>>

DefaultSettings == [wakedelay |-> 10, mouseWakeFirst |-> FALSE]
ConfInit ==
    /\ lists \in [Sections -> Lists]
    /\ platform \in Platforms
    /\ over \in Overrides
    /\ ready \in BOOLEAN
    /\ cache = Null
    /\ conf = [s \in Sections |-> <<"none">>]
    /\ told = [s \in Sections |-> FALSE]
    /\ settings = DefaultSettings

ConfNext == (\E section \in Sections : Probe(section)) \/ AcpiReady

ConfSpec == ConfInit /\ [][ConfNext]_confVars

-----------------------------------------------------------------------------
(* The configuration as it is meant: a key has the value of the section of *)
(* RMCF, else that of the computer's profile, else that of Default.  The   *)
(* node a name stands for is the dictionary among the entries that links   *)
(* lead to, those in every set of names that is closed under the links.    *)
Linked(root) == {n \in DOMAIN root[2] : IsLink(root[2][n])}
Closed(root, S) == \A n \in S \cap Linked(root) : Target(root[2][n]) \in S
Reached(root, name) ==
    LET names == {name} \cup {Target(root[2][n]) : n \in Linked(root)}
    IN  {n \in names : \A S \in SUBSET names : name \in S /\ Closed(root, S) => n \in S}
Led(root, name) == {n \in Reached(root, name) : IsDict(At(root, n))}
NodeMeant(root, name) ==
    IF Led(root, name) = {} THEN Null ELSE At(root, CHOOSE n \in Led(root, name) : TRUE)

NameMeant(override, padded) ==
    IF override # <<>> THEN override ELSE IF platform.dsdt THEN <<padded[1]>> ELSE <<>>
ProfileMeant(list) ==
    LET oem == NameMeant(platform.oemOver, platform.oem)
        table == NameMeant(platform.tableOver, platform.table)
    IN  IF oem # <<>> /\ IsDict(At(list, oem[1]))
        THEN NodeMeant(At(list, oem[1]), IF table = <<>> THEN "Default" ELSE table[1])
        ELSE Null
LayersMeant(s) ==
    IF IsDict(lists[s])
    THEN <<IF told[s] /\ IsDict(over) THEN At(over, s) ELSE Null,
           ProfileMeant(lists[s]),
           NodeMeant(lists[s], "Default")>>
    ELSE <<Null, Null, Null>>

(* What the topmost layer that has the key says; Null without any layer *)
Having(layers, k) == {i \in 1 .. 3 : IsDict(layers[i]) /\ k \in DOMAIN layers[i][2]}
Topmost(layers, k) == CHOOSE i \in Having(layers, k) : \A j \in Having(layers, k) : i <= j
Overlaid(layers) ==
    LET dicts == {i \in 1 .. 3 : IsDict(layers[i])}
    IN  IF dicts = {} THEN Null
        ELSE Dict([k \in UNION {DOMAIN layers[i][2] : i \in dicts} |->
                      layers[Topmost(layers, k)][2][k]])

(* Every driver that probed has exactly the configuration that its three   *)
(* sources mean, whatever the order of the probes, however often they      *)
(* found RMCF not ready before, and although RMCF came as a package of     *)
(* strings; and the controller follows the wake delay of its own           *)
(* (translateArray, translateEntry, _getConfigurationNode,                 *)
(* makeConfigurationNode, setPropertiesGated).                             *)
ConfiguredAsMeant ==
    /\ IsDict(conf["Controller"]) /\ At(conf["Controller"], "WakeDelay")[1] = "num" =>
          settings.wakedelay = At(conf["Controller"], "WakeDelay")[2]
    /\ \A s \in Sections : conf[s] # <<"none">> => conf[s] = Overlaid(LayersMeant(s))
=============================================================================
