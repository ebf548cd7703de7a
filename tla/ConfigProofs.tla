---------------------------- MODULE ConfigProofs ----------------------------
(* The filter parsers agree on every filter, and a load keeps the default    *)
(* root, for all values, files and defaults.                                *)
EXTENDS Config, TLAPS

\* The keys of the mappings, and the index mirua_config_set finds for each.
LEMMA Mappings ==
    /\ ToSet(mirua_config_mappings)
         = {"endpoint", "defaultRoot", "filter", "filter_type", "print_level"}
    /\ \A i \in 0 .. 4 : mirua_config_mappings[i + 1] = "defaultRoot" <=> i = 1
    /\ \A i \in 0 .. 4 : mirua_config_mappings[i + 1] = "filter" <=> i = 2
  BY DEF ToSet, mirua_config_mappings

\* mirua_parse_filters sets exactly what a filter accepted by the check of a
\* file names: no number is clamped, no token dropped, whatever its length.
THEOREM FiltersAgree ==
    ASSUME NEW items \in Seq(Item), mirua_isvalid_filter_str(items)
    PROVE  mirua_parse_filters(items) = Declared(items)
<1>1. \A k \in DOMAIN items : items[k] \in Item
  OBVIOUS
<1>2. \A k \in DOMAIN items :
        Bits(items[k]) = {bit \in 0 .. 31 : items[k].start <= bit /\ bit <= items[k].stop}
  <2>1. TAKE k \in DOMAIN items
  <2>2. /\ items[k].start \in Int /\ items[k].stop \in Int
        /\ 0 <= items[k].start /\ items[k].start <= items[k].stop /\ items[k].stop < 32
    BY <1>1 DEF Item, mirua_isvalid_filter_str
  <2>3. /\ ~(items[k].start < 0) /\ ~(items[k].stop > 32)
        /\ ~(items[k].stop < items[k].start)
    BY <2>2
  <2>4. QED  BY <2>2, <2>3 DEF Bits
<1>3. {j \in DOMAIN items : items[j].dash} = DOMAIN items
  BY DEF mirua_isvalid_filter_str
<1>4. mirua_parse_filters(items) = UNION {Bits(items[k]) : k \in DOMAIN items}
  BY <1>3 DEF mirua_parse_filters
<1>5. ASSUME NEW bit
      PROVE  bit \in mirua_parse_filters(items) <=> bit \in Declared(items)
  <2>1. bit \in mirua_parse_filters(items) <=> \E k \in DOMAIN items : bit \in Bits(items[k])
    BY <1>4
  <2>2. QED  BY <1>2, <2>1 DEF Declared
<1>6. QED  BY <1>5

\* A mask never has a bit that a 32-bit word has not.
LEMMA FilterType32 ==
    ASSUME NEW items
    PROVE  mirua_parse_filters(items) \in SUBSET (0 .. 31)
  BY DEF mirua_parse_filters, Bits

LEMMA SetByIndexType ==
    ASSUME NEW settings \in Settings, NEW idx, NEW value \in Value
    PROVE  mirua_config_set_by_idx(settings, idx, value) \in Settings
<1>1. value.nodeid \in NodeId \cup {NullId} /\ value.int \in Int
  BY ConfigAssumption DEF ValueType
<1>2. mirua_parse_filters(value.items) \in SUBSET (0 .. 31)
  BY FilterType32
<1>3. mirua_filter_parse_type(value.word) \in FilterType
  BY DEF mirua_filter_parse_type, FilterType
<1>4. CASE idx = 0
  BY <1>4 DEF mirua_config_set_by_idx, Settings
<1>5. CASE idx = 1
  BY <1>1, <1>5 DEF mirua_config_set_by_idx, Settings
<1>6. CASE idx = 2
  BY <1>2, <1>6 DEF mirua_config_set_by_idx, Settings
<1>7. CASE idx = 3
  BY <1>3, <1>7 DEF mirua_config_set_by_idx, Settings
<1>8. CASE idx = 4
  BY <1>1, <1>8 DEF mirua_config_set_by_idx, Settings
<1>9. CASE idx \notin 0 .. 4
  BY <1>9 DEF mirua_config_set_by_idx
<1>10. QED  BY <1>4, <1>5, <1>6, <1>7, <1>8, <1>9

LEMMA SetType ==
    ASSUME NEW settings \in Settings, NEW key, NEW value \in Value
    PROVE  mirua_config_set(settings, key, value) \in Settings
  BY SetByIndexType DEF mirua_config_set

\* The settings, the file and the position in it keep their types.
THEOREM ConfigTypeCorrect == Spec => []TypeOK
<1>1. Init => TypeOK
  <2>1. SUFFICES ASSUME Init PROVE TypeOK
    OBVIOUS
  <2>2. config \in Settings /\ set_keys \subseteq ToSet(mirua_config_mappings)
    BY <2>1, ConfigAssumption DEF Init
  <2>3. file \in Seq(Line) /\ at \in 1 .. Len(file) + 1
    BY <2>1 DEF Init
  <2>4. QED  BY <2>1, <2>2, <2>3 DEF Init, TypeOK
<1>2. TypeOK /\ [Next]_vars => TypeOK'
  <2>1. SUFFICES ASSUME TypeOK, [Next]_vars PROVE TypeOK'
    OBVIOUS
  <2>2. CASE SetByIndex
    BY <2>1, <2>2, SetByIndexType DEF SetByIndex, TypeOK, load
  <2>3. CASE SetByKey
    BY <2>1, <2>3, SetType DEF SetByKey, TypeOK, load
  <2>4. CASE LoadFails
    BY <2>1, <2>4 DEF LoadFails, TypeOK
  <2>5. CASE LoadStart
    <3>1. file' \in Seq(Line)
      BY <2>5, ConfigAssumption DEF LoadStart
    <3>2. at' \in 1 .. Len(file') + 1
      BY <2>5, <3>1 DEF LoadStart
    <3>3. QED  BY <2>1, <2>5, <3>1, <3>2 DEF LoadStart, TypeOK
  <2>6. CASE SkipLine
    BY <2>1, <2>6 DEF SkipLine, Reading, TypeOK
  <2>7. CASE RefuseLine
    BY <2>1, <2>7 DEF RefuseLine, Reading, TypeOK
  <2>8. CASE AcceptLine
    <3>1. Current \in Line /\ Current.value \in Value
      <4>1. file \in Seq(Line) /\ at \in 1 .. Len(file)
        BY <2>1, <2>8 DEF AcceptLine, Reading, TypeOK
      <4>2. Current \in Line
        BY <4>1 DEF Current
      <4>3. QED  BY <4>2 DEF Line
    <3>2. config' \in Settings
      BY <2>1, <2>8, <3>1, SetType DEF AcceptLine, TypeOK
    <3>3. set_keys' \subseteq ToSet(mirua_config_mappings)
      BY <2>1, <2>8 DEF AcceptLine, Acceptable, TypeOK
    <3>4. QED  BY <2>1, <2>8, <3>2, <3>3 DEF AcceptLine, Reading, TypeOK
  <2>9. CASE LoadDone
    <3>1. file' \in Seq(Line) /\ at' \in 1 .. Len(file') + 1
      BY <2>9 DEF LoadDone
    <3>2. QED  BY <2>1, <2>9, <3>1 DEF LoadDone, TypeOK
  <2>10. CASE UNCHANGED vars
    BY <2>1, <2>10 DEF vars, TypeOK
  <2>11. QED
    BY <2>1, <2>2, <2>3, <2>4, <2>5, <2>6, <2>7, <2>8, <2>9, <2>10 DEF Next, Load
<1>3. QED  BY <1>1, <1>2, PTL DEF Spec

\* What setting an accepted filter makes of the settings.
LEMMA FilterSet ==
    ASSUME TypeOK, NEW v \in Value, mirua_isvalid_filter_str(v.items)
    PROVE  mirua_config_set(config, "filter", v)
             = [config EXCEPT !.selectedDataTypeKinds = Declared(v.items)]
<1>1. v.items \in Seq(Item)
  BY ConfigAssumption DEF ValueType
<1>2. (CHOOSE i \in 0 .. 4 : mirua_config_mappings[i + 1] = "filter") = 2
  BY Mappings
<1>3. mirua_config_set(config, "filter", v) = mirua_config_set_by_idx(config, 2, v)
  BY <1>2, Mappings DEF mirua_config_set
<1>4. mirua_parse_filters(v.items) = Declared(v.items)
  BY <1>1, FiltersAgree
<1>5. QED  BY <1>3, <1>4 DEF mirua_config_set_by_idx

\* The run's form of it: what the session's mask becomes.
THEOREM FilterSetExactly == Spec => []FilterExact
<1>1. TypeOK => FilterExact
  <2>1. SUFFICES ASSUME TypeOK, NEW v \in Value, mirua_isvalid_filter_str(v.items)
                 PROVE  mirua_config_set(config, "filter", v).selectedDataTypeKinds
                           = Declared(v.items)
    BY DEF FilterExact
  <2>2. config \in Settings
    BY <2>1 DEF TypeOK
  <2>3. QED  BY <2>1, <2>2, FilterSet DEF Settings
<1>2. QED  BY <1>1, ConfigTypeCorrect, PTL

\* And what a listing shows under it (mirua_callback_filter).
THEOREM FilterLists == Spec => []FilterListsNamed
<1>1. TypeOK => FilterListsNamed
  <2>1. SUFFICES ASSUME TypeOK, NEW v \in Value, mirua_isvalid_filter_str(v.items)
                 PROVE  {kind \in Kind : Listed(mirua_config_set(config, "filter", v), kind)} =
                           IF config.filterType # "UA_TYPES" THEN Kind
                           ELSE IF Declared(v.items) = {} THEN Kind \ {NoValue}
                           ELSE Declared(v.items) \cap Kind
    BY DEF FilterListsNamed
  <2> DEFINE settings == mirua_config_set(config, "filter", v)
             named == Declared(v.items)
  <2>2. config \in Settings
    BY <2>1 DEF TypeOK
  <2>3. /\ settings.selectedDataTypeKinds = named
        /\ settings.filterType = config.filterType
    BY <2>1, <2>2, FilterSet DEF Settings
  <2>4. named \subseteq 0 .. 31 /\ NoValue \notin named
    BY DEF Declared, NoValue
  <2> HIDE DEF settings, named
  <2>5. CASE config.filterType # "UA_TYPES"
    <3>1. \A kind \in Kind : Listed(settings, kind)
      BY <2>3, <2>5 DEF Listed
    <3>2. QED  BY <2>5, <3>1 DEF settings
  <2>6. CASE config.filterType = "UA_TYPES" /\ named = {}
    <3>1. \A kind \in Kind : Listed(settings, kind) <=> kind # NoValue
      BY <2>3, <2>6 DEF Listed
    <3>2. QED  BY <2>6, <3>1 DEF settings, named
  <2>7. CASE config.filterType = "UA_TYPES" /\ named # {}
    <3>1. \A kind \in Kind : Listed(settings, kind) <=> kind \in named
      BY <2>3, <2>4, <2>7 DEF Listed
    <3>2. QED  BY <2>7, <3>1 DEF settings, named
  <2>8. QED  BY <2>5, <2>6, <2>7
<1>2. QED  BY <1>1, ConfigTypeCorrect, PTL

\* The check in the loader is enough: whatever a file holds, no line of it
\* leaves the session without a default root.
THEOREM LoadKeepsDefaultRoot == Spec => LoadKeepsRoot
<1>1. TypeOK /\ [Next]_vars =>
        [pc = "loading" /\ config.defaultRoot # NullId => config'.defaultRoot # NullId]_vars
  <2>1. SUFFICES ASSUME TypeOK, [Next]_vars, pc = "loading", config.defaultRoot # NullId
                 PROVE  config'.defaultRoot # NullId
    OBVIOUS
  <2>2. CASE UNCHANGED config
    BY <2>1, <2>2
  <2>3. CASE AcceptLine
    <3>1. Current.key = "defaultRoot" => Current.value.nodeid # NullId
      BY <2>3 DEF AcceptLine, Acceptable
    <3>2. config \in Settings
      BY <2>1 DEF TypeOK
    <3>3. CASE Current.key = "defaultRoot"
      <4>1. (CHOOSE i \in 0 .. 4 : mirua_config_mappings[i + 1] = Current.key) = 1
        BY <3>3, Mappings
      <4>2. config' = [config EXCEPT !.defaultRoot = Current.value.nodeid]
        BY <2>3, <3>3, <4>1, Mappings
           DEF AcceptLine, mirua_config_set, mirua_config_set_by_idx
      <4>3. QED  BY <3>1, <3>2, <3>3, <4>2 DEF Settings
    <3>4. CASE Current.key # "defaultRoot"
      <4>1. Current.key \in ToSet(mirua_config_mappings)
        BY <2>3 DEF AcceptLine, Acceptable
      <4>2. \E i \in 0 .. 4 : mirua_config_mappings[i + 1] = Current.key
        BY <4>1 DEF ToSet, mirua_config_mappings
      <4>3. PICK idx \in 0 .. 4 :
              /\ mirua_config_mappings[idx + 1] = Current.key
              /\ config' = mirua_config_set_by_idx(config, idx, Current.value)
        BY <2>3, <4>1, <4>2 DEF AcceptLine, mirua_config_set
      <4>4. idx # 1
        BY <3>4, <4>3, Mappings
      <4>5. config'.defaultRoot = config.defaultRoot
        BY <3>2, <4>3, <4>4 DEF mirua_config_set_by_idx, Settings
      <4>6. QED  BY <2>1, <4>5
    <3>5. QED  BY <3>3, <3>4
  <2>4. QED
    BY <2>1, <2>2, <2>3
       DEF Next, Load, SetByIndex, SetByKey, LoadFails, LoadStart, SkipLine, RefuseLine,
           LoadDone, vars
<1>2. QED  BY <1>1, ConfigTypeCorrect, PTL DEF Spec, LoadKeepsRoot

-----------------------------------------------------------------------------
(* What a load leaves. *)

\* The setting a key stands for is what a value says.
Holds(settings, key, value) ==
    CASE key = "endpoint"    -> settings.endpoint = value
      [] key = "defaultRoot" -> settings.defaultRoot = value.nodeid
      [] key = "filter"      -> settings.selectedDataTypeKinds = Declared(value.items)
      [] key = "filter_type" -> settings.filterType = mirua_filter_parse_type(value.word)
      [] key = "print_level" -> settings.printLevel = value.int

\* Line i is the last one before line n that holds this key.
IsLast(lines, key, i, n) ==
    /\ i \in 1 .. n - 1
    /\ lines[i].kind = "pair" /\ lines[i].key = key
    /\ \A j \in i + 1 .. n - 1 : ~(lines[j].kind = "pair" /\ lines[j].key = key)

\* The settings of these keys are what the lines before line n say last.
Reflects(settings, lines, keys, n) ==
    \A key \in keys : \E i \in 1 .. n - 1 :
        IsLast(lines, key, i, n) /\ Holds(settings, key, lines[i].value)

\* As long as there was no error, every key seen holds its last value.
Progress == pc = "loading" /\ ~has_errors => Reflects(config, file, set_keys, at)

\* A line that is accepted sets its own key and no other.
LEMMA SetHolds ==
    ASSUME NEW settings \in Settings, NEW key \in ToSet(mirua_config_mappings),
           NEW value \in Value, key = "filter" => mirua_isvalid_filter_str(value.items)
    PROVE  /\ Holds(mirua_config_set(settings, key, value), key, value)
           /\ \A other \in ToSet(mirua_config_mappings) \ {key}, v \in Value :
                  Holds(settings, other, v) =>
                      Holds(mirua_config_set(settings, key, value), other, v)
<1> DEFINE index == CHOOSE i \in 0 .. 4 : mirua_config_mappings[i + 1] = key
           set == mirua_config_set(settings, key, value)
<1>1. set = mirua_config_set_by_idx(settings, index, value)
  BY DEF mirua_config_set
<1>2. /\ key = "endpoint" => index = 0
      /\ key = "defaultRoot" => index = 1
      /\ key = "filter" => index = 2
      /\ key = "filter_type" => index = 3
      /\ key = "print_level" => index = 4
  BY DEF mirua_config_mappings
<1>3. key \in {"endpoint", "defaultRoot", "filter", "filter_type", "print_level"}
  BY Mappings
<1>4. mirua_isvalid_filter_str(value.items) =>
          mirua_parse_filters(value.items) = Declared(value.items)
  <2>1. value.items \in Seq(Item)
    BY ConfigAssumption DEF ValueType
  <2>2. QED  BY <2>1, FiltersAgree
<1> HIDE DEF index
<1>5. /\ set.endpoint = IF key = "endpoint" THEN value ELSE settings.endpoint
      /\ set.defaultRoot = IF key = "defaultRoot" THEN value.nodeid ELSE settings.defaultRoot
      /\ set.selectedDataTypeKinds
           = IF key = "filter" THEN Declared(value.items) ELSE settings.selectedDataTypeKinds
      /\ set.filterType = IF key = "filter_type" THEN mirua_filter_parse_type(value.word)
                          ELSE settings.filterType
      /\ set.printLevel = IF key = "print_level" THEN value.int ELSE settings.printLevel
  <2> HIDE DEF set
  <2>1. CASE key = "endpoint"
    <3>1. set = [settings EXCEPT !.endpoint = value]
      BY <1>1, <1>2, <2>1 DEF mirua_config_set_by_idx
    <3>2. QED  BY <2>1, <3>1 DEF Settings
  <2>2. CASE key = "defaultRoot"
    <3>1. set = [settings EXCEPT !.defaultRoot = value.nodeid]
      BY <1>1, <1>2, <2>2 DEF mirua_config_set_by_idx
    <3>2. QED  BY <2>2, <3>1 DEF Settings
  <2>3. CASE key = "filter"
    <3>1. set = [settings EXCEPT !.selectedDataTypeKinds = Declared(value.items)]
      BY <1>1, <1>2, <1>4, <2>3 DEF mirua_config_set_by_idx
    <3>2. QED  BY <2>3, <3>1 DEF Settings
  <2>4. CASE key = "filter_type"
    <3>1. set = [settings EXCEPT !.filterType = mirua_filter_parse_type(value.word)]
      BY <1>1, <1>2, <2>4 DEF mirua_config_set_by_idx
    <3>2. QED  BY <2>4, <3>1 DEF Settings
  <2>5. CASE key = "print_level"
    <3>1. set = [settings EXCEPT !.printLevel = value.int]
      BY <1>1, <1>2, <2>5 DEF mirua_config_set_by_idx
    <3>2. QED  BY <2>5, <3>1 DEF Settings
  <2>6. QED  BY <1>3, <2>1, <2>2, <2>3, <2>4, <2>5
<1> HIDE DEF set
<1>6. Holds(set, key, value)
  BY <1>3, <1>5 DEF Holds
<1>7. ASSUME NEW other \in ToSet(mirua_config_mappings) \ {key}, NEW v \in Value,
             Holds(settings, other, v)
      PROVE  Holds(set, other, v)
  <2>1. other \in {"endpoint", "defaultRoot", "filter", "filter_type", "print_level"}
    BY Mappings
  <2>2. QED  BY <1>5, <1>7, <2>1 DEF Holds
<1>8. QED  BY <1>6, <1>7, Zenon DEF set

\* The line that is accepted becomes the last one with its key.
LEMMA LineAccepted ==
    ASSUME TypeOK, Progress, AcceptLine, ~has_errors
    PROVE  Progress'
<1>1. /\ pc = "loading" /\ at \in 1 .. Len(file) /\ file \in Seq(Line)
      /\ Current = file[at] /\ Acceptable
  BY DEF AcceptLine, Reading, Current, TypeOK
<1>2. /\ Current \in Line /\ Current.value \in Value /\ Current.kind = "pair"
      /\ Current.key \in ToSet(mirua_config_mappings)
      /\ Current.key = "filter" => mirua_isvalid_filter_str(Current.value.items)
  <2>1. Current \in Line
    BY <1>1
  <2>2. QED  BY <1>1, <2>1 DEF Line, Acceptable
<1>3. /\ config' = mirua_config_set(config, Current.key, Current.value)
      /\ set_keys' = set_keys \cup {Current.key} /\ at' = at + 1 /\ file' = file
  BY DEF AcceptLine
<1>4. /\ Holds(config', Current.key, Current.value)
      /\ \A other \in ToSet(mirua_config_mappings) \ {Current.key}, v \in Value :
             Holds(config, other, v) => Holds(config', other, v)
  BY <1>2, <1>3, SetHolds DEF TypeOK
<1>5. SUFFICES Reflects(config', file, set_keys \cup {Current.key}, at + 1)
  BY <1>3 DEF Progress
<1>6. SUFFICES ASSUME NEW key \in set_keys \cup {Current.key}
               PROVE  \E i \in 1 .. at :
                          IsLast(file, key, i, at + 1) /\ Holds(config', key, file[i].value)
  BY <1>1 DEF Reflects
<1>7. CASE key = Current.key
  <2>1. IsLast(file, key, at, at + 1)
    BY <1>1, <1>2, <1>7 DEF IsLast
  <2>2. QED  BY <1>1, <1>4, <1>7, <2>1
<1>8. CASE key # Current.key
  <2>1. key \in set_keys /\ key \in ToSet(mirua_config_mappings)
    BY <1>6, <1>8 DEF TypeOK
  <2>2. PICK i \in 1 .. at - 1 :
           IsLast(file, key, i, at) /\ Holds(config, key, file[i].value)
    BY <1>1, <2>1 DEF Progress, Reflects
  <2>3. file[i].value \in Value
    <3>1. file[i] \in Line
      BY <1>1
    <3>2. QED  BY <3>1 DEF Line
  <2>4. Holds(config', key, file[i].value)
    BY <1>4, <1>8, <2>1, <2>2, <2>3
  <2>5. IsLast(file, key, i, at + 1)
    BY <1>1, <1>2, <1>8, <2>2 DEF IsLast
  <2>6. QED  BY <1>1, <2>4, <2>5
<1>9. QED  BY <1>7, <1>8

\* No other step touches what was set, or moves past a line that holds a key.
LEMMA ProgressStep == TypeOK /\ Progress /\ [Next]_vars => Progress'
<1>1. SUFFICES ASSUME TypeOK, Progress, [Next]_vars, pc' = "loading", ~has_errors'
               PROVE  Progress'
  BY DEF Progress
<1>2. CASE SetByIndex \/ SetByKey \/ LoadFails \/ LoadDone
  BY <1>1, <1>2 DEF SetByIndex, SetByKey, LoadFails, LoadDone, load
<1>3. CASE LoadStart
  BY <1>3 DEF LoadStart, Progress, Reflects
<1>4. CASE RefuseLine
  BY <1>1, <1>4 DEF RefuseLine
<1>5. CASE AcceptLine
  BY <1>1, <1>5, LineAccepted DEF AcceptLine
<1>6. CASE SkipLine
  <2>1. /\ pc = "loading" /\ ~has_errors /\ at \in 1 .. Len(file) /\ file[at].kind # "pair"
        /\ config' = config /\ file' = file /\ set_keys' = set_keys /\ at' = at + 1
    BY <1>1, <1>6 DEF SkipLine, Reading, Current, TypeOK
  <2>2. ASSUME NEW key \in set_keys
        PROVE  \E i \in 1 .. at :
                  IsLast(file, key, i, at + 1) /\ Holds(config, key, file[i].value)
    <3>1. PICK i \in 1 .. at - 1 :
             IsLast(file, key, i, at) /\ Holds(config, key, file[i].value)
      BY <1>1, <2>1 DEF Progress, Reflects
    <3>2. IsLast(file, key, i, at + 1)
      BY <2>1, <3>1 DEF IsLast
    <3>3. QED  BY <2>1, <3>1, <3>2
  <2>3. Reflects(config, file, set_keys, at + 1)
    BY <2>1, <2>2 DEF Reflects
  <2>4. QED  BY <2>1, <2>3 DEF Progress
<1>7. CASE UNCHANGED vars
  <2>1. /\ pc' = pc /\ config' = config /\ file' = file /\ at' = at
        /\ set_keys' = set_keys /\ has_errors' = has_errors
    BY <1>7 DEF vars
  <2>2. QED  BY <1>1, <2>1 DEF Progress
<1>8. QED
  BY <1>1, <1>2, <1>3, <1>4, <1>5, <1>6, <1>7 DEF Next, Load

\* A load that returns true leaves what the file says, for files of any length
\* and settings of any kind before it (mirua_config_load_from_file).
THEOREM LoadLeavesFile == Spec => LoadedAsWritten
<1>1. Init => Progress
  BY DEF Init, Progress, Reflects
<1>2. TypeOK /\ Progress /\ [Next]_vars =>
        [loaded' = "ok" /\ pc = "loading" /\ pc' = "idle" =>
            config = [endpoint |-> LastLine("endpoint"),
                      defaultRoot |-> LastLine("defaultRoot").nodeid,
                      selectedDataTypeKinds |-> Declared(LastLine("filter").items),
                      filterType |-> mirua_filter_parse_type(LastLine("filter_type").word),
                      printLevel |-> LastLine("print_level").int]]_vars
  <2>1. SUFFICES ASSUME TypeOK, Progress, Next, loaded' = "ok", pc = "loading", pc' = "idle"
        PROVE  config = [endpoint |-> LastLine("endpoint"),
                         defaultRoot |-> LastLine("defaultRoot").nodeid,
                         selectedDataTypeKinds |-> Declared(LastLine("filter").items),
                         filterType |-> mirua_filter_parse_type(LastLine("filter_type").word),
                         printLevel |-> LastLine("print_level").int]
    OBVIOUS
  <2>2. LoadDone
    BY <2>1 DEF Next, Load, SetByIndex, SetByKey, LoadFails, LoadStart, SkipLine,
                RefuseLine, AcceptLine
  <2>3. ~has_errors /\ set_keys = ToSet(mirua_config_mappings) /\ at = Len(file) + 1
    BY <2>1, <2>2 DEF LoadDone, TypeOK
  <2>4. ASSUME NEW key \in ToSet(mirua_config_mappings)
        PROVE  Holds(config, key, LastLine(key))
    <3> DEFINE last(i) == /\ i \in DOMAIN file
                          /\ file[i].kind = "pair" /\ file[i].key = key
                          /\ \A j \in i + 1 .. Len(file) :
                                 ~(file[j].kind = "pair" /\ file[j].key = key)
    <3>1. PICK i \in 1 .. at - 1 : IsLast(file, key, i, at) /\ Holds(config, key, file[i].value)
      BY <2>1, <2>3 DEF Progress, Reflects
    <3>2. DOMAIN file = 1 .. Len(file) /\ Len(file) \in Nat
      BY <2>1 DEF TypeOK
    <3>3. last(i)
      BY <2>3, <3>1, <3>2 DEF IsLast
    <3>4. \A j : last(j) => j = i
      BY <3>1, <3>2, <3>3
    <3>5. LastLine(key) = file[i].value
      BY <3>3, <3>4 DEF LastLine
    <3>6. QED  BY <3>1, <3>5
  <2>5. /\ config.endpoint = LastLine("endpoint")
        /\ config.defaultRoot = LastLine("defaultRoot").nodeid
        /\ config.selectedDataTypeKinds = Declared(LastLine("filter").items)
        /\ config.filterType = mirua_filter_parse_type(LastLine("filter_type").word)
        /\ config.printLevel = LastLine("print_level").int
    BY <2>4, Mappings DEF Holds
  <2>6. config \in Settings
    BY <2>1 DEF TypeOK
  <2>7. QED  BY <2>5, <2>6 DEF Settings
<1>3. QED
  BY <1>1, <1>2, ProgressStep, ConfigTypeCorrect, PTL DEF Spec, LoadedAsWritten
=============================================================================
