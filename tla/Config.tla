------------------------------- MODULE Config -------------------------------
(***************************************************************************)
(* The settings of a session: "set <key> <value>" and "set <index>         *)
(* <value>" of the config state, the loading of a config file, and what    *)
(* the filter settings do to a listing.                                    *)
(*                                                                         *)
(* A value is text; it is what the parsers of the settings make of it: does *)
(* it start with "opc.tcp://", which node id is it (NullId: none), which   *)
(* filter tokens does it hold, is it "ALL" or "UA", and its atoi.  A bit   *)
(* mask is the set of its bits.                                            *)
(***************************************************************************)
EXTENDS Integers, SequencesExt

CONSTANTS
    NodeId, NullId,      \* the node ids a text can stand for, and "no node id"
    Value,               \* the texts
    DefaultConfig,       \* the settings mirua_module_create leaves
    File                 \* the config files: sequences of lines

Word == {"ALL", "UA", "other"}

\* One token between the commas of a filter.  start and stop are the numbers
\* before and after its first dash; a clean token is nothing but the two.
Item == [dash : BOOLEAN, clean : BOOLEAN, start : Int, stop : Int]

ValueType ==
    [opc : BOOLEAN, nodeid : NodeId \cup {NullId}, items : Seq(Item), word : Word, int : Int]

FilterType == {"INVALID", "ALL", "UA_TYPES"}

Settings ==
    [endpoint : Value, defaultRoot : NodeId \cup {NullId},
     selectedDataTypeKinds : SUBSET (0 .. 31), filterType : FilterType, printLevel : Int]

\* The keys a line of a file may hold, besides those of the mappings.
mirua_config_mappings == <<"endpoint", "defaultRoot", "filter", "filter_type", "print_level">>
Key == ToSet(mirua_config_mappings) \cup {"default_path"}

Line == [kind : {"ignored", "no_pair", "too_long", "pair"}, key : Key, value : Value]

ASSUME ConfigAssumption ==
    /\ NullId \notin NodeId
    /\ Value \subseteq ValueType
    /\ DefaultConfig \in Settings
    /\ DefaultConfig.defaultRoot # NullId
    /\ File \subseteq Seq(Line)

VARIABLES
    config,     \* ctx->config
    pc,         \* "idle", or "loading" while a file is read
    file,       \* the file being read
    at,         \* the line to be read next
    set_keys,   \* the keys that were set by this file
    has_errors,
    loaded      \* what the last load returned: "none", "ok" or "errors"

load == <<pc, file, at, set_keys, has_errors, loaded>>
vars == <<config, pc, file, at, set_keys, has_errors, loaded>>

TypeOK ==
    /\ config \in Settings
    /\ pc \in {"idle", "loading"}
    /\ file \in Seq(Line)
    /\ at \in 1 .. Len(file) + 1
    /\ set_keys \subseteq ToSet(mirua_config_mappings)
    /\ has_errors \in BOOLEAN
    /\ loaded \in {"none", "ok", "errors"}

Init ==
    /\ config = DefaultConfig
    /\ pc = "idle" /\ file = << >> /\ at = 1
    /\ set_keys = {} /\ has_errors = FALSE /\ loaded = "none"

-----------------------------------------------------------------------------
(* The filters. *)

\* The bits of one range of mirua_parse_filters: the start is clamped to 0, the
\* stop to 32 and then to the start, and there are 32 bits.
Bits(item) ==
    LET start == IF item.start < 0 THEN 0 ELSE item.start
        cut   == IF item.stop > 32 THEN 32 ELSE item.stop
        stop  == IF cut < start THEN start ELSE cut
    IN  {i \in 0 .. 31 : start <= i /\ i <= stop}

\* A token without a dash is reported and sets nothing.
mirua_parse_filters(items) ==
    UNION {Bits(items[k]) : k \in {j \in DOMAIN items : items[j].dash}}

\* The check of a filter in a file.
mirua_isvalid_filter_str(items) ==
    \A k \in DOMAIN items :
       /\ items[k].dash /\ items[k].clean
       /\ 0 <= items[k].start
       /\ items[k].start <= items[k].stop
       /\ items[k].stop < 32

mirua_filter_parse_type(word) ==
    CASE word = "ALL" -> "ALL" [] word = "UA" -> "UA_TYPES" [] OTHER -> "INVALID"

\* The kinds of the values of nodes, and a node whose value cannot be read.
NoValue == -1
Kind == {NoValue} \cup 0 .. 30

\* Mutant: an empty mask lists nothing.
Listed_MaskOnly(settings, kind) ==
    settings.filterType = "UA_TYPES" => kind \in settings.selectedDataTypeKinds

\* Does mirua_explore_children list a child whose value is of this kind?  The
\* kind is asked for only where a value can be read, folders have none.
Listed(settings, kind) ==
    settings.filterType = "UA_TYPES" =>
       /\ kind # NoValue
       /\ settings.selectedDataTypeKinds = {} \/ kind \in settings.selectedDataTypeKinds

-----------------------------------------------------------------------------
(* The settings. *)

\* mirua_config_set_by_idx.  The node id is cleared before the text is parsed:
\* a text that is none leaves no default root.
mirua_config_set_by_idx(settings, idx, value) ==
    CASE idx = 0 -> [settings EXCEPT !.endpoint = value]
      [] idx = 1 -> [settings EXCEPT !.defaultRoot = value.nodeid]
      [] idx = 2 -> [settings EXCEPT !.selectedDataTypeKinds = mirua_parse_filters(value.items)]
      [] idx = 3 -> [settings EXCEPT !.filterType = mirua_filter_parse_type(value.word)]
      [] idx = 4 -> [settings EXCEPT !.printLevel = value.int]
      [] OTHER   -> settings

\* An unknown key sets nothing.
mirua_config_set(settings, key, value) ==
    IF key \in ToSet(mirua_config_mappings)
      THEN mirua_config_set_by_idx(
               settings,
               CHOOSE i \in 0 .. 4 : mirua_config_mappings[i + 1] = key,
               value)
      ELSE settings

\* "set <index> <value>": an index past the mappings is ignored.
SetByIndex ==
    /\ pc = "idle"
    /\ \E idx \in 0 .. 5, value \in Value :
          config' = mirua_config_set_by_idx(config, idx, value)
    /\ UNCHANGED load

\* "set <key> <value>".
SetByKey ==
    /\ pc = "idle"
    /\ \E key \in Key, value \in Value : config' = mirua_config_set(config, key, value)
    /\ UNCHANGED load

-----------------------------------------------------------------------------
(* mirua_config_load_from_file, line by line. *)

LoadFails ==    \* the file cannot be opened
    /\ pc = "idle"
    /\ loaded' = "errors"
    /\ UNCHANGED <<config, pc, file, at, set_keys, has_errors>>

LoadStart ==
    /\ pc = "idle"
    /\ pc' = "loading"
    /\ file' \in File
    /\ at' = 1 /\ set_keys' = {} /\ has_errors' = FALSE
    /\ UNCHANGED <<config, loaded>>

Reading == pc = "loading" /\ at <= Len(file)

Current == file[at]

\* Empty lines and comments.
SkipLine ==
    /\ Reading
    /\ Current.kind = "ignored"
    /\ at' = at + 1
    /\ UNCHANGED <<config, pc, file, set_keys, has_errors, loaded>>

\* The key is checked against the mappings first: "default_path", which the
\* code below the check knows, is an unknown key.
Acceptable ==
    /\ Current.kind = "pair"
    /\ Current.key \in ToSet(mirua_config_mappings)
    /\ Current.key = "endpoint" => Current.value.opc
    /\ Current.key = "defaultRoot" => Current.value.nodeid # NullId
    /\ Current.key = "filter" => mirua_isvalid_filter_str(Current.value.items)

\* Mutant: no `continue` behind a node id that does not parse.
RefuseLine_SetsNodeId ==
    /\ Reading
    /\ Current.kind # "ignored" /\ ~Acceptable
    /\ has_errors' = TRUE
    /\ at' = at + 1
    /\ IF Current.kind = "pair" /\ Current.key = "defaultRoot"
         THEN /\ config' = mirua_config_set(config, Current.key, Current.value)
              /\ set_keys' = set_keys \cup {Current.key}
         ELSE UNCHANGED <<config, set_keys>>
    /\ UNCHANGED <<pc, file, loaded>>

RefuseLine ==
    /\ Reading
    /\ Current.kind # "ignored" /\ ~Acceptable
    /\ has_errors' = TRUE
    /\ at' = at + 1
    /\ UNCHANGED <<config, pc, file, set_keys, loaded>>

\* Mutant: the first line with a key wins.
AcceptLine_First ==
    /\ Reading
    /\ Acceptable
    /\ config' = IF Current.key \in set_keys THEN config
                 ELSE mirua_config_set(config, Current.key, Current.value)
    /\ set_keys' = set_keys \cup {Current.key}
    /\ at' = at + 1
    /\ UNCHANGED <<pc, file, has_errors, loaded>>

AcceptLine ==
    /\ Reading
    /\ Acceptable
    /\ config' = mirua_config_set(config, Current.key, Current.value)
    /\ set_keys' = set_keys \cup {Current.key}
    /\ at' = at + 1
    /\ UNCHANGED <<pc, file, has_errors, loaded>>

\* Every key of the mappings is required.
LoadDone ==
    /\ pc = "loading" /\ at > Len(file)
    /\ loaded' = IF has_errors \/ set_keys # ToSet(mirua_config_mappings) THEN "errors" ELSE "ok"
    /\ pc' = "idle" /\ file' = << >> /\ at' = 1
    /\ set_keys' = {} /\ has_errors' = FALSE
    /\ UNCHANGED config

Load == SkipLine \/ RefuseLine \/ AcceptLine \/ LoadDone

Next == SetByIndex \/ SetByKey \/ LoadFails \/ LoadStart \/ Load

\* A load that was started runs to its end.
Spec == Init /\ [][Next]_vars /\ WF_vars(Load)

-----------------------------------------------------------------------------
(* Properties. *)

\* What the ranges of a filter say, without the clamping.
Declared(items) ==
    {bit \in 0 .. 31 : \E k \in DOMAIN items : items[k].start <= bit /\ bit <= items[k].stop}

\* A filter that the check of a file lets through, set over any settings, gives
\* exactly the bits that its ranges name: the two filter parsers agree, and no
\* clamping is left for the second one to do.
FilterExact ==
    \A v \in Value : mirua_isvalid_filter_str(v.items) =>
       mirua_config_set(config, "filter", v).selectedDataTypeKinds = Declared(v.items)

\* What a listing then shows, whichever filter type is set: all nodes, or the
\* values of exactly the kinds named.  A text of commas alone is accepted too
\* and names none: it lists every value.
FilterListsNamed ==
    \A v \in Value : mirua_isvalid_filter_str(v.items) =>
       LET settings == mirua_config_set(config, "filter", v)
           named == Declared(v.items)
       IN  {kind \in Kind : Listed(settings, kind)} =
               IF config.filterType # "UA_TYPES" THEN Kind
               ELSE IF named = {} THEN Kind \ {NoValue}
               ELSE named \cap Kind

\* A load that returns true has set every setting, each to what the last line
\* with its key says, whatever the settings were before.
LastLine(key) ==
    file[CHOOSE i \in DOMAIN file :
            /\ file[i].kind = "pair" /\ file[i].key = key
            /\ \A j \in i + 1 .. Len(file) : ~(file[j].kind = "pair" /\ file[j].key = key)].value

LoadedAsWritten ==
    [][loaded' = "ok" /\ pc = "loading" /\ pc' = "idle" =>
          config = [endpoint |-> LastLine("endpoint"),
                    defaultRoot |-> LastLine("defaultRoot").nodeid,
                    selectedDataTypeKinds |-> Declared(LastLine("filter").items),
                    filterType |-> mirua_filter_parse_type(LastLine("filter_type").word),
                    printLevel |-> LastLine("print_level").int]]_vars

\* No file can take the default root away, as a bad "set" does: a node id that
\* does not parse is kept from the clearing in mirua_config_set_by_idx.
LoadKeepsRoot ==
    [][pc = "loading" /\ config.defaultRoot # NullId => config'.defaultRoot # NullId]_vars

=============================================================================
