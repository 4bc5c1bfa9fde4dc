------------------------------ MODULE Compat ------------------------------
(***************************************************************************)
(* The functions of compat.py: safe_dump and safe_dump_all serialise each  *)
(* document, parse that, merge the caller's configuration with the         *)
(* settings that keep types, dump again, and write when all is done;       *)
(* safe_load and safe_load_all read the stream back.  Every stage may      *)
(* raise, and then the call is over.                                       *)
(*                                                                         *)
(* What is written for one document and read back of it are parameters;    *)
(* CompatText gives them the writers of Layout and a parser.  Input is     *)
(* read and decoded before anything else happens (_read_input) and         *)
(* configurations come as what they parse to.                              *)
(***************************************************************************)
EXTENDS Integers, Sequences, FiniteSets, SequencesExt

CONSTANTS
    Calls,         \* documents and configurations
    Serialized(_), \* the lines of a document, as _python_to_yaml writes it
    Parsed(_),     \* the node that load makes of them, or Unreadable
    Dumped(_, _),  \* the lines of a node, as the dumper writes it when so set
    Loaded(_),     \* the value that safe_load makes of those, or Unreadable
    Faithful(_),   \* whether a document's texts are quoted so as to be read back
    Unreadable

VARIABLES
    call,     \* the arguments: docs and config
    at,       \* the next stage
    text,     \* the lines _python_to_yaml made
    node,     \* what they were parsed to
    settings, \* the configuration the dumper uses
    parts,    \* the chunks made so far
    stream,   \* what was written: a sequence of lines
    raised,   \* the exception that ended the call, or "none"
    loaded    \* what a load returned: the values, or the exception

vars == <<call, at, text, node, settings, parts, stream, raised, loaded>>

----------------------------------------------------------------------------
(* The configuration: a function from field names to values. *)

Number(n) == [type |-> "int", num |-> n]
Bool(b) == [type |-> "bool", bool |-> b]
Word(w) == [type |-> "str", word |-> w]

IntFields == {"indent", "lineWidth"}
BoolFields == {"sortKeys", "allowReservedPlain", "omitEmpty", "compactSequenceMap"}
Words == [defaultStyle |-> {"block", "flow", "auto"},
          scalarStyle |->
              {"plain", "doubleQuoted", "singleQuoted", "auto", "preserve"}]

\* Mutant: isinstance(True, int) holds.
ValidSubclass(field, value) ==
    CASE field \in IntFields ->
            \/ value.type = "int" /\ value.num >= 0
            \/ value.type = "bool"
      [] field \in BoolFields -> value.type = "bool"
      [] field \in DOMAIN Words -> value.type = "str" /\ value.word \in Words[field]
      [] OTHER -> TRUE

\* _DUMP_CONFIG_SPEC; fields it does not name are not looked at.
Valid(field, value) ==
    CASE field \in IntFields -> value.type = "int" /\ value.num >= 0
      [] field \in BoolFields -> value.type = "bool"
      [] field \in DOMAIN Words -> value.type = "str" /\ value.word \in Words[field]
      [] OTHER -> TRUE

Fidelity == [scalarStyle |-> Word("preserve"), allowReservedPlain |-> Bool(TRUE)]

\* setdefault: what the user set wins.
Merged(user) ==
    [f \in DOMAIN user \cup DOMAIN Fidelity |->
        IF f \in DOMAIN user THEN user[f] ELSE Fidelity[f]]

\* YAML, a mapping, and every field that is known has a value of its kind; no
\* configuration, or an empty one, has no fields.
ConfigAccepted(config) ==
    /\ config.parses
    /\ config.mapping
    /\ \A f \in DOMAIN config.fields : Valid(f, config.fields[f])

----------------------------------------------------------------------------
(* The dumper's reader of the configuration. *)

DefaultDumpConfig ==
    [indent |-> Number(2), lineWidth |-> Number(80), sortKeys |-> Bool(FALSE),
     allowReservedPlain |-> Bool(FALSE), omitEmpty |-> Bool(FALSE),
     compactSequenceMap |-> Bool(FALSE), defaultStyle |-> Word("block"),
     scalarStyle |-> Word("auto")]

\* A Nat, true or false, or a constructor's name.
FromYaml(field, value) ==
    CASE field \in IntFields -> value.type = "int" /\ value.num >= 0
      [] field \in BoolFields -> value.type = "bool"
      [] field \in DOMAIN Words -> value.type = "str" /\ value.word \in Words[field]

\* configParserLimits: the configuration is parsed under tight limits.
WithinLimits(config) == \A f \in DOMAIN config : config[f].type # "oversize"

\* One field that cannot be read and all of them are the defaults.
ParseConfig(config) ==
    IF /\ WithinLimits(config)
       /\ \A f \in DOMAIN config \cap DOMAIN DefaultDumpConfig : FromYaml(f, config[f])
    THEN [f \in DOMAIN DefaultDumpConfig |->
            IF f \in DOMAIN config THEN config[f] ELSE DefaultDumpConfig[f]]
    ELSE DefaultDumpConfig

\* What the dumper uses of it.
Settings(config) ==
    [indent |-> config.indent.num,
     omitEmpty |-> config.omitEmpty.bool,
     compactSequenceMap |-> config.compactSequenceMap.bool,
     allowReservedPlain |-> config.allowReservedPlain.bool,
     defaultStyle |-> config.defaultStyle.word,
     scalarStyle |-> config.scalarStyle.word]

\* dumpWithYamlConfig reads what _fidelity_config made.
Used(config) == ParseConfig(Merged(config.fields))

----------------------------------------------------------------------------
(* Dumping. *)

SeparatorLine == [col |-> 0, marks |-> <<[mark |-> "separator"]>>]

\* What a call can have the dumper write for its i-th document.
Chunk(c, i) == Dumped(Parsed(Serialized(c.docs[i])), Settings(Used(c.config)))

IsChunk(lines) ==
    /\ lines \in Seq(ToSet(lines)) /\ lines # <<>>
    /\ SeparatorLine \notin ToSet(lines)

ASSUME CallsAssumption ==
    \A c \in Calls : /\ c.docs \in Seq(ToSet(c.docs))
                     /\ Unreadable \notin ToSet(c.docs)

\* A literal scalar's lines begin in the first column if nothing is indented, and
\* may then be anything; `auto` is the preference that makes one.
Contained(cfg) == cfg.scalarStyle = "auto" => cfg.indent > 0

\* The dumper writes at least a line for a document, and no separator.
ASSUME ChunksAssumption ==
    \A c \in Calls :
        ConfigAccepted(c.config) /\ Contained(Settings(Used(c.config))) =>
            \A i \in DOMAIN c.docs :
                Parsed(Serialized(c.docs[i])) # Unreadable => IsChunk(Chunk(c, i))

Document == call.docs[Len(parts) + 1]

Raise(e) == at' = "over" /\ raised' = e

\* _python_to_yaml of the next document
Serialize ==
    /\ at = "serialize" /\ Len(parts) < Len(call.docs)
    /\ text' = Serialized(Document)
    /\ at' = "parse"
    /\ UNCHANGED <<call, node, settings, parts, stream, raised, loaded>>

\* load(yaml_str, limits="unlimited")
Parse ==
    /\ at = "parse" /\ Parsed(text) # Unreadable
    /\ node' = Parsed(text)
    /\ at' = "config"
    /\ UNCHANGED <<call, text, settings, parts, stream, raised, loaded>>

\* Mutant: the exception is noted and the text taken as it is.
ParseFailsLate ==
    /\ at = "parse" /\ Parsed(text) = Unreadable
    /\ at' = "config" /\ raised' = "ParseError"
    /\ UNCHANGED <<call, text, node, settings, parts, stream, loaded>>

ParseFails ==
    /\ at = "parse" /\ Parsed(text) = Unreadable
    /\ Raise("ParseError")
    /\ UNCHANGED <<call, text, node, settings, parts, stream, loaded>>

\* _fidelity_config, and its result read by the dumper
Configure ==
    /\ at = "config" /\ ConfigAccepted(call.config)
    /\ settings' = Used(call.config)
    /\ at' = "dump"
    /\ UNCHANGED <<call, text, node, parts, stream, raised, loaded>>

ConfigFails ==
    /\ at = "config" /\ ~ConfigAccepted(call.config)
    /\ Raise("ConfigError")
    /\ UNCHANGED <<call, text, node, settings, parts, stream, loaded>>

\* dump_configured, whose text has no newline at its end
DumpConfigured ==
    /\ at = "dump"
    /\ parts' = Append(parts, Dumped(node, Settings(settings)))
    /\ at' = "serialize"
    /\ UNCHANGED <<call, text, node, settings, stream, raised, loaded>>

\* A newline ends each chunk, `---` stands between two.
Joined(chunks) ==
    FlattenSeq([i \in DOMAIN chunks |->
        (IF i = 1 THEN <<>> ELSE <<SeparatorLine>>) \o chunks[i]])

\* Mutant: each document is written as soon as it is dumped.
WriteEach ==
    /\ at = "serialize" /\ (parts # <<>> \/ call.docs = <<>>)
    /\ stream' = Joined(parts)
    /\ at' = IF Len(parts) = Len(call.docs) THEN "written" ELSE at
    /\ UNCHANGED <<call, text, node, settings, parts, raised, loaded>>

\* stream.write, once all the documents are dumped
Write ==
    /\ at = "serialize" /\ Len(parts) = Len(call.docs)
    /\ stream' = Joined(parts)
    /\ at' = "written"
    /\ UNCHANGED <<call, text, node, settings, parts, raised, loaded>>

----------------------------------------------------------------------------
(* Loading what was written. *)

\* Where the documents of a stream end.
Ends(lines) ==
    {i \in DOMAIN lines : lines[i] = SeparatorLine} \cup {Len(lines) + 1}

\* The numbers of a set in their order (SetToSortSeq has no definition that the
\* proofs could use).
InOrder(S) ==
    CHOOSE s \in [1..Cardinality(S) -> S] :
        \A i, j \in 1..Cardinality(S) : i < j => s[i] < s[j]

\* The lines of each document.
Split(lines) ==
    LET ends == InOrder(Ends(lines))
        begin(i) == IF i = 1 THEN 1 ELSE ends[i - 1] + 1
    IN  IF lines = <<>> THEN <<>>
        ELSE [i \in DOMAIN ends |-> SubSeq(lines, begin(i), ends[i] - 1)]

Documents == Split(stream)

Values == [i \in DOMAIN Documents |-> Loaded(Documents[i])]

StreamLegible == \A i \in DOMAIN Values : Values[i] # Unreadable

Load(result) ==
    /\ at = "written"
    /\ loaded' = result
    /\ at' = "over"
    /\ UNCHANGED <<call, text, node, settings, parts, stream, raised>>

\* safe_load_all, with or without limits
SafeLoadAll == StreamLegible /\ Load(Values)

Null == [type |-> "null", text |-> "null"]

\* safe_load: an empty stream is null, several documents an error
SafeLoad ==
    /\ StreamLegible /\ Len(Values) <= 1
    /\ Load(IF Values = <<>> THEN <<Null>> ELSE Values)

\* safe_load with limits: the first of any number of documents
SafeLoadLimited ==
    /\ StreamLegible /\ Values # <<>>
    /\ Load(<<Values[1]>>)

SafeLoadFails ==
    /\ at = "written" /\ Raise("ParseError")
    /\ ~StreamLegible \/ Len(Documents) > 1
    /\ UNCHANGED <<call, text, node, settings, parts, stream, loaded>>

\* ParseError is local to the function, and imported on another path only.
SafeLoadLimitedFails ==
    /\ at = "written" /\ Raise("UnboundLocalError")
    /\ Documents = <<>>
    /\ UNCHANGED <<call, text, node, settings, parts, stream, loaded>>

----------------------------------------------------------------------------

Init ==
    /\ call \in Calls
    /\ at = "serialize"
    /\ text = <<>> /\ node = Unreadable
    /\ settings = DefaultDumpConfig
    /\ parts = <<>> /\ stream = <<>>
    /\ raised = "none" /\ loaded = <<>>

Next ==
    \/ Serialize \/ Parse \/ ParseFails \/ Configure \/ ConfigFails
    \/ DumpConfigured \/ Write
    \/ SafeLoadAll \/ SafeLoad \/ SafeLoadLimited \/ SafeLoadFails
    \/ SafeLoadLimitedFails

Spec == Init /\ [][Next]_vars

----------------------------------------------------------------------------
(* Properties. *)

Stages == {"serialize", "parse", "config", "dump", "written", "over"}

TypeOK ==
    /\ at \in Stages
    /\ DOMAIN settings = DOMAIN DefaultDumpConfig
    /\ Len(parts) <= Len(call.docs)
    /\ raised \in {"none", "ParseError", "ConfigError", "UnboundLocalError"}
    /\ raised # "none" => at = "over"

\* The configurations that leave types, empty collections and columns alone: a
\* compact mapping's first key is two columns behind its dash.
Keeps(cfg) ==
    /\ cfg.scalarStyle = "preserve" /\ cfg.allowReservedPlain
    /\ ~cfg.omitEmpty
    /\ cfg.defaultStyle # "flow" =>
        cfg.indent > 0 /\ (cfg.compactSequenceMap => cfg.indent = 2)

\* What is written loads back as the same values of the same types, through two
\* writers, two parses and two choices of style; and nothing else is raised
\* (safe_dump_all, safe_load_all).
RoundTrips ==
    (\A i \in DOMAIN call.docs : Faithful(call.docs[i])) =>
        /\ (at = "written" /\ (parts # <<>> => Keeps(Settings(settings))))
              => StreamLegible /\ Values = call.docs
        /\ (raised = "ParseError" => stream # <<>>)

\* A configuration that is accepted is the one that is used: no field of it is
\* dropped because the dumper reads it otherwise, and what it does not mention
\* is set to keep types.  Only a field nobody knows can be too large for the
\* dumper's parser (_fidelity_config, dumpWithYamlConfig).
ConfigEffective ==
    (at = "dump" /\ WithinLimits(call.config.fields)) =>
        \A f \in DOMAIN settings :
            settings[f] = IF f \in DOMAIN call.config.fields THEN call.config.fields[f]
                          ELSE IF f \in DOMAIN Fidelity THEN Fidelity[f]
                          ELSE DefaultDumpConfig[f]

\* The stream has all the documents, each on lines of its own, or nothing: a
\* document that fails takes those before it with it (safe_dump_all).
AllOrNothing ==
    stream # <<>> =>
        /\ Len(parts) = Len(call.docs)
        /\ Contained(Settings(settings)) => Documents = parts

=============================================================================
