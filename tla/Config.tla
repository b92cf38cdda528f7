------------------------------- MODULE Config -------------------------------
(***************************************************************************)
(* The configuration file, shared by the three commands: parseTOML, which  *)
(* takes it line by line and knows the keys of every section, and          *)
(* ParseConfig, which takes from the result what one command needs.  A     *)
(* section may be opened again, a key may not be given twice; what a value *)
(* is, is checked only for the sections that the command uses.             *)
(***************************************************************************)
EXTENDS Integers, Sequences

CONSTANTS
  FileLines,  \* bound: the lines that a file may have
  MaxLines    \* bound: how many

ASSUME MaxLinesAssumption == MaxLines \in Nat

VARIABLES
  section,  \* the section of the current line
  raw,      \* the keys and values of each section but paths
  paths,    \* raw.paths
  lines,    \* how many lines were read
  refused   \* parseTOML has returned an error

configVars == <<section, raw, paths, lines, refused>>

Commands == {"proxy", "server", "probe"}

AllowedKeys ==
  [top    |-> {"schema_version", "name"},
   server |-> {"listen", "http_path", "connect"},
   resume |-> {"timeout", "buffer_bytes"},
   probe  |-> {"interval", "timeout", "switch_cooldown", "active_failure_threshold",
               "candidate_success_threshold", "better_rtt_min_delta", "better_rtt_ratio"},
   paths  |-> {"name", "transport", "endpoint", "priority", "enabled"}]

Named == {"server", "resume", "probe"}

\* A value is known by its Go type and by what the checks tell apart: the sign
\* of a number, the sign of a duration that a string spells, or which string.
Value(type, is) == [type |-> type, is |-> is]

Blank == [kind |-> "blank"]
Header(name) == [kind |-> "header", name |-> name]
PathHeader(name) == [kind |-> "table array", name |-> name]
\* A value of type "bad" is one that parseValue refuses; a line without = is a
\* pair whose key nobody knows.
Pair(key, value) == [kind |-> "pair", key |-> key, value |-> value]

NoKeys == <<>>

ConfigInit ==
  /\ section = "top"
  /\ raw = [s \in {"top"} \cup Named |-> NoKeys]
  /\ paths = <<>>
  /\ lines = 0
  /\ refused = FALSE

-----------------------------------------------------------------------------
(* parseTOML. *)

\* The keys of `current'.
Current == IF section = "paths" THEN paths[Len(paths)] ELSE raw[section]

\* Mutant of PairRefused: a key that is given again replaces the first.
PairRefusedUnlessKnown(l) == l.key \notin AllowedKeys[section] \/ l.value.type = "bad"
PairRefused(l) ==
  \/ l.key \notin AllowedKeys[section]
  \/ l.key \in DOMAIN Current
  \/ l.value.type = "bad"

LineRefused(l) ==
  \/ l.kind = "header" /\ l.name \notin Named
  \/ l.kind = "table array" /\ l.name # "paths"
  \/ l.kind = "pair" /\ PairRefused(l)

With(keys, key, value) == [k \in DOMAIN keys \cup {key} |-> IF k = key THEN value ELSE keys[k]]

\* Mutant of Take: a section that is opened again starts afresh.
TakeAfresh(l) ==
  \/ l.kind = "blank" /\ UNCHANGED <<section, raw, paths>>
  \/ /\ l.kind = "header"
     /\ section' = l.name /\ raw' = [raw EXCEPT ![l.name] = NoKeys]
     /\ UNCHANGED paths
  \/ /\ l.kind = "table array"
     /\ section' = "paths" /\ paths' = Append(paths, NoKeys)
     /\ UNCHANGED raw
  \/ /\ l.kind = "pair"
     /\ LET keys == With(Current, l.key, l.value)
        IN  IF section = "paths"
            THEN paths' = [paths EXCEPT ![Len(paths)] = keys] /\ UNCHANGED raw
            ELSE raw' = [raw EXCEPT ![section] = keys] /\ UNCHANGED paths
     /\ UNCHANGED section
Take(l) ==
  \/ l.kind = "blank" /\ UNCHANGED <<section, raw, paths>>
  \/ /\ l.kind = "header"
     /\ section' = l.name
     /\ UNCHANGED <<raw, paths>>
  \/ /\ l.kind = "table array"
     /\ section' = "paths" /\ paths' = Append(paths, NoKeys)
     /\ UNCHANGED raw
  \/ /\ l.kind = "pair"
     /\ LET keys == With(Current, l.key, l.value)
        IN  IF section = "paths"
            THEN paths' = [paths EXCEPT ![Len(paths)] = keys] /\ UNCHANGED raw
            ELSE raw' = [raw EXCEPT ![section] = keys] /\ UNCHANGED paths
     /\ UNCHANGED section

ReadLine(l) ==
  /\ ~refused /\ lines < MaxLines
  /\ lines' = lines + 1
  /\ refused' = LineRefused(l)
  /\ IF LineRefused(l) THEN UNCHANGED <<section, raw, paths>> ELSE Take(l)

ConfigNext == \E l \in FileLines : ReadLine(l)

ConfigSpec == ConfigInit /\ [][ConfigNext]_configVars

-----------------------------------------------------------------------------
(* ParseConfig, for the file that was read so far. *)

Required ==
  [top |-> {"schema_version", "name"}, server |-> {"listen", "connect"},
   resume |-> {}, probe |-> {}, paths |-> {"name", "endpoint"}]

IsString(v) == v.type = "string"
IsPositive(v) == v.is = "positive"
IsNatural(v) == v.is \in {"zero", "positive"}
\* time.ParseDuration of a string; requiredFloat takes an integer, too.
IsDuration(v) == IsString(v) /\ v.is \in {"negative", "zero", "positive"}
IsNumber(v) == v.type \in {"int", "float"}

TopFits(key, v) ==
  /\ key = "schema_version" => v = Value("int", "positive")
  /\ key = "name" => IsString(v) /\ v.is # "empty"

ServerFits(key, v) ==
  /\ key \in {"listen", "connect"} => IsString(v)
  /\ key = "http_path" => v = Value("string", "/path")

ResumeFits(key, v) ==
  /\ key = "timeout" => IsDuration(v) /\ IsPositive(v)
  /\ key = "buffer_bytes" => v.type = "int" /\ IsPositive(v)

ProbeFits(key, v) ==
  /\ key \in {"interval", "timeout"} => IsDuration(v) /\ IsPositive(v)
  /\ key \in {"switch_cooldown", "better_rtt_min_delta"} => IsDuration(v) /\ IsNatural(v)
  /\ key \in {"active_failure_threshold", "candidate_success_threshold"} =>
       v.type = "int" /\ IsPositive(v)
  /\ key = "better_rtt_ratio" => IsNumber(v) /\ IsNatural(v)

PathFits(key, v) ==
  /\ key = "name" => IsString(v)
  /\ key = "transport" => v = Value("string", "ws")
  /\ key = "endpoint" => v = Value("string", "ws url")
  /\ key = "priority" => v.type = "int"
  /\ key = "enabled" => v.type = "bool"

Fits(s, key, v) ==
  CASE s = "top"    -> TopFits(key, v)
    [] s = "server" -> ServerFits(key, v)
    [] s = "resume" -> ResumeFits(key, v)
    [] s = "probe"  -> ProbeFits(key, v)
    [] s = "paths"  -> PathFits(key, v)

\* A key that may be left out has a default, and the defaults fit.
AllFit(s, keys) == \A key \in DOMAIN keys : Fits(s, key, keys[key])
SectionAccepted(s, keys) == Required[s] \subseteq DOMAIN keys /\ AllFit(s, keys)

SameName(p, q) == "name" \in DOMAIN p \cap DOMAIN q /\ p["name"] = q["name"]
NamesDiffer == \A i, j \in DOMAIN paths : i # j => ~SameName(paths[i], paths[j])

\* The places of the paths that are enabled.
EnabledPaths ==
  {i \in DOMAIN paths : "enabled" \in DOMAIN paths[i] => paths[i]["enabled"].is = "true"}

\* parsePaths and the check of its result.
PathsAccepted ==
  /\ \A i \in DOMAIN paths : SectionAccepted("paths", paths[i])
  /\ NamesDiffer
  /\ EnabledPaths # {}

\* The sections, but paths, that a command uses.
Used ==
  [server |-> {"top", "server", "resume"}, proxy |-> {"top", "resume", "probe"},
   probe |-> {"top", "probe"}]

Accepted(command) ==
  /\ ~refused
  /\ \A s \in Used[command] : SectionAccepted(s, raw[s])
  /\ command # "server" => PathsAccepted

-----------------------------------------------------------------------------
ConfigTypeOK ==
  /\ section \in DOMAIN AllowedKeys
  /\ section = "paths" => paths # <<>>
  /\ \A s \in DOMAIN raw : DOMAIN raw[s] \subseteq AllowedKeys[s]
  /\ \A i \in DOMAIN paths : DOMAIN paths[i] \subseteq AllowedKeys["paths"]
  /\ lines \in 0..MaxLines
  /\ refused \in BOOLEAN

\* Nothing that was read is taken back: a later line, also one in a section
\* that is opened again or in another path, never changes a value.
KeysAreWriteOnce ==
  [][/\ \A s \in DOMAIN raw : \A k \in DOMAIN raw[s] : k \in DOMAIN raw'[s] /\ raw'[s][k] = raw[s][k]
     /\ \A i \in DOMAIN paths : \A k \in DOMAIN paths[i] :
          i \in DOMAIN paths' /\ k \in DOMAIN paths'[i] /\ paths'[i][k] = paths[i][k]]_configVars

\* What a command refuses for a line that is in the file, and not for one that
\* is missing.
Wrong(command) ==
  \/ refused
  \/ \E s \in Used[command] : ~AllFit(s, raw[s])
  \/ command # "server" /\ ~(NamesDiffer /\ \A i \in DOMAIN paths : AllFit("paths", paths[i]))

\* A wrong line cannot be hidden by the lines after it, as by a section that is
\* opened again, a key given again or one more path: no continuation of the
\* file is accepted by a command that uses what is wrong.
RefusalsAreFinal ==
  [][\A c \in Commands : Wrong(c) => Wrong(c)' /\ ~Accepted(c)']_configVars
=============================================================================
