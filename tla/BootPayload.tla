---------------------------- MODULE BootPayload ----------------------------
(***************************************************************************)
(* The payload of GET /api/boot (src/server/boot.node.ts): three layers of  *)
(* configuration merged, the locale matched with those that are available,  *)
(* and its messages filled up with the English ones.  It is built once, as  *)
(* the server starts, from files of which most may be missing or broken.    *)
(***************************************************************************)
EXTENDS Naturals, Sequences, SequencesExt

CONSTANTS
  BootInputs, \* files and environment the server may start with
  ConfigPath, \* paths of settings, sequences of keys
  MessageKey, \* keys of messages
  Language,   \* languages
  Region      \* regions of languages, "" for none

VARIABLES
  bootFiles,   \* what the server starts with
  bootPayload  \* the payload, NoPayload before it is built, BootFailed if that throws
bootVars == <<bootFiles, bootPayload>>

BootInit == bootFiles \in BootInputs /\ bootPayload = [state |-> "none"]

\* A JSON file: [state |-> "ok", json |-> ...], or one of these.
Missing == [state |-> "missing"]
Broken  == [state |-> "broken"]
Json(x) == [state |-> "ok", json |-> x]
IsRead(file) == file.state = "ok"
----------------------------------------------------------------------------
\* A configuration is a tree, given by what stands at each of its paths: an object,
\* or a value, as an array is one.
Object    == [object |-> TRUE]
Plain(v)  == [object |-> FALSE, value |-> v]
Undefined == Plain("undefined")
Null      == Plain("null")

\* What a path leads through, itself included.
UpTo(path) == Prefixes(path) \ {<<>>}
IsConfig(cfg) ==
  \A path \in DOMAIN cfg :
    /\ path \in Seq(STRING) \ {<<>>} /\ cfg[path] # Undefined
    /\ \A p \in UpTo(path) \ {path} : p \in DOMAIN cfg /\ cfg[p] = Object

\* The else branch: a key of source that is not an object in both takes target's place.
Replaces(target, source, p) ==
  p \in DOMAIN source /\ ~(source[p] = Object /\ p \in DOMAIN target /\ target[p] = Object)
\* It goes down into objects of both, one key after the other.
deepMerge(target, source) ==
  LET from(path) == IF \E p \in UpTo(path) : Replaces(target, source, p) THEN source ELSE target
  IN  [path \in {p \in DOMAIN target \cup DOMAIN source : p \in DOMAIN from(p)} |-> from(path)[path]]

\* One key after the other, which for a path of keys of objects is the entry at the
\* path.  An array is a plain value: no path of the code names an index or the length
\* of one, and any other key of an array is undefined, as of a plain value.
getConfigValue(cfg, path) == IF path \in DOMAIN cfg THEN cfg[path] ELSE Undefined

\* config/default.json must be there, the other layers need not.
Layer(file) == IF IsRead(file) THEN file.json ELSE <<>>
EnvLast(files) == deepMerge(deepMerge(files.default.json, Layer(files.local)), Layer(files.env))
Merged(files) == deepMerge(deepMerge(files.default.json, Layer(files.env)), Layer(files.local))

\* getConfigValue(...) ?? <the default in the code>
ConfigOf(cfg) ==
  [path \in ConfigPath |->
     IF getConfigValue(cfg, path) \in {Undefined, Null} THEN Plain("default")
     ELSE getConfigValue(cfg, path)]
----------------------------------------------------------------------------
Locale  == Language \X Region
English == <<"en", "">>
getAvailableLocales(files) == IF IsRead(files.available) THEN files.available.json ELSE <<English>>

\* The only preference is the hint of the environment, or English.
matchLocale(loc, available) ==
  LET regions == {i \in DOMAIN available : available[i][1] = loc[1] /\ available[i][2] # ""} IN
  CASE loc \in Range(available) -> loc
    [] loc \notin Range(available) /\ <<loc[1], "">> \in Range(available) -> <<loc[1], "">>
    [] loc \notin Range(available) /\ <<loc[1], "">> \notin Range(available)
       /\ regions # {} -> available[CHOOSE i \in regions : \A j \in regions : i <= j]
    [] OTHER -> English

\* Messages of the compact form (keys.json and the English values exist), each the locale's text or else the English one.
Text(key, own, english) ==
  IF key \in own THEN "own" ELSE IF key \in english THEN "english" ELSE "none"
\* The plain form is all or nothing: without the locale's file English is not used either.
loadLocale(locale, files) ==
  LET file    == IF locale = English THEN files.english ELSE files.own
      english == IF IsRead(files.english) THEN files.english.json ELSE {}
      own     == IF locale = English THEN {} ELSE IF IsRead(file) THEN file.json ELSE {}
  IN  [key \in MessageKey |->
         IF ~files.compact /\ ~(IsRead(file) /\ IsRead(files.english)) THEN "none"
         ELSE Text(key, own, english)]
----------------------------------------------------------------------------
\* Of what must parse: default.json, package.json, a list of locales and English
\* compact values that are there.
Throws(files) ==
  \/ ~IsRead(files.default) \/ ~IsRead(files.package)
  \/ files.available = Broken
  \/ files.compact /\ files.english = Broken

buildBootPayload(files) ==
  LET locale == matchLocale(files.hint, getAvailableLocales(files)) IN
  [state    |-> "built",
   config   |-> ConfigOf(Merged(files)),
   locale   |-> locale,
   messages |-> loadLocale(locale, files)]

\* Every file that is read holds what it is the file of.
ASSUME BootAssumption ==
  /\ ConfigPath \subseteq Seq(STRING) \ {<<>>}
  /\ English \in Locale
  /\ \A files \in BootInputs :
       /\ IsRead(files.default) => IsConfig(files.default.json)
       /\ IsRead(files.env) => IsConfig(files.env.json)
       /\ IsRead(files.local) => IsConfig(files.local.json)
       /\ files.hint \in Locale /\ files.compact \in BOOLEAN
       /\ IsRead(files.available) => files.available.json \in Seq(Locale)
       /\ IsRead(files.english) => files.english.json \subseteq MessageKey

\* getBootPayload, as the server starts; later requests get the cached payload.
BuildBoot ==
  /\ bootPayload.state = "none"
  /\ bootPayload' = IF Throws(bootFiles) THEN [state |-> "failed"] ELSE buildBootPayload(bootFiles)
  /\ UNCHANGED bootFiles

BootNext == BuildBoot
BootSpec == BootInit /\ [][BootNext]_bootVars
----------------------------------------------------------------------------
BootTypeOK ==
  /\ bootFiles.compact \in BOOLEAN /\ bootFiles.hint \in Locale
  /\ bootPayload.state \in {"none", "built", "failed"}

\* The reference: a path has the value of the last layer that says something of it,
\* at the path or at one above it.
Speaks(cfg, path) == \E p \in UpTo(path) : p \in DOMAIN cfg /\ cfg[p] # Object
LastWord(layers, path) ==
  LET speaking == {i \in DOMAIN layers : Speaks(layers[i], path)}
      node     == IF speaking = {} THEN Undefined
                  ELSE getConfigValue(layers[CHOOSE i \in speaking : \A j \in speaking : j <= i], path)
  IN  IF node \in {Undefined, Null} THEN Plain("default") ELSE node

(* A setting has the value of the strongest layer that says something of it *)
(* (the precedence of the config package that boot.node.ts:10-11 names), a  *)
(* null or a value in an object's place included; the locale is one that is  *)
(* available, of the hint's language if there is any, and the hint itself   *)
(* where it can be; and in the compact form no message that exists in       *)
(* English is without text.                                                 *)
BootPayloadIsRight ==
  bootPayload.state = "built" =>
    LET layers    == <<bootFiles.default.json, Layer(bootFiles.env), Layer(bootFiles.local)>>
        available == Range(getAvailableLocales(bootFiles))
        locale    == bootPayload.locale
    IN
    /\ \A path \in ConfigPath :
         \/ bootPayload.config[path] = LastWord(layers, path)
         \/ bootPayload.config[path].object
    /\ locale \in available \cup {English}
    /\ bootFiles.hint \in available => locale = bootFiles.hint
    /\ (\E a \in available : a[1] = bootFiles.hint[1]) => locale[1] = bootFiles.hint[1]
    /\ bootFiles.compact /\ IsRead(bootFiles.english) =>
         \A key \in bootFiles.english.json : bootPayload.messages[key] # "none"
=============================================================================
