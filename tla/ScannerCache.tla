---------------------------- MODULE ScannerCache ----------------------------
(* The caching static scanner: one source file through its two front ends, the *)
(* command (static/main.py) and the caching scanner                            *)
(* (static/scalable_scanner.py), and the cache of the latter's results         *)
(* (common/scanner_cache.py with the fingerprints of                           *)
(* common/fingerprint_engine.py).                                              *)
EXTENDS Naturals, Sequences, SequencesExt, FiniteSets

CONSTANT NoticeAbove  \* findings of one file above which a notice is added to them

(* A file's content stands for what each detector makes of it:                 *)
(*   [readable, ast, astRaises, regex, regexRaises, secrets, secretsRaise]     *)
(* with ast, regex and secrets sequences of [line, algorithm, symbol, rule],   *)
(* where a symbol of "" is none.                                               *)

Entry(f, symbol, source) ==
  [line |-> f.line, algorithm |-> f.algorithm, symbol |-> f.symbol,
   key |-> symbol, sources |-> {source}]

Or(symbol, rule) == IF symbol # "" THEN symbol ELSE rule

SamePlace(e, f) == e.line = f.line /\ e.algorithm = f.algorithm

At(entries, f, key) ==
  {k \in DOMAIN entries : SamePlace(entries[k], f) /\ entries[k].key = key}

(* An AST finding replaces one with its key, a later finding does not.         *)
AddAst(entries, f) ==
  LET same == At(entries, f, Or(f.symbol, f.rule))
      new == Entry(f, Or(f.symbol, f.rule), "ast")
  IN IF same = {} THEN Append(entries, new)
     ELSE [k \in DOMAIN entries |-> IF k \in same THEN new ELSE entries[k]]

AddNew(entries, f, key, source) ==
  IF At(entries, f, key) = {} THEN Append(entries, Entry(f, key, source)) ELSE entries

(* scan_single_file: a regex match with a symbol confirms the finding of that  *)
(* symbol, or the first at its place without one; a match without a symbol     *)
(* the first at its place; what confirms nothing is a finding of its own.      *)
Confirmed(entries, f) ==
  LET place == {k \in DOMAIN entries : SamePlace(entries[k], f)}
      exact == At(entries, f, f.symbol)
      candidates == IF f.symbol = "" THEN place
                    ELSE IF exact # {} THEN exact
                    ELSE {k \in place : entries[k].symbol = ""}
  IN {k \in candidates : \A j \in candidates : k <= j}

AddRegex(entries, f) ==
  LET c == Confirmed(entries, f)
  IN IF c # {}
     THEN [k \in DOMAIN entries |->
             IF k \in c THEN [entries[k] EXCEPT !.sources = @ \union {"regex"}]
                        ELSE entries[k]]
     ELSE AddNew(entries, f, Or(f.symbol, f.rule), "regex")

AstFindings(content) == IF content.astRaises THEN <<>> ELSE content.ast

RegexFindings(content) == IF content.regexRaises THEN <<>> ELSE content.regex

(* The secret detector runs last, and nobody is told when it raises.           *)
SecretFindings(content) == IF content.secretsRaise THEN <<>> ELSE content.secrets

(* The findings of a detector are added one by one; "command" stands for the   *)
(* command's own merge, by line, algorithm and symbol.                         *)
Add(entries, f, detector) ==
  CASE detector = "ast" -> AddAst(entries, f)
    [] detector = "regex" -> AddRegex(entries, f)
    [] detector = "secret_detector" -> AddNew(entries, f, f.rule, detector)
    [] detector = "command" -> AddNew(entries, f, f.symbol, detector)

AddAll(entries, findings, detector) ==
  FoldLeft(LAMBDA acc, f : Add(acc, f, detector), entries, findings)

(* A detector that raises costs its findings.                                  *)
Merged(content) ==
  LET ast == AddAll(<<>>, AstFindings(content), "ast")
      regex == AddAll(ast, RegexFindings(content), "regex")
  IN AddAll(regex, SecretFindings(content), "secret_detector")

(* A file's first error is reported: a failure to read, to parse or to match,  *)
(* otherwise the notice that its findings are many.                            *)
ScanSingleFile(content) ==
  LET merged == Merged(content)
  IN CASE ~content.readable -> [findings |-> {}, error |-> "failure"]
       [] content.readable /\ (content.astRaises \/ content.regexRaises) ->
            [findings |-> ToSet(merged), error |-> "failure"]
       [] OTHER -> [findings |-> ToSet(merged),
                    error |-> IF Len(merged) > NoticeAbove THEN "notice" ELSE "none"]

(* process_file of the command: of the findings at one place with one symbol   *)
(* (None for those without) the AST's is kept before the regex rules', and a    *)
(* regex rule that raises takes the whole file down with it.                   *)
ProcessFile(content) ==
  IF ~content.readable \/ content.regexRaises THEN [findings |-> {}, error |-> TRUE]
  ELSE LET merged == AddAll(<<>>, AstFindings(content) \o content.regex \o SecretFindings(content),
                            "command")
       IN [findings |-> ToSet(merged), error |-> content.astRaises \/ Len(merged) > NoticeAbove]

(* Where a scan saw cryptography.                                              *)
Places(findings) == {<<e.line, e.algorithm>> : e \in findings}

-----------------------------------------------------------------------------
(* The result cache: a manifest and a directory of entry files, shared by      *)
(* every scanner that is given the directory.                                  *)
(*                                                                             *)
(* disk:  [manifest, entries]                                                  *)
(* manifest: [state: {"absent", "valid", "broken"}, fingerprints, entries,     *)
(*           writers: the scanners that have it open, mixed: several had]      *)
(* entry: [key, findings, whole]; the key stands for the SHA-256 of path,      *)
(*        content and environment digest; an entry being written is not whole  *)

(* The environment digest is a hash of the four fingerprints, so it differs    *)
(* exactly when one of them does.  cache_dir and concurrency are not part of   *)
(* the configuration's fingerprint.                                            *)
Fingerprints(world, config) ==
  [engine |-> world.engine, policy |-> world.policy, config |-> config,
   dependency |-> world.dependency]

StaleReasons(cached, current) ==
  {part \in DOMAIN current : cached[part] # current[part]}

\* Mutant: the key is the file's alone.
Key_NoEnvironment(path, content, fingerprints) ==
  [path |-> path, hash |-> content, environment |-> "any"]

Key(path, content, fingerprints) ==
  [path |-> path, hash |-> content, environment |-> fingerprints]

ValidManifest(fingerprints, entries) ==
  [state |-> "valid", fingerprints |-> fingerprints, entries |-> entries,
   writers |-> {}, mixed |-> FALSE]

(* clear: the entry files and the manifest go, an empty manifest is written.   *)
Clear(fingerprints) ==
  [manifest |-> ValidManifest(fingerprints, {}), entries |-> {}]

(* _initialize_cache: no manifest starts one and keeps the entry files; a      *)
(* manifest that cannot be read or names another environment clears all.       *)
Initialize(disk, fingerprints) ==
  CASE disk.manifest.state = "absent" ->
         [memory |-> {},
          disk |-> [disk EXCEPT !.manifest = ValidManifest(fingerprints, {})]]
    [] disk.manifest.state = "broken"
       \/ (/\ disk.manifest.state = "valid"
           /\ StaleReasons(disk.manifest.fingerprints, fingerprints) # {}) ->
         [memory |-> {}, disk |-> Clear(fingerprints)]
    [] OTHER -> [memory |-> disk.manifest.entries, disk |-> disk]

(* get: the memory first, then the entry file; one that does not parse is a    *)
(* miss.                                                                       *)
Lookup(memory, disk, key) ==
  {e \in memory : e.key = key}
  \union (IF \E e \in memory : e.key = key THEN {}
          ELSE {e \in disk.entries : e.key = key /\ e.whole})

Replace(entries, entry) == {e \in entries : e.key # entry.key} \union {entry}

(* put: the memory at once, the file opened (and truncated) and then written.  *)
PutMemory(memory, key, findings) ==
  Replace(memory, [key |-> key, findings |-> findings, whole |-> TRUE])

PutOpen(disk, key) ==
  [disk EXCEPT !.entries = Replace(@, [key |-> key, findings |-> {}, whole |-> FALSE])]

(* A file another scanner cleared in between is written to no name.            *)
PutWrite(disk, key, findings) ==
  IF \E e \in disk.entries : e.key = key
  THEN [disk EXCEPT !.entries =
          Replace(@, [key |-> key, findings |-> findings, whole |-> TRUE])]
  ELSE disk

(* save: the manifest is opened (and truncated), then written with all that    *)
(* is in memory.  A scanner whose file was cleared meanwhile writes to no      *)
(* name; of two that write at once either may be the one left, or neither.     *)
SaveOpen(disk, scanner) ==
  [disk EXCEPT !.manifest.state = "broken",
               !.manifest.writers = @ \union {scanner},
               !.manifest.mixed = @ \/ disk.manifest.writers # {}]

SaveWrite(disk, scanner, fingerprints, memory) ==
  LET rest == disk.manifest.writers \ {scanner}
      broken == [disk EXCEPT !.manifest.writers = rest]
      whole == [disk EXCEPT !.manifest =
                  [ValidManifest(fingerprints, memory) EXCEPT !.writers = rest, !.mixed = rest # {}]]
  IN IF scanner \notin disk.manifest.writers THEN {disk}
     ELSE IF disk.manifest.mixed THEN {broken, whole}
     ELSE {whole}

(* A crash leaves what was being written as it was.                            *)
Crash(disk) == [disk EXCEPT !.manifest.writers = {}, !.manifest.mixed = FALSE]

=============================================================================
