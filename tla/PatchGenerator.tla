---------------------------- MODULE PatchGenerator ----------------------------
(***************************************************************************)
(* The safe patch generator: a file is read, patched in memory, backed up, *)
(* checked and only then written.  A file is a sequence of lines:          *)
(*                                                                         *)
(*   hashlib         calls: hash functions, the outermost call first       *)
(*   import, bare    name: imported from hashlib; called by that name      *)
(*   keygen          size: of a generate_private_key                       *)
(*   cipher          name: algorithms.<name>                               *)
(*   createHash      name: crypto.createHash; unqualified: createHash      *)
(*   createCipheriv  name                                                  *)
(*   modulus         size: a modulusLength                                 *)
(*   ssl_protocols   versions                                              *)
(*   comment, broken, other                                                *)
(*                                                                         *)
(* Users edit files between any two steps of a run.  Opening a file to     *)
(* write empties it; a run that stops there leaves it empty, and the copy  *)
(* it made before, which nothing else reads, is what is left of the text.  *)
(***************************************************************************)
EXTENDS Integers, Sequences, SequencesExt

CONSTANTS
    Files,          \* the files
    Language,       \* of a file: "python", "javascript", "config", "generic"
    Words,          \* names of algorithms, ciphers and protocols
    Contents,       \* Contents[f]: what file f may hold
    Wide            \* the target algorithm names 256 bits

Lines ==
    [form : {"hashlib"}, calls : Seq(Words)]
    \cup [form : {"import", "bare", "createHash", "unqualified", "cipher", "createCipheriv"}, name : Words]
    \cup [form : {"keygen", "modulus"}, size : Nat]
    \cup [form : {"ssl_protocols"}, versions : SUBSET Words]
    \cup [form : {"comment", "broken", "other"}]

\* What the tool writes are names too.
ASSUME WordsAssumption == {"sha256", "sha384", "AES", "aes-256-gcm", "TLSv1.2", "TLSv1.3"} \subseteq Words

ASSUME ContentsAssumption == \A f \in Files : Contents[f] \subseteq Seq(Lines)

VARIABLES
    files,          \* files[f]: its lines
    patching        \* the run of the tool

patchVars == <<files, patching>>

NotPatching == [phase |-> "idle"]

TargetHash == IF Wide THEN "sha256" ELSE "sha384"

(***************************************************************************)
(* Python: the syntax tree is transformed and printed again.  A call that  *)
(* is replaced hides the calls in its arguments; an import is renamed, the *)
(* calls by its name are not; printing drops the comments.                 *)
(***************************************************************************)
VisitCall(line) ==
    LET weak == {i \in DOMAIN line.calls : line.calls[i] \in {"md5", "sha1", "sha224"}} IN
    IF weak = {} THEN line
    ELSE [line EXCEPT !.calls[CHOOSE i \in weak : \A j \in weak : i <= j] = TargetHash]

VisitPython(line) ==
    CASE line.form = "hashlib" -> VisitCall(line)
      [] line.form = "keygen" /\ line.size < 2048 -> [line EXCEPT !.size = 3072]
      [] line.form = "cipher" /\ line.name \in {"TripleDES", "ARC4", "Blowfish"} -> [line EXCEPT !.name = "AES"]
      [] line.form = "import" /\ line.name \in {"md5", "sha1"} -> [line EXCEPT !.name = TargetHash]
      [] OTHER -> line

KeepCode(kept, line) == IF line.form = "comment" THEN kept ELSE Append(kept, line)

TransformPython(lines) ==
    LET visited == [i \in DOMAIN lines |-> VisitPython(lines[i])] IN
    IF visited = lines THEN lines ELSE FoldLeft(KeepCode, <<>>, visited)

(***************************************************************************)
(* JavaScript, and any other language: line by line.  The pattern of a     *)
(* modulus has no right end: 5120 and 10240 are matched by their first     *)
(* digits.                                                                 *)
(***************************************************************************)
Modulus(size) ==
    LET Prefixed == {m \in {512, 1024} \X {1, 10} : size \in m[1] * m[2] .. (m[1] + 1) * m[2] - 1}
    IN  IF Prefixed = {} THEN size
        ELSE LET match == CHOOSE m \in Prefixed : TRUE
             IN  size + (3072 - match[1]) * match[2]

VisitJavascript(line) ==
    CASE line.form = "createHash" /\ line.name \in {"md5", "sha1", "sha-1", "md4"} ->
           [line EXCEPT !.name = TargetHash]
      [] line.form = "createCipheriv" /\ line.name \in {"des-ede3-cbc", "des-cbc", "rc4", "bf-cbc"} ->
           [line EXCEPT !.name = "aes-256-gcm"]
      [] line.form = "modulus" -> [line EXCEPT !.size = Modulus(line.size)]
      [] OTHER -> line

TransformJavascript(lines) == [i \in DOMAIN lines |-> VisitJavascript(lines[i])]

(***************************************************************************)
(* Configuration.  "TLSv1" is part of the name of every later version, so  *)
(* any list of TLS versions is replaced.                                   *)
(***************************************************************************)
\* Mutation: the versions written start with the lowest.
VisitConfigFromLowest(line) ==
    IF line.form = "ssl_protocols" THEN [line EXCEPT !.versions = {"TLSv1", "TLSv1.2", "TLSv1.3"}] ELSE line

VisitConfig(line) ==
    IF line.form = "ssl_protocols" THEN [line EXCEPT !.versions = {"TLSv1.2", "TLSv1.3"}] ELSE line

TransformConfig(lines) == [i \in DOMAIN lines |-> VisitConfig(lines[i])]

Unparsable(lines) == \E i \in DOMAIN lines : lines[i].form = "broken"

GeneratePatch(language, lines) ==
    CASE language = "python" -> TransformPython(lines)
      [] language = "config" -> TransformConfig(lines)
      [] OTHER -> TransformJavascript(lines)

ValidateSyntax(lines) == lines # <<>> /\ ~Unparsable(lines)

\* What the recheck finds in the patched text: hashlib calls and createHash calls of
\* hashes it knows.
Remaining(lines) ==
    {i \in DOMAIN lines :
        \/ lines[i].form = "hashlib"
           /\ \E c \in DOMAIN lines[i].calls : lines[i].calls[c] \in {"md5", "sha1"}
        \/ lines[i].form \in {"createHash", "unqualified"} /\ lines[i].name \in {"md5", "sha1"}}

\* Mutation: only the syntax of the patch is checked.
SafeToApplyBySyntax(lines) == ValidateSyntax(lines)

SafeToApply(lines) == ValidateSyntax(lines) /\ Remaining(lines) = {}

(***************************************************************************)
(* Steps.                                                                   *)
(***************************************************************************)
PatchInit ==
    /\ files \in [Files -> UNION {Contents[f] : f \in Files}]
    /\ \A f \in Files : files[f] \in Contents[f]
    /\ patching = NotPatching

EditFile(f) ==
    /\ \E content \in Contents[f] \ {files[f]} : files' = [files EXCEPT ![f] = content]
    /\ UNCHANGED patching

\* The file is read and patched; a Python file that does not parse, or a patch without
\* changes, ends the run.
Generate(f) ==
    LET patched == GeneratePatch(Language[f], files[f]) IN
    /\ patching = NotPatching
    /\ ~(Language[f] = "python" /\ Unparsable(files[f]))
    /\ patched # files[f]
    /\ patching' = [phase |-> "generated", file |-> f, read |-> files[f], patched |-> patched]
    /\ UNCHANGED files

\* Whatever is on disk now is copied; then the patch is checked in a directory of its own.
ExecutePreApplicationLifecycle ==
    /\ patching.phase = "generated"
    /\ patching' = IF SafeToApply(patching.patched)
                      THEN [phase |-> "safe", file |-> patching.file, read |-> patching.read,
                            patched |-> patching.patched, copy |-> files[patching.file]]
                      ELSE NotPatching
    /\ UNCHANGED files

OpenToWrite ==
    /\ patching.phase = "safe"
    /\ files' = [files EXCEPT ![patching.file] = <<>>]
    /\ patching' = [phase |-> "writing", file |-> patching.file, read |-> patching.read,
                    patched |-> patching.patched, copy |-> patching.copy]

\* A file that a user saved in the meantime keeps what was saved if the editor replaced it.
Apply ==
    /\ patching.phase = "writing"
    /\ \/ files' = [files EXCEPT ![patching.file] = patching.patched]
       \/ files[patching.file] # <<>> /\ files' = files
    /\ patching' = NotPatching

\* The run ends: the copy could not be taken, or the tool was stopped.
Interrupted ==
    /\ patching # NotPatching
    /\ patching' = NotPatching
    /\ UNCHANGED files

PatchNext ==
    \/ ExecutePreApplicationLifecycle \/ OpenToWrite \/ Apply \/ Interrupted
    \/ \E f \in Files : EditFile(f) \/ Generate(f)

PatchSpec == PatchInit /\ [][PatchNext]_patchVars

===============================================================================
