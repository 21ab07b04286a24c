---------------------------- MODULE ArchiveGuard ----------------------------
(* Extraction of an uploaded archive (common/archive_guard.py).  Sizes are in  *)
(* units of the limits.  The library never returns more of a member than its   *)
(* header announces, so the limits of the read loops, which repeat those on    *)
(* the headers, are never the first to fail.                                   *)
(*                                                                             *)
(* archive: [suffix, zip, compressed, members]                                 *)
(* member:  [name: Seq(STRING), type, size, magic, nested, corrupt,            *)
(*           link: Seq(STRING)]                                                *)
EXTENDS Integers, Sequences, SequencesExt, FiniteSetsExt

CONSTANTS MaxTotal, MaxEntry, MaxFiles, MaxRatio, MaxFree, AllowNested

(* The names _validate_path_containment refuses before it resolves them:       *)
(* control characters, absolute, drive and device names, streams, reserved     *)
(* names and trailing dots stand for one bad segment; no name is empty.        *)
Prohibited == {"", "CON", "C:", "a."}

Outside == <<"outside">>

(* Path.resolve: ".." leaves a directory, or the root when there is none.      *)
Resolve(segments) ==
  FoldLeft(LAMBDA acc, seg : IF acc = Outside \/ seg = "." THEN acc
                               ELSE IF seg # ".." THEN Append(acc, seg)
                               ELSE IF acc = <<>> THEN Outside
                               ELSE Front(acc),
           <<>>, segments)

ValidatePathContainment(member) ==
  /\ member.name # <<>>
  /\ \A k \in DOMAIN member.name : member.name[k] \notin Prohibited
  /\ Resolve(member.name) # Outside
  /\ member.type = "dir" \/ Resolve(member.name) # <<>>

(* An archive in the archive, by its name or by its first bytes.               *)
CheckNested(member) == member.nested => AllowNested

CheckMagic(member) == member.magic /\ member.size > 0 => AllowNested

TotalSize(members) == FoldLeft(LAMBDA n, m : n + m.size, 0, members)

(* The ratio only counts once the total is worth a megabyte.                   *)
RatioExceeded(total, compressed) ==
  /\ total > MaxRatio * compressed
  /\ total >= MaxFree

(* extract_zip first refuses an archive by what all its headers announce.      *)
ZipPrecheck(a) ==
  /\ Cardinality({k \in DOMAIN a.members : a.members[k].type # "dir"}) <= MaxFiles
  /\ \A k \in DOMAIN a.members :
        /\ a.members[k].size \in 0 .. MaxEntry
        /\ a.members[k].type # "sym"
  /\ TotalSize(a.members) <= MaxTotal
  /\ ~RatioExceeded(TotalSize(a.members), a.compressed)

Extraction(ok, size) == [ok |-> ok, size |-> size]

Nothing(a) == [k \in DOMAIN a.members |-> 0]

(* The members are then extracted by a pool of threads: one that is refused    *)
(* writes nothing, one with a bad checksum stays as it was written, and        *)
(* neither stops the others.                                                   *)
ExtractMember(m) ==
  IF /\ ValidatePathContainment(m)
     /\ m.type = "file" => CheckNested(m) /\ CheckMagic(m)
  THEN IF m.type = "file" THEN m.size ELSE 0
  ELSE -1

ExtractZip(a) ==
  LET written == [k \in DOMAIN a.members |-> ExtractMember(a.members[k])]
  IN IF a.compressed = 0 \/ ~ZipPrecheck(a) THEN Extraction(FALSE, Nothing(a))
     ELSE Extraction(\A k \in DOMAIN written :
                        written[k] # -1 /\ ~a.members[k].corrupt,
                     [k \in DOMAIN written |-> IF written[k] = -1 THEN 0 ELSE written[k]])

(* A TAR is read member by member, and what came before a refused member stays *)
(* on disk.  Symbolic links are refused, a hard link must lead to something    *)
(* extracted before it.                                                        *)
LinkRefused(a, k) ==
  LET m == a.members[k]
      target == Resolve(Front(m.name) \o m.link)
  IN \/ m.type = "sym"
     \/ /\ m.type = "hard"
        /\ ~\E j \in 1 .. k - 1 : /\ a.members[j].type \in {"file", "dir"}
                                  /\ Resolve(a.members[j].name) = target

(* Devices are skipped; the total and the ratio go by the headers.             *)
TarMember(a, acc, k) ==
  LET m == a.members[k]
      total == acc.total + m.size
      failed == [acc EXCEPT !.failed = TRUE]
  IN IF acc.failed THEN acc
     ELSE IF k > MaxFiles THEN failed
     ELSE IF m.type = "dev" THEN acc
     ELSE IF ~ValidatePathContainment(m) \/ LinkRefused(a, k) THEN failed
     ELSE IF m.type \in {"dir", "hard"} THEN acc
     ELSE IF \/ ~CheckNested(m)
             \/ m.size > MaxEntry
             \/ total > MaxTotal
             \/ RatioExceeded(total, a.compressed)
             \/ ~CheckMagic(m)
       THEN failed
     ELSE [acc EXCEPT !.total = total, !.size[k] = m.size, !.failed = m.corrupt]

Numbers(a) == [k \in DOMAIN a.members |-> k]

TarMembers(a) ==
  FoldLeft(LAMBDA acc, k : TarMember(a, acc, k),
           [size |-> Nothing(a), total |-> 0, failed |-> FALSE], Numbers(a))

ExtractTar(a) ==
  LET end == TarMembers(a)
  IN IF a.compressed = 0 THEN Extraction(FALSE, Nothing(a))
     ELSE Extraction(~end.failed, end.size)

(* extract: the suffix decides; a name that says nothing is tried by content.  *)
Extract(a) ==
  LET asZip == a.suffix = ".zip" \/ (a.suffix = "" /\ a.zip)
  IN IF asZip # a.zip THEN Extraction(FALSE, Nothing(a))
     ELSE IF asZip THEN ExtractZip(a) ELSE ExtractTar(a)

(* The bytes an extraction leaves on disk.                                     *)
OnDisk(x) == FoldLeft(LAMBDA n, s : n + s, 0, x.size)

=============================================================================
