------------------------- MODULE LanguageCatalogue -------------------------
(***************************************************************************)
(* How a language gets from dredd-build to a server: `dredd-build add`     *)
(* builds a rootfs image in place and rewrites the languages file          *)
(* (cmd/dredd-build/main.go), and a starting server reads that file into   *)
(* its registry (langs/registry.go).  Several builds may run at a time and *)
(* a server may run next to them: nothing locks the images or the file.    *)
(*                                                                         *)
(* A step is one external command or one access to the languages file.     *)
(***************************************************************************)
EXTENDS Integers, Sequences, FiniteSets

CONSTANTS
  Builders,   \* runs of dredd-build add
  Ids,        \* language ids
  Target,     \* the --id of each run
  Listed,     \* the ids a languages file from an earlier setup lists
  NoBuilder,  \* what was there before any of these runs
  MaxFaults,  \* bound: commands and file operations that fail
  MaxKills    \* bound: runs that are killed

ASSUME LanguageCatalogueAssumption ==
  /\ Target \in [Builders -> Ids]
  /\ Listed \in Seq(Ids)
  /\ \A i, j \in 1..Len(Listed) : Listed[i] = Listed[j] => i = j
  /\ NoBuilder \notin Builders
  /\ MaxFaults \in Nat
  /\ MaxKills \in Nat

VARIABLES
  pc,        \* where each run is
  err,       \* whether its buildRootfs is returning an error
  res,       \* what it has to clean up: its temp dir, container and mount
  flags,     \* whether its command line has every required flag
  copy,      \* the languages file as it read it
  file,      \* the languages file
  image,     \* the rootfs image of each id: who formatted it, what is in it
  server,    \* whether a dredd server is up, or refused to start
  registry,  \* the registry it loaded
  lossy,     \* history: runs that truncated a file they had not read
  clashed,   \* history: runs that wrote over what another run had written
  faults,    \* which operation of which run has failed
  kills      \* how many runs were killed

disk == <<file, image>>
hosts == <<server, registry>>
bounds == <<faults, kills>>
overlaps == <<lossy, clashed>>
vars == <<pc, err, res, flags, copy, file, image, server, registry, lossy,
          clashed, faults, kills>>

-----------------------------------------------------------------------------
\* langs.Language: the id, who wrote the entry, and whether ID, Rootfs,
\* RunCmd and SourceFile are all there.
Entries == [id: Ids, by: Builders \cup {NoBuilder}, complete: BOOLEAN]

\* "missing" and "empty" files have no list, and the text of a "garbled" one
\* does not parse.
Files == [state: {"missing", "empty", "garbled", "whole"}, list: Seq(Entries)]

NoList(s) == [state |-> s, list |-> <<>>]

Whole(list) == [state |-> "whole", list |-> list]

Images == [by: Builders \cup {NoBuilder},
           has: {"nothing", "zeros", "fs", "files", "bootable", "emptied",
                 "corrupt"}]

PCs == {"add", "create", "export", "dd", "mkfs", "mount", "untar", "install",
        "umount", "rm", "removeall", "read", "truncate", "write", "done",
        "failed", "killed", "broken"}

-----------------------------------------------------------------------------
\* The image.

\* The operation b is at fails.
Fault(b) ==
  /\ Cardinality(faults) < MaxFaults
  /\ faults' = faults \cup {<<b, pc[b]>>}
  /\ UNCHANGED kills

\* b overwrites the image from the start.
Format(b, has) == image' = [image EXCEPT ![Target[b]] = [by |-> b, has |-> has]]

\* b writes to the file system it has mounted.  If another run has overwritten
\* the image since, that destroys it.
Touch(b, has) ==
  image' = [image EXCEPT ![Target[b]] =
              [by |-> @.by,
               has |-> IF @.by = b /\ @.has # "corrupt" THEN has ELSE "corrupt"]]

Goto(b, there) == pc' = [pc EXCEPT ![b] = there]

\* buildRootfs returns an error: its deferred calls run, the last one first.
Unwind(b) ==
  /\ err' = [err EXCEPT ![b] = TRUE]
  /\ Goto(b, IF "mount" \in res[b] THEN "umount"
             ELSE IF "container" \in res[b] THEN "rm" ELSE "removeall")

\* Mutant: cmdAdd does not look at the flags.
cmdAddAnyway(b) ==
  /\ pc[b] = "add"
  /\ Goto(b, "create")
  /\ res' = [res EXCEPT ![b] = {"tmp"}]
  /\ UNCHANGED <<err, flags, copy, disk, hosts, overlaps, bounds>>

\* A flag is missing or the directories cannot be made: nothing was done yet.
cmdAdd(b) ==
  /\ pc[b] = "add"
  /\ \/ /\ flags[b]
        /\ Goto(b, "create")
        /\ res' = [res EXCEPT ![b] = {"tmp"}]
        /\ UNCHANGED bounds
     \/ /\ \/ ~flags[b] /\ UNCHANGED bounds
           \/ flags[b] /\ Fault(b)
        /\ Goto(b, "failed")
        /\ UNCHANGED res
  /\ UNCHANGED <<err, flags, copy, disk, hosts, overlaps>>

\* docker create and the file with the container's id, whose removal is
\* deferred only when that file could be read.
DockerCreate(b) ==
  /\ pc[b] = "create"
  /\ \/ /\ res' = [res EXCEPT ![b] = @ \cup {"container"}]
        /\ Goto(b, "export")
        /\ UNCHANGED <<err, bounds>>
     \/ /\ Fault(b)
        /\ Unwind(b)
        /\ res' \in {res, [res EXCEPT ![b] = @ \cup {"container"}]}
  /\ UNCHANGED <<flags, copy, disk, hosts, overlaps>>

DockerExport(b) ==
  /\ pc[b] = "export"
  /\ \/ Goto(b, "dd") /\ UNCHANGED <<err, bounds>>
     \/ Fault(b) /\ Unwind(b)
  /\ UNCHANGED <<res, flags, copy, disk, hosts, overlaps>>

\* dd truncates the image in place, also when it then runs out of space.
Dd(b) ==
  /\ pc[b] = "dd"
  /\ Format(b, "zeros")
  /\ \/ Goto(b, "mkfs") /\ UNCHANGED <<err, bounds>>
     \/ Fault(b) /\ Unwind(b)
  /\ UNCHANGED <<res, flags, copy, file, hosts, overlaps>>

Mkfs(b) ==
  /\ pc[b] = "mkfs"
  /\ \/ Format(b, "fs") /\ Goto(b, "mount") /\ UNCHANGED <<err, bounds>>
     \/ Fault(b) /\ Unwind(b) /\ UNCHANGED image
  /\ UNCHANGED <<res, flags, copy, file, hosts, overlaps>>

Mount(b) ==
  /\ pc[b] = "mount"
  /\ \/ /\ res' = [res EXCEPT ![b] = @ \cup {"mount"}]
        /\ Goto(b, "untar")
        /\ UNCHANGED <<err, bounds>>
     \/ Fault(b) /\ Unwind(b) /\ UNCHANGED res
  /\ UNCHANGED <<flags, copy, disk, hosts, overlaps>>

Untar(b) ==
  /\ pc[b] = "untar"
  /\ \/ Touch(b, "files") /\ Goto(b, "install") /\ UNCHANGED <<err, bounds>>
     \/ Fault(b) /\ Unwind(b) /\ Touch(b, "fs")
  /\ UNCHANGED <<res, flags, copy, file, hosts, overlaps>>

\* The agent and /work; buildRootfs returns nil and its deferred calls run.
Install(b) ==
  /\ pc[b] = "install"
  /\ \/ Touch(b, "bootable") /\ Goto(b, "umount") /\ UNCHANGED <<err, bounds>>
     \/ Fault(b) /\ Unwind(b) /\ UNCHANGED image
  /\ UNCHANGED <<res, flags, copy, file, hosts, overlaps>>

\* Mutant: the deferred calls run in the order they were written.
UmountLast(b) ==
  /\ pc[b] = "umount"
  /\ Goto(b, "rm")
  /\ UNCHANGED <<err, res, flags, copy, disk, hosts, overlaps, bounds>>

\* defer umount: an error is ignored.  Unmounting writes back what is dirty.
Umount(b) ==
  /\ pc[b] = "umount"
  /\ Goto(b, "rm")
  /\ \/ /\ res' = [res EXCEPT ![b] = @ \ {"mount"}]
        /\ Touch(b, image[Target[b]].has)
        /\ UNCHANGED bounds
     \/ Fault(b) /\ UNCHANGED <<res, image>>
  /\ UNCHANGED <<err, flags, copy, file, hosts, overlaps>>

\* defer docker rm -f: an error is ignored.
DockerRm(b) ==
  /\ pc[b] = "rm"
  /\ Goto(b, "removeall")
  /\ \/ res' = [res EXCEPT ![b] = @ \ {"container"}] /\ UNCHANGED bounds
     \/ Fault(b) /\ UNCHANGED res
  /\ UNCHANGED <<err, flags, copy, disk, hosts, overlaps>>

\* Mutant: cmdAdd goes on when buildRootfs has failed.
RemoveAllThenList(b) ==
  /\ pc[b] = "removeall"
  /\ Goto(b, "read")
  /\ IF "mount" \in res[b]
       THEN Touch(b, "emptied") /\ UNCHANGED res
       ELSE res' = [res EXCEPT ![b] = @ \ {"tmp"}] /\ UNCHANGED image
  /\ UNCHANGED <<err, flags, copy, file, hosts, overlaps, bounds>>

\* defer os.RemoveAll(tmp): an error is ignored.  The mount point is below
\* tmp: if umount failed it is the image's files that are removed.
RemoveAll(b) ==
  /\ pc[b] = "removeall"
  /\ Goto(b, IF err[b] THEN "failed" ELSE "read")
  /\ \/ /\ "mount" \in res[b]
        /\ Touch(b, "emptied")
        /\ UNCHANGED <<res, bounds>>
     \/ /\ "mount" \notin res[b]
        /\ \/ res' = [res EXCEPT ![b] = @ \ {"tmp"}] /\ UNCHANGED bounds
           \/ Fault(b) /\ UNCHANGED res
        /\ UNCHANGED image
  /\ UNCHANGED <<err, flags, copy, file, hosts, overlaps>>

buildRootfs(b) ==
  \/ DockerCreate(b) \/ DockerExport(b) \/ Dd(b) \/ Mkfs(b) \/ Mount(b)
  \/ Untar(b) \/ Install(b) \/ Umount(b) \/ DockerRm(b) \/ RemoveAll(b)

-----------------------------------------------------------------------------
\* appendLanguage.

\* Mutant: the error of Unmarshal is ignored.
ReadListAnyway(b) ==
  /\ pc[b] = "read"
  /\ copy' = [copy EXCEPT ![b] = file]
  /\ Goto(b, "truncate")
  /\ UNCHANGED <<err, res, flags, disk, hosts, overlaps, bounds>>

\* ReadFile and Unmarshal.  A file that is empty or cannot be read counts as
\* an empty list; one that does not parse is an error.
ReadList(b) ==
  /\ pc[b] = "read"
  /\ \/ /\ file.state # "garbled"
        /\ copy' = [copy EXCEPT ![b] = file]
        /\ Goto(b, "truncate")
        /\ UNCHANGED bounds
     \/ /\ Fault(b)
        /\ copy' = [copy EXCEPT ![b] = NoList("empty")]
        /\ Goto(b, "truncate")
     \/ /\ file.state = "garbled"
        /\ Goto(b, "failed")
        /\ UNCHANGED <<copy, bounds>>
  /\ UNCHANGED <<err, res, flags, disk, hosts, overlaps>>

entry(b) == [id |-> Target[b], by |-> b, complete |-> flags[b]]

\* Mutant: an entry with the same id stays as it is.
withEntryOnce(list, l) ==
  IF \E i \in 1..Len(list) : list[i].id = l.id THEN list ELSE <<l>>

\* The first entry with this id is replaced, or the new one is appended.
withEntry(list, l) ==
  LET same == {i \in 1..Len(list) : list[i].id = l.id}
  IN  IF same = {} THEN Append(list, l)
      ELSE [list EXCEPT ![CHOOSE i \in same : \A j \in same : i <= j] = l]

\* os.WriteFile opens with O_TRUNC ...
Truncate(b) ==
  /\ pc[b] = "truncate"
  /\ \/ /\ file' = NoList("empty")
        /\ lossy' = IF copy[b] = file THEN lossy ELSE lossy \cup {b}
        /\ Goto(b, "write")
        /\ UNCHANGED bounds
     \/ /\ Fault(b)
        /\ Goto(b, "failed")
        /\ UNCHANGED <<file, lossy>>
  /\ UNCHANGED <<err, res, flags, copy, image, hosts, clashed>>

\* ... and then writes from the start of the file.  What another run has
\* written since b truncated it is covered only if it is not longer: its tail
\* stays, and the text no longer parses.
Written(b) ==
  LET new == Whole(withEntry(copy[b].list, entry(b)))
  IN  IF file.state = "empty" THEN {new} ELSE {new, NoList("garbled")}

\* What b leaves if it fails or is killed in its write: nothing of it, a part,
\* or all of it.
Torn(b) == Written(b) \cup {file, NoList("garbled")}

Write(b) ==
  /\ pc[b] = "write"
  /\ \/ /\ file' \in Written(b)
        /\ clashed' = IF file.state = "empty" THEN clashed ELSE clashed \cup {b}
        /\ Goto(b, "done")
        /\ UNCHANGED bounds
     \/ /\ Fault(b)
        /\ file' \in Torn(b)
        /\ Goto(b, "broken")
        /\ UNCHANGED clashed
  /\ UNCHANGED <<err, res, flags, copy, image, hosts, lossy>>

appendLanguage(b) == ReadList(b) \/ Truncate(b) \/ Write(b)

\* Ended(b): the run is over, with or without success.
Ended(b) == pc[b] \in {"done", "failed", "killed", "broken"}

\* The run is killed: no deferred call runs, and a write stays unfinished.
Kill(b) ==
  /\ ~Ended(b)
  /\ kills < MaxKills
  /\ kills' = kills + 1
  /\ IF pc[b] = "write"
       THEN /\ Goto(b, "broken")
            /\ file' \in Torn(b)
       ELSE /\ Goto(b, "killed")
            /\ UNCHANGED file
  /\ UNCHANGED <<err, res, flags, copy, image, hosts, overlaps, faults>>

-----------------------------------------------------------------------------
\* The server.

\* What Load makes of the file: every entry complete and no id twice.
Loads(f) ==
  /\ f.state = "whole"
  /\ \A i \in 1..Len(f.list) : f.list[i].complete
  /\ \A i, j \in 1..Len(f.list) : f.list[i].id = f.list[j].id => i = j

\* A server starts: main gives up when Load does.
Load ==
  /\ server # "up"
  /\ IF Loads(file) THEN server' = "up" /\ registry' = file.list
                    ELSE server' = "refused" /\ registry' = <<>>
  /\ UNCHANGED <<pc, err, res, flags, copy, disk, overlaps, bounds>>

Stop ==
  /\ server = "up"
  /\ server' = "down"
  /\ registry' = <<>>
  /\ UNCHANGED <<pc, err, res, flags, copy, disk, overlaps, bounds>>

-----------------------------------------------------------------------------
Old(id) == [id |-> id, by |-> NoBuilder, complete |-> TRUE]

Init ==
  /\ pc = [b \in Builders |-> "add"]
  /\ err = [b \in Builders |-> FALSE]
  /\ res = [b \in Builders |-> {}]
  /\ flags \in [Builders -> BOOLEAN]
  /\ copy = [b \in Builders |-> NoList("missing")]
  /\ file = IF Listed = <<>> THEN NoList("missing")
            ELSE Whole([i \in 1..Len(Listed) |-> Old(Listed[i])])
  /\ image = [id \in Ids |->
                [by |-> NoBuilder,
                 has |-> IF \E i \in 1..Len(Listed) : Listed[i] = id
                           THEN "bootable" ELSE "nothing"]]
  /\ server = "down"
  /\ registry = <<>>
  /\ lossy = {}
  /\ clashed = {}
  /\ faults = {}
  /\ kills = 0

add(b) == cmdAdd(b) \/ buildRootfs(b) \/ appendLanguage(b)

Next ==
  \/ \E b \in Builders : add(b) \/ Kill(b)
  \/ Load \/ Stop

Spec == Init /\ [][Next]_vars

-----------------------------------------------------------------------------
\* Type invariant; in particular no run works on a list that did not parse.
TypeOK ==
  /\ pc \in [Builders -> PCs]
  /\ err \in [Builders -> BOOLEAN]
  /\ res \in [Builders -> SUBSET {"tmp", "container", "mount"}]
  /\ flags \in [Builders -> BOOLEAN]
  /\ copy \in [Builders -> {f \in Files : f.state # "garbled"}]
  /\ file \in Files
  /\ image \in [Ids -> Images]
  /\ server \in {"down", "up", "refused"}
  /\ registry \in Seq(Entries)
  /\ lossy \subseteq Builders
  /\ clashed \subseteq Builders
  /\ faults \subseteq Builders \X PCs /\ Cardinality(faults) <= MaxFaults
  /\ kills \in 0..MaxKills

\* b has begun to overwrite its image and has not finished, or never did, or
\* has lost its unmount.
Disturbs(b) ==
  \/ pc[b] \in {"mkfs", "mount", "untar", "install", "umount", "rm",
                "removeall"}
  \/ pc[b] \in {"failed", "killed"} /\ image[Target[b]].has # "bootable"
  \/ "mount" \in res[b]

\* A language a server offers, or that one started now would offer, has an
\* image that boots: the entry is written only after the image is complete,
\* and a server that keeps its registry while entries come and go never
\* offers one that was not built.  The exceptions are a build of the same id
\* that is under way or did not end well, two of them that overlapped, and an
\* umount that failed, after which cmdAdd lists an image RemoveAll has emptied.
OfferedIsBootable ==
  \A l \in {registry[i] : i \in 1..Len(registry)}
             \cup {file.list[i] : i \in 1..Len(file.list)} :
    \/ image[l.id].has \in {"bootable", "corrupt"}
    \/ \E b \in Builders : Target[b] = l.id /\ Disturbs(b)

\* A language dredd-build has reported ok is in the file and stays there.  Only
\* another run can lose it: one that truncated a file it had not read (it
\* overlapped, or its read failed), one whose write overlapped with a second
\* one, or one that is, or ended, between truncating and writing.
DoneIsListed ==
  clashed = {} /\ (\A c \in Builders : pc[c] \notin {"write", "broken"}) =>
    \A b \in Builders : pc[b] = "done" /\ lossy \subseteq {b} =>
      \E i \in 1..Len(file.list) :
        file.list[i].id = Target[b] /\ file.list[i].by # NoBuilder

\* Whatever runs of dredd-build interleave, a list they leave whole is one Load
\* accepts, with complete entries and no id twice.  A server is refused only
\* before the first run, while a run has the file empty or after it ended
\* there, and over a text that does not parse: one that a run which ended in
\* its write left, or one that two runs with overlapping writes have mixed,
\* although each of them reported ok.
BuiltFileLoads ==
  [][server' = "refused" /\ server # "refused" =>
       \/ file.state = "missing"
       \/ file.state = "empty" /\ \E b \in Builders : pc[b] \in {"write", "broken"}
       \/ /\ file.state = "garbled"
          /\ clashed # {} \/ \E b \in Builders : pc[b] = "broken"]_vars

\* What a run that ends by itself leaves behind is what its own clean-up could
\* not remove, however many of its commands have failed: the mount and the
\* temporary directory below which it is only if its umount failed, the
\* container only if its docker rm failed or docker create made one without
\* reporting it, the directory alone only if its RemoveAll failed.
CleansUp ==
  \A b \in Builders : pc[b] \in {"done", "failed"} =>
    /\ "mount" \in res[b] => <<b, "umount">> \in faults
    /\ "container" \in res[b] => {<<b, "create">>, <<b, "rm">>} \cap faults # {}
    /\ "tmp" \in res[b] => "mount" \in res[b] \/ <<b, "removeall">> \in faults
=============================================================================
