---------------------- MODULE LanguageCatalogueProofs ----------------------
(***************************************************************************)
(* Proofs about LanguageCatalogue, for every number of runs of dredd-build *)
(* and of ids, and whatever is killed or fails.                            *)
(*                                                                         *)
(* The inductive invariant says, next to the types, that every list is one *)
(* Load accepts; who left a file that is empty or garbled; what a run has  *)
(* still to clean up, by where it is and by which of its commands failed;  *)
(* who answers for each image; and that the one run between truncating and *)
(* writing the file has read all that was reported ok.                     *)
(***************************************************************************)
EXTENDS LanguageCatalogue, FiniteSetTheorems, TLAPS

-----------------------------------------------------------------------------
\* The inductive invariant.

Complete(list) == \A i \in 1..Len(list) : list[i].complete

Distinct(list) ==
  \A i, j \in 1..Len(list) : list[i].id = list[j].id => i = j

Good(list) == Complete(list) /\ Distinct(list)

\* Every list there is is one Load accepts, and only a whole file has one.
ListsOK ==
  /\ Good(file.list)
  /\ file.state # "whole" => file.list = <<>>
  /\ \A b \in Builders : Good(copy[b].list)

\* A run got past cmdAdd's checks only with every flag.
FlagsOK ==
  \A b \in Builders : pc[b] \notin {"add", "failed", "killed"} => flags[b]

\* An empty file is being written, or was when its run ended; a garbled one
\* comes from a run that ended in its write or from two writes that overlapped.
FileOK ==
  /\ file.state = "empty" => \E b \in Builders : pc[b] \in {"write", "broken"}
  /\ file.state = "garbled" =>
       clashed # {} \/ \E b \in Builders : pc[b] = "broken"

\* Where buildRootfs is on its way to a result; where its caller goes on.
Forward == {"add", "create", "export", "dd", "mkfs", "mount", "untar", "install"}
Listing == {"read", "truncate", "write", "done"}

\* An error is one only while and after buildRootfs unwinds.
ErrOK == \A b \in Builders : pc[b] \in Forward \cup Listing => ~err[b]

\* What a run holds on its way ...
HoldsOK ==
  \A b \in Builders :
    /\ pc[b] = "add" => res[b] = {}
    /\ pc[b] = "create" => res[b] = {"tmp"}
    /\ pc[b] \in {"export", "dd", "mkfs", "mount"} => res[b] = {"tmp", "container"}

\* ... and what it keeps when it is past a deferred call: only what that call,
\* or the docker create that failed, has left.
Keeps(b) ==
  /\ pc[b] \in Listing \cup {"rm", "removeall", "failed"} =>
       ("mount" \in res[b] => <<b, "umount">> \in faults)
  /\ pc[b] \in Listing \cup {"removeall", "failed"} =>
       ("container" \in res[b] => {<<b, "create">>, <<b, "rm">>} \cap faults # {})
  /\ pc[b] \in Listing \cup {"failed"} =>
       ("tmp" \in res[b] => "mount" \in res[b] \/ <<b, "removeall">> \in faults)

KeepsOK == \A b \in Builders : Keeps(b)

\* b has formatted its image and no command of its build has failed since.
Formatted(b) ==
  \/ pc[b] \in {"mkfs", "mount", "untar", "install"} \cup Listing
  \/ pc[b] \in {"umount", "rm", "removeall"} /\ ~err[b]

Finished == {"bootable", "corrupt"}

\* Who answers for the image of id: nobody has formatted it, or it was built,
\* or the last run that formatted it is not done with it or did not end well.
Answered(id) ==
  \/ image[id].by = NoBuilder
  \/ /\ image[id].by \in Builders
     /\ Target[image[id].by] = id
     /\ image[id].has \in Finished \/ Disturbs(image[id].by)

\* If b was the last to format its image, the image is what b has made it.
Made(b) ==
  /\ Formatted(b) => image[Target[b]].by # NoBuilder
  /\ /\ pc[b] \in {"umount", "rm", "removeall"} /\ ~err[b]
     /\ image[Target[b]].by = b
     => image[Target[b]].has \in Finished

ImageOK == (\A id \in Ids : Answered(id)) /\ (\A b \in Builders : Made(b))

\* The image was there from the start, or built.
Known(id) == image[id].by # NoBuilder \/ image[id].has \in Finished

IdsOf(list) == {list[i].id : i \in 1..Len(list)}

\* Some list has id: the file, a run's copy of it, or a server's registry.
Shown(id) ==
  \/ id \in IdsOf(file.list)
  \/ id \in IdsOf(registry)
  \/ \E b \in Builders : id \in IdsOf(copy[b].list)

ListedOK == \A id \in Ids : Shown(id) => Known(id)

\* list has the language b has built.
Has(list, b) ==
  \E i \in 1..Len(list) : list[i].id = Target[b] /\ list[i].by # NoBuilder

\* Only b is between truncating and writing, and nothing was written since.
AloneAt(b) ==
  /\ pc[b] = "write"
  /\ file.state = "empty"
  /\ \A c \in Builders \ {b} : pc[c] # "write"

\* What b reported ok is in the file or, while one run rewrites it, in what
\* that run has read.  Two runs that write at a time lose an entry only if one
\* of them finds a file it had not truncated itself.
DoneOK ==
  clashed = {} /\ (\A c \in Builders : pc[c] # "broken") =>
    \A b \in Builders : pc[b] = "done" /\ lossy \subseteq {b} =>
      /\ (\A c \in Builders : pc[c] # "write") => Has(file.list, b)
      /\ \A c \in Builders : AloneAt(c) => Has(copy[c].list, b)

CInv == TypeOK /\ IsFiniteSet(faults) /\ ListsOK /\ FlagsOK /\ FileOK /\ ErrOK
          /\ HoldsOK /\ KeepsOK /\ ImageOK /\ ListedOK /\ DoneOK

-----------------------------------------------------------------------------
\* Facts about the lists.

\* An empty list has nothing wrong with it.
LEMMA NoListOK ==
  ASSUME NEW s \in {"missing", "empty", "garbled", "whole"}
  PROVE  /\ NoList(s) \in Files
         /\ NoList(s).state = s
         /\ NoList(s).list = <<>>
         /\ Good(NoList(s).list)
         /\ IdsOf(NoList(s).list) = {}
  BY DEF NoList, Files, Good, Complete, Distinct, IdsOf

\* withEntry of a list without the id appends.
LEMMA WithNewEntry ==
  ASSUME NEW list \in Seq(Entries), NEW l \in Entries,
         \A i \in 1..Len(list) : list[i].id # l.id
  PROVE  withEntry(list, l) = Append(list, l)
  BY DEF withEntry

\* withEntry of a list with the id once replaces that entry.
LEMMA WithOldEntry ==
  ASSUME NEW list \in Seq(Entries), NEW l \in Entries, Distinct(list),
         NEW k \in 1..Len(list), list[k].id = l.id
  PROVE  withEntry(list, l) = [list EXCEPT ![k] = l]
  <1> DEFINE same == {i \in 1..Len(list) : list[i].id = l.id}
  <1>1. same = {k}
    BY DEF Distinct
  <1>2. (CHOOSE i \in {k} : \A j \in {k} : i <= j) = k
    <2>1. k \in {k} /\ \A j \in {k} : k <= j
      OBVIOUS
    <2>2. \A i \in {k} : i = k
      OBVIOUS
    <2> QED BY <2>1, <2>2, Zenon
  <1>3. same # {}
    BY <1>1
  <1>4. withEntry(list, l) =
          [list EXCEPT ![CHOOSE i \in same : \A j \in same : i <= j] = l]
    BY <1>3 DEF withEntry
  <1> QED BY <1>1, <1>2, <1>4

\* What withEntry makes of a list without duplicates: the new entry and the
\* old ones with another id, and still no duplicates.
LEMMA WithEntry ==
  ASSUME NEW list \in Seq(Entries), NEW l \in Entries, Distinct(list)
  PROVE  LET new == withEntry(list, l) IN
         /\ new \in Seq(Entries)
         /\ \A i \in 1..Len(new) :
              new[i] = l \/ \E j \in 1..Len(list) : new[i] = list[j]
         /\ \E i \in 1..Len(new) : new[i] = l
         /\ \A j \in 1..Len(list) : list[j].id # l.id =>
              \E i \in 1..Len(new) : new[i] = list[j]
         /\ Distinct(new)
  <1>1. CASE \A i \in 1..Len(list) : list[i].id # l.id
    <2> DEFINE new == Append(list, l)
    <2>1. new \in Seq(Entries) /\ Len(new) = Len(list) + 1
      OBVIOUS
    <2>2. new[Len(new)] = l /\ \A i \in 1..Len(list) : new[i] = list[i]
      OBVIOUS
    <2>3. \A i \in 1..Len(new) : i = Len(new) \/ i \in 1..Len(list)
      BY <2>1
    <2>4. Len(new) \in 1..Len(new) /\ 1..Len(list) \subseteq 1..Len(new)
      BY <2>1
    <2>5. Distinct(new)
      <3> HIDE DEF new
      <3> QED BY <1>1, <2>1, <2>2, <2>3 DEF Distinct
    <2>6. withEntry(list, l) = new
      BY <1>1, WithNewEntry
    <2> HIDE DEF new
    <2> QED BY <2>1, <2>2, <2>3, <2>4, <2>5, <2>6
  <1>2. CASE \E k \in 1..Len(list) : list[k].id = l.id
    <2>1. PICK k \in 1..Len(list) : list[k].id = l.id
      BY <1>2
    <2> DEFINE new == [list EXCEPT ![k] = l]
    <2>2. new \in Seq(Entries) /\ Len(new) = Len(list)
      OBVIOUS
    <2>3. new[k] = l /\ \A i \in 1..Len(list) : i # k => new[i] = list[i]
      OBVIOUS
    <2>4. \A j \in 1..Len(list) : list[j].id # l.id => j # k
      BY <2>1
    <2>5. Distinct(new)
      <3> HIDE DEF new
      <3> QED BY <2>1, <2>2, <2>3 DEF Distinct
    <2>6. withEntry(list, l) = new
      BY <2>1, WithOldEntry
    <2> HIDE DEF new
    <2> QED BY <2>2, <2>3, <2>4, <2>5, <2>6
  <1> QED BY <1>1, <1>2

\* What a run can leave in the file, finished or not, has nothing wrong with
\* it either, and lists no id but its own that was not listed before.
LEMMA TornOK ==
  ASSUME TypeOK, ListsOK, FlagsOK,
         NEW b \in Builders, pc[b] = "write", NEW f \in Torn(b)
  PROVE  /\ f \in Files
         /\ Good(f.list)
         /\ f.state # "whole" => f.list = <<>>
         /\ IdsOf(f.list) \subseteq
              IdsOf(file.list) \cup IdsOf(copy[b].list) \cup {Target[b]}
  <1> DEFINE new == withEntry(copy[b].list, entry(b))
  <1>1. copy[b].list \in Seq(Entries) /\ entry(b) \in Entries
    BY LanguageCatalogueAssumption DEF TypeOK, Files, entry, Entries
  <1>2. /\ entry(b).complete /\ entry(b).id = Target[b]
        /\ Good(copy[b].list) /\ Distinct(copy[b].list)
    BY DEF FlagsOK, entry, ListsOK, Good
  <1>3. /\ new \in Seq(Entries)
        /\ Distinct(new)
        /\ \A i \in 1..Len(new) :
             new[i] = entry(b) \/ \E j \in 1..Len(copy[b].list) : new[i] = copy[b].list[j]
    BY <1>1, <1>2, WithEntry, Zenon
  <1>4. f = Whole(new) \/ f = file \/ f = NoList("garbled")
    BY DEF Torn, Written
  <1> HIDE DEF new
  <1>5. Good(new)
    BY <1>2, <1>3 DEF Good, Complete
  <1>6. IdsOf(new) \subseteq IdsOf(copy[b].list) \cup {Target[b]}
    BY <1>2, <1>3 DEF IdsOf
  <1>7. CASE f = Whole(new)
    BY <1>3, <1>5, <1>6, <1>7 DEF Whole, Files
  <1>8. CASE f = file
    BY <1>8 DEF TypeOK, ListsOK
  <1>9. CASE f = NoList("garbled")
    BY <1>9, NoListOK
  <1> QED BY <1>4, <1>7, <1>8, <1>9

\* How a run changes the file when it writes or is killed.
LEMMA WritesTorn ==
  ASSUME NEW b \in Builders, Write(b) \/ Kill(b)
  PROVE  file' = file \/ (pc[b] = "write" /\ file' \in Torn(b))
  BY DEF Write, Kill, Torn

-----------------------------------------------------------------------------
\* Every step preserves it, part by part.

\* What a run may have to clean up.
Holdings == SUBSET {"tmp", "container", "mount"}

\* Holdings is closed under what the steps do to it.
LEMMA HoldingsClosed ==
  /\ {"tmp"} \in Holdings
  /\ \A h \in Holdings : /\ h \cup {"container"} \in Holdings
                         /\ h \cup {"mount"} \in Holdings
                         /\ h \ {"mount"} \in Holdings
                         /\ h \ {"container"} \in Holdings
                         /\ h \ {"tmp"} \in Holdings
  BY DEF Holdings

\* A step keeps the types of a run's own variables ...
LEMMA StepRunTypes ==
  ASSUME TypeOK, [Next]_vars
  PROVE  pc' \in [Builders -> PCs] /\ err' \in [Builders -> BOOLEAN]
  <1>1. ASSUME NEW b \in Builders, cmdAdd(b) \/ buildRootfs(b)
        PROVE  pc' \in [Builders -> PCs] /\ err' \in [Builders -> BOOLEAN]
    BY <1>1 DEF cmdAdd, buildRootfs, DockerCreate, DockerExport, Dd, Mkfs,
        Mount, Untar, Install, Umount, DockerRm, RemoveAll, Unwind, PCs, Goto,
        TypeOK
  <1>2. ASSUME NEW b \in Builders, appendLanguage(b)
        PROVE  pc' \in [Builders -> PCs] /\ err' \in [Builders -> BOOLEAN]
    BY <1>2 DEF appendLanguage, ReadList, Truncate, Write, PCs, Goto, TypeOK
  <1>3. ASSUME NEW b \in Builders, Kill(b)
        PROVE  pc' \in [Builders -> PCs] /\ err' \in [Builders -> BOOLEAN]
    BY <1>3 DEF Kill, PCs, Goto, TypeOK
  <1>4. ASSUME Load \/ Stop \/ UNCHANGED vars
        PROVE  pc' \in [Builders -> PCs] /\ err' \in [Builders -> BOOLEAN]
    BY <1>4 DEF Load, Stop, vars, PCs, Goto, TypeOK
  <1> QED BY <1>1, <1>2, <1>3, <1>4 DEF Next, add

\* ... of what it has to clean up ...
LEMMA StepHoldings ==
  ASSUME res \in [Builders -> Holdings], [Next]_vars
  PROVE  res' \in [Builders -> Holdings]
  <1>1. ASSUME NEW b \in Builders, cmdAdd(b) \/ buildRootfs(b)
        PROVE  res' \in [Builders -> Holdings]
    <2>1. \/ res' = res
          \/ res' = [res EXCEPT ![b] = {"tmp"}]
          \/ res' = [res EXCEPT ![b] = @ \cup {"container"}]
          \/ res' = [res EXCEPT ![b] = @ \cup {"mount"}]
          \/ res' = [res EXCEPT ![b] = @ \ {"mount"}]
          \/ res' = [res EXCEPT ![b] = @ \ {"container"}]
          \/ res' = [res EXCEPT ![b] = @ \ {"tmp"}]
      BY <1>1 DEF cmdAdd, buildRootfs, DockerCreate, DockerExport, Dd, Mkfs,
          Mount, Untar, Install, Umount, DockerRm, RemoveAll
    <2> QED BY <2>1, HoldingsClosed
  <1>2. ASSUME NEW b \in Builders, appendLanguage(b) \/ Kill(b) PROVE res' = res
    BY <1>2 DEF appendLanguage, ReadList, Truncate, Write, Kill
  <1>3. ASSUME Load \/ Stop \/ UNCHANGED vars PROVE res' = res
    BY <1>3 DEF Load, Stop, vars
  <1> QED BY <1>1, <1>2, <1>3 DEF Next, add

\* ... of the bounds ...
LEMMA FaultBound ==
  ASSUME TypeOK, IsFiniteSet(faults), NEW b \in Builders, Fault(b)
  PROVE  /\ faults' \subseteq Builders \X PCs
         /\ IsFiniteSet(faults')
         /\ Cardinality(faults') <= MaxFaults
  <1>1. <<b, pc[b]>> \in Builders \X PCs
    BY DEF TypeOK
  <1>2. /\ IsFiniteSet(faults')
        /\ Cardinality(faults') \in {Cardinality(faults), Cardinality(faults) + 1}
    BY FS_AddElement DEF Fault
  <1>3. Cardinality(faults) \in Nat /\ Cardinality(faults) < MaxFaults
    BY FS_CardinalityType DEF Fault
  <1> QED BY <1>1, <1>2, <1>3, LanguageCatalogueAssumption DEF Fault, TypeOK

LEMMA StepBounds ==
  ASSUME TypeOK, IsFiniteSet(faults), [Next]_vars
  PROVE  /\ faults' \subseteq Builders \X PCs
         /\ IsFiniteSet(faults')
         /\ Cardinality(faults') <= MaxFaults
         /\ kills' \in 0..MaxKills
  <1>1. ASSUME NEW b \in Builders, cmdAdd(b) \/ buildRootfs(b) \/ appendLanguage(b)
        PROVE  Fault(b) \/ UNCHANGED bounds
    BY <1>1 DEF cmdAdd, buildRootfs, DockerCreate, DockerExport, Dd, Mkfs,
        Mount, Untar, Install, Umount, DockerRm, RemoveAll, appendLanguage,
        ReadList, Truncate, Write
  <1>2. ASSUME NEW b \in Builders, Kill(b)
        PROVE  faults' = faults /\ kills' \in 0..MaxKills
    BY <1>2, LanguageCatalogueAssumption DEF Kill, TypeOK
  <1>3. ASSUME Load \/ Stop \/ UNCHANGED vars PROVE UNCHANGED bounds
    BY <1>3 DEF Load, Stop, vars, bounds
  <1>4. ASSUME UNCHANGED bounds PROVE UNCHANGED <<faults, kills>>
    BY <1>4 DEF bounds
  <1>5. ASSUME NEW b \in Builders, Fault(b) PROVE kills' = kills
    BY <1>5 DEF Fault
  <1> QED BY <1>1, <1>2, <1>3, <1>4, <1>5, FaultBound DEF Next, add, TypeOK

\* ... of the images ...
LEMMA StepImages ==
  ASSUME TypeOK, [Next]_vars
  PROVE  image' \in [Ids -> Images]
  <1> USE LanguageCatalogueAssumption
  <1>1. ASSUME NEW b \in Builders, cmdAdd(b) \/ buildRootfs(b)
        PROVE  image' \in [Ids -> Images]
    BY <1>1 DEF cmdAdd, buildRootfs, DockerCreate, DockerExport, Dd, Mkfs,
        Mount, Untar, Install, Umount, DockerRm, RemoveAll, Format, Touch,
        Images, disk, TypeOK
  <1>2. ASSUME NEW b \in Builders, appendLanguage(b)
        PROVE  image' \in [Ids -> Images]
    BY <1>2 DEF appendLanguage, ReadList, Truncate, Write, disk, TypeOK
  <1>3. ASSUME NEW b \in Builders, Kill(b) PROVE image' \in [Ids -> Images]
    BY <1>3 DEF Kill, disk, TypeOK
  <1>4. ASSUME Load \/ Stop \/ UNCHANGED vars PROVE image' \in [Ids -> Images]
    BY <1>4 DEF Load, Stop, vars, disk, TypeOK
  <1> QED BY <1>1, <1>2, <1>3, <1>4 DEF Next, add

\* ... and of the file, its copies and the registry.
LEMMA StepFileTypes ==
  ASSUME TypeOK, ListsOK, FlagsOK, [Next]_vars
  PROVE  /\ flags' = flags
         /\ copy' \in [Builders -> {f \in Files : f.state # "garbled"}]
         /\ file' \in Files
         /\ server' \in {"down", "up", "refused"}
         /\ registry' \in Seq(Entries)
         /\ lossy' \subseteq Builders /\ clashed' \subseteq Builders
  <1>1. ASSUME NEW b \in Builders, cmdAdd(b) \/ buildRootfs(b)
        PROVE  UNCHANGED <<flags, copy, file, server, registry, lossy, clashed>>
    BY <1>1 DEF cmdAdd, buildRootfs, DockerCreate, DockerExport, Dd, Mkfs,
        Mount, Untar, Install, Umount, DockerRm, RemoveAll, disk, hosts, overlaps
  <1>2. ASSUME NEW b \in Builders, ReadList(b) \/ Truncate(b)
        PROVE  /\ copy' \in [Builders -> {f \in Files : f.state # "garbled"}]
               /\ file' \in Files
               /\ lossy' \subseteq Builders
               /\ UNCHANGED <<flags, server, registry, clashed>>
    BY <1>2, NoListOK DEF ReadList, Truncate, disk, hosts, overlaps, TypeOK
  <1>3. ASSUME NEW b \in Builders, Write(b) \/ Kill(b)
        PROVE  /\ file' \in Files
               /\ clashed' \subseteq Builders
               /\ UNCHANGED <<flags, copy, server, registry, lossy>>
    <2>1. file' \in Files
      BY <1>3, WritesTorn, TornOK DEF TypeOK
    <2> QED BY <1>3, <2>1 DEF Write, Kill, hosts, overlaps, TypeOK
  <1>4. ASSUME Load \/ Stop \/ UNCHANGED vars
        PROVE  /\ server' \in {"down", "up", "refused"}
               /\ registry' \in Seq(Entries)
               /\ UNCHANGED <<flags, copy, file, lossy, clashed>>
    <2>1. file.list \in Seq(Entries) /\ <<>> \in Seq(Entries)
      BY DEF TypeOK, Files
    <2> QED BY <1>4, <2>1 DEF Load, Stop, vars, disk, overlaps, TypeOK
  <1> QED BY <1>1, <1>2, <1>3, <1>4 DEF Next, add, appendLanguage, TypeOK

\* A step keeps the types.
LEMMA StepTypeOK ==
  ASSUME TypeOK, IsFiniteSet(faults), ListsOK, FlagsOK, [Next]_vars
  PROVE  TypeOK'
  <1>1. res' \in [Builders -> SUBSET {"tmp", "container", "mount"}]
    BY StepHoldings DEF TypeOK, Holdings
  <1> QED BY <1>1, StepRunTypes, StepBounds, StepImages, StepFileTypes DEF TypeOK

\* Nobody gets past cmdAdd without its flags.
LEMMA StepFlags ==
  ASSUME TypeOK, FlagsOK, [Next]_vars
  PROVE  FlagsOK'
  <1>1. ASSUME NEW b \in Builders, cmdAdd(b) \/ buildRootfs(b) PROVE FlagsOK'
    BY <1>1 DEF cmdAdd, buildRootfs, DockerCreate, DockerExport, Dd, Mkfs,
        Mount, Untar, Install, Umount, DockerRm, RemoveAll, Unwind, FlagsOK,
        TypeOK, Goto
  <1>2. ASSUME NEW b \in Builders, appendLanguage(b) PROVE FlagsOK'
    BY <1>2 DEF appendLanguage, ReadList, Truncate, Write, FlagsOK, TypeOK,
        Goto
  <1>3. ASSUME NEW b \in Builders, Kill(b) PROVE FlagsOK'
    BY <1>3 DEF Kill, Ended, FlagsOK, TypeOK, Goto
  <1>4. ASSUME Load \/ Stop \/ UNCHANGED vars PROVE FlagsOK'
    BY <1>4 DEF Load, Stop, vars, FlagsOK, TypeOK, Goto
  <1> QED BY <1>1, <1>2, <1>3, <1>4 DEF Next, add

\* The file is left empty only by a run that is writing it, and garbled by one
\* that does not finish or writes over another's text.
LEMMA StepFile ==
  ASSUME TypeOK, FileOK, [Next]_vars
  PROVE  FileOK'
  <1> USE NoListOK
  <1>1. ASSUME NEW b \in Builders, cmdAdd(b) \/ buildRootfs(b) PROVE FileOK'
    BY <1>1 DEF cmdAdd, buildRootfs, DockerCreate, DockerExport, Dd, Mkfs,
        Mount, Untar, Install, Umount, DockerRm, RemoveAll, Goto, Unwind,
        FileOK, TypeOK, disk, overlaps
  <1>2. ASSUME NEW b \in Builders, ReadList(b) \/ Truncate(b) PROVE FileOK'
    BY <1>2 DEF ReadList, Truncate, Goto, FileOK, TypeOK, disk, overlaps
  <1>3. ASSUME NEW b \in Builders, Write(b) PROVE FileOK'
    <2>1. CASE pc'[b] = "broken"
      BY <2>1 DEF FileOK
    <2>2. CASE pc'[b] = "done"
      <3>1. /\ file' \in Written(b)
            /\ clashed' = IF file.state = "empty" THEN clashed ELSE clashed \cup {b}
        BY <1>3, <2>2 DEF Write, Goto, TypeOK
      <3>2. \/ file'.state = "whole"
            \/ file.state # "empty" /\ file'.state = "garbled"
        BY <3>1 DEF Written, Whole
      <3> QED BY <3>1, <3>2 DEF FileOK
    <2> QED BY <1>3, <2>1, <2>2 DEF Write, Goto, TypeOK
  <1>4. ASSUME NEW b \in Builders, Kill(b) PROVE FileOK'
    <2>1. CASE pc[b] = "write"
      BY <1>4, <2>1 DEF Kill, Goto, FileOK, TypeOK
    <2>2. CASE pc[b] # "write"
      BY <1>4, <2>2 DEF Kill, Goto, Ended, FileOK, TypeOK, overlaps
    <2> QED BY <2>1, <2>2
  <1>5. ASSUME Load \/ Stop \/ UNCHANGED vars PROVE FileOK'
    BY <1>5 DEF Load, Stop, vars, FileOK, disk, overlaps
  <1> QED BY <1>1, <1>2, <1>3, <1>4, <1>5 DEF Next, add, appendLanguage

\* buildRootfs is on its way, or its caller goes on, only without an error.
LEMMA StepErr ==
  ASSUME TypeOK, ErrOK, [Next]_vars
  PROVE  ErrOK'
  <1>1. ASSUME NEW b \in Builders, cmdAdd(b) \/ buildRootfs(b) PROVE ErrOK'
    BY <1>1 DEF cmdAdd, buildRootfs, DockerCreate, DockerExport, Dd, Mkfs,
        Mount, Untar, Install, Umount, DockerRm, RemoveAll, Goto, Unwind,
        Fault, ErrOK, TypeOK, Forward, Listing, bounds
  <1>2. ASSUME NEW b \in Builders, appendLanguage(b) PROVE ErrOK'
    BY <1>2 DEF appendLanguage, ReadList, Truncate, Write, Goto, Fault, ErrOK,
        TypeOK, Forward, Listing, bounds
  <1>3. ASSUME NEW b \in Builders, Kill(b) PROVE ErrOK'
    BY <1>3 DEF Kill, Goto, ErrOK, TypeOK, Forward, Listing, bounds
  <1>4. ASSUME Load \/ Stop \/ UNCHANGED vars PROVE ErrOK'
    BY <1>4 DEF Load, Stop, vars, ErrOK, TypeOK, Forward, Listing, bounds
  <1> QED BY <1>1, <1>2, <1>3, <1>4 DEF Next, add

\* On its way a run holds what it has made.
LEMMA StepHolds ==
  ASSUME TypeOK, HoldsOK, [Next]_vars
  PROVE  HoldsOK'
  <1>1. ASSUME NEW b \in Builders, cmdAdd(b) \/ buildRootfs(b) PROVE HoldsOK'
    BY <1>1 DEF cmdAdd, buildRootfs, DockerCreate, DockerExport, Dd, Mkfs,
        Mount, Untar, Install, Umount, DockerRm, RemoveAll, Goto, Unwind,
        HoldsOK, TypeOK
  <1>2. ASSUME NEW b \in Builders, appendLanguage(b) PROVE HoldsOK'
    BY <1>2 DEF appendLanguage, ReadList, Truncate, Write, Goto, HoldsOK,
        TypeOK
  <1>3. ASSUME NEW b \in Builders, Kill(b) PROVE HoldsOK'
    BY <1>3 DEF Kill, Goto, HoldsOK, TypeOK
  <1>4. ASSUME Load \/ Stop \/ UNCHANGED vars PROVE HoldsOK'
    BY <1>4 DEF Load, Stop, vars, HoldsOK, TypeOK
  <1> QED BY <1>1, <1>2, <1>3, <1>4 DEF Next, add

\* Every list stays one Load accepts: an entry is added at most once, by a run
\* that has every flag.
LEMMA StepLists ==
  ASSUME TypeOK, FlagsOK, ListsOK, [Next]_vars
  PROVE  ListsOK'
  <1>1. ASSUME NEW b \in Builders, cmdAdd(b) \/ buildRootfs(b)
        PROVE  UNCHANGED <<copy, file>>
    BY <1>1 DEF cmdAdd, buildRootfs, DockerCreate, DockerExport, Dd, Mkfs,
        Mount, Untar, Install, Umount, DockerRm, RemoveAll, disk
  <1>2. ASSUME NEW b \in Builders, ReadList(b)
        PROVE  ListsOK'
    BY <1>2, NoListOK DEF ReadList, disk, ListsOK, TypeOK
  <1>3. ASSUME NEW b \in Builders, Truncate(b)
        PROVE  ListsOK'
    BY <1>3, NoListOK DEF Truncate, ListsOK
  <1>4. ASSUME NEW b \in Builders, Write(b) \/ Kill(b)
        PROVE  ListsOK'
    <2>1. copy' = copy
      BY <1>4 DEF Write, Kill
    <2>2. Good(file'.list) /\ (file'.state # "whole" => file'.list = <<>>)
      BY <1>4, WritesTorn, TornOK DEF ListsOK
    <2> QED BY <2>1, <2>2 DEF ListsOK
  <1>5. ASSUME Load \/ Stop \/ UNCHANGED vars
        PROVE  UNCHANGED <<copy, file>>
    BY <1>5 DEF Load, Stop, vars, disk
  <1>6. ASSUME UNCHANGED <<copy, file>> PROVE ListsOK'
    BY <1>6 DEF ListsOK
  <1> QED BY <1>1, <1>2, <1>3, <1>4, <1>5, <1>6 DEF Next, add, appendLanguage

\* A step of one run leaves the others, and the other images, alone.
LEMMA StepIsLocal ==
  ASSUME TypeOK, NEW b \in Builders, add(b) \/ Kill(b)
  PROVE  /\ \A c \in Builders \ {b} :
              pc'[c] = pc[c] /\ err'[c] = err[c] /\ res'[c] = res[c]
         /\ \A id \in Ids \ {Target[b]} : image'[id] = image[id]
  <1>1. \A c \in Builders \ {b} : pc'[c] = pc[c]
    BY DEF add, cmdAdd, buildRootfs, DockerCreate, DockerExport, Dd, Mkfs, Mount,
        Untar, Install, Umount, DockerRm, RemoveAll, appendLanguage, ReadList,
        Truncate, Write, Kill, Goto, Unwind, TypeOK
  <1>2. \A c \in Builders \ {b} : err'[c] = err[c]
    BY DEF add, cmdAdd, buildRootfs, DockerCreate, DockerExport, Dd, Mkfs, Mount,
        Untar, Install, Umount, DockerRm, RemoveAll, appendLanguage, ReadList,
        Truncate, Write, Kill, Unwind, TypeOK
  <1>3. \A c \in Builders \ {b} : res'[c] = res[c]
    BY DEF add, cmdAdd, buildRootfs, DockerCreate, DockerExport, Dd, Mkfs, Mount,
        Untar, Install, Umount, DockerRm, RemoveAll, appendLanguage, ReadList,
        Truncate, Write, Kill, TypeOK
  <1>4. \A id \in Ids \ {Target[b]} : image'[id] = image[id]
    BY DEF add, cmdAdd, buildRootfs, DockerCreate, DockerExport, Dd, Mkfs, Mount,
        Untar, Install, Umount, DockerRm, RemoveAll, appendLanguage, ReadList,
        Truncate, Write, Kill, Format, Touch, disk, TypeOK
  <1> QED BY <1>1, <1>2, <1>3, <1>4

\* A run that is past a deferred call keeps only what failures left.
LEMMA StepKeeps ==
  ASSUME TypeOK, HoldsOK, KeepsOK, [Next]_vars
  PROVE  KeepsOK'
  <1>1. ASSUME NEW b \in Builders, cmdAdd(b) \/ buildRootfs(b) PROVE Keeps(b)'
    <2>0. Keeps(b)
      BY DEF KeepsOK
    <2>1. CASE cmdAdd(b)
      BY <2>1 DEF cmdAdd, Goto, Keeps, Listing, HoldsOK, TypeOK
    <2>2. CASE DockerCreate(b)
      <3>1. pc[b] = "create" /\ res[b] = {"tmp"}
        BY <2>2 DEF DockerCreate, HoldsOK
      <3>2. \/ pc'[b] = "export"
            \/ /\ pc'[b] = "removeall" /\ <<b, "create">> \in faults'
               /\ "mount" \notin res'[b]
        <4>1. CASE Fault(b)
          <5>1. <<b, "create">> \in faults'
            BY <3>1, <4>1 DEF Fault
          <5>2. "mount" \notin res'[b]
            <6>1. res'[b] = res[b] \/ res'[b] = res[b] \cup {"container"}
              BY <2>2 DEF DockerCreate, TypeOK
            <6> QED BY <3>1, <6>1
          <5>3. pc'[b] \in {"removeall", "export"}
            BY <2>2, <3>1 DEF DockerCreate, Goto, Unwind, TypeOK
          <5> QED BY <5>1, <5>2, <5>3
        <4>2. CASE ~Fault(b)
          BY <2>2, <4>2 DEF DockerCreate, Goto, TypeOK
        <4> QED BY <4>1, <4>2
      <3> QED BY <3>2 DEF Keeps, Listing
    <2>3. CASE DockerExport(b) \/ Dd(b) \/ Mkfs(b) \/ Mount(b)
      BY <2>3 DEF DockerExport, Dd, Mkfs, Mount, Goto, Unwind, Keeps, Listing,
          HoldsOK, TypeOK
    <2>4. CASE Untar(b) \/ Install(b)
      BY <2>4 DEF Untar, Install, Goto, Unwind, Keeps, Listing, TypeOK
    <2>5. CASE Umount(b)
      BY <2>5 DEF Umount, Goto, Fault, Keeps, Listing, TypeOK
    <2>6. CASE DockerRm(b)
      <3>1. pc[b] = "rm" /\ pc'[b] = "removeall" /\ faults \subseteq faults'
        BY <2>6 DEF DockerRm, Goto, Fault, bounds, TypeOK
      <3>2. "mount" \in res'[b] => "mount" \in res[b]
        BY <2>6 DEF DockerRm, TypeOK
      <3>3. "container" \in res'[b] => <<b, "rm">> \in faults'
        BY <2>6, <3>1 DEF DockerRm, Fault, TypeOK
      <3> QED BY <2>0, <3>1, <3>2, <3>3 DEF Keeps, Listing
    <2>7. CASE RemoveAll(b)
      BY <2>0, <2>7 DEF RemoveAll, Goto, Fault, bounds, Keeps, Listing, TypeOK
    <2> QED BY <1>1, <2>1, <2>2, <2>3, <2>4, <2>5, <2>6, <2>7 DEF buildRootfs
  <1>2. ASSUME NEW b \in Builders, appendLanguage(b) \/ Kill(b) PROVE Keeps(b)'
    <2>0. Keeps(b) /\ res' = res /\ faults \subseteq faults'
      BY <1>2 DEF KeepsOK, appendLanguage, ReadList, Truncate, Write, Kill, Fault, bounds
    <2>1. \/ pc[b] \in Listing /\ pc'[b] \in Listing \cup {"failed", "broken"}
          \/ pc'[b] \in {"killed", "broken"}
      BY <1>2 DEF appendLanguage, ReadList, Truncate, Write, Kill, Goto, Listing, TypeOK
    <2> QED BY <2>0, <2>1 DEF Keeps, Listing
  <1>3. ASSUME NEW b \in Builders, add(b) \/ Kill(b) PROVE faults \subseteq faults'
    BY <1>3 DEF add, cmdAdd, buildRootfs, DockerCreate, DockerExport, Dd, Mkfs,
        Mount, Untar, Install, Umount, DockerRm, RemoveAll, appendLanguage,
        ReadList, Truncate, Write, Kill, Fault, bounds
  <1>4. ASSUME NEW b \in Builders, add(b) \/ Kill(b) PROVE KeepsOK'
    <2>1. ASSUME NEW c \in Builders, c # b PROVE Keeps(c)'
      <3>1. pc'[c] = pc[c] /\ res'[c] = res[c] /\ Keeps(c)
        BY <1>4, <2>1, StepIsLocal DEF KeepsOK
      <3> QED BY <1>3, <1>4, <3>1 DEF Keeps
    <2> QED BY <1>1, <1>2, <1>4, <2>1 DEF KeepsOK, add
  <1>5. ASSUME Load \/ Stop \/ UNCHANGED vars PROVE KeepsOK'
    BY <1>5 DEF Load, Stop, vars, bounds, KeepsOK, Keeps
  <1> QED BY <1>4, <1>5 DEF Next

\* So only the image a run builds has to be looked at.
LEMMA ImageFrame ==
  ASSUME TypeOK, ImageOK, NEW b \in Builders, add(b) \/ Kill(b),
         Answered(Target[b])',
         \A c \in Builders : Target[c] = Target[b] => Made(c)'
  PROVE  ImageOK'
  <1> USE LanguageCatalogueAssumption
  <1>1. ASSUME NEW id \in Ids, id # Target[b] PROVE Answered(id)'
    <2>1. image'[id] = image[id] /\ Answered(id)
      BY <1>1, StepIsLocal DEF ImageOK
    <2>2. ASSUME NEW c \in Builders, Target[c] = id, Disturbs(c)
          PROVE  Disturbs(c)'
      <3>1. pc'[c] = pc[c] /\ res'[c] = res[c]
        BY <1>1, <2>2, StepIsLocal
      <3> QED BY <2>1, <2>2, <3>1 DEF Disturbs
    <2> QED BY <2>1, <2>2 DEF Answered
  <1>2. ASSUME NEW c \in Builders, Target[c] # Target[b] PROVE Made(c)'
    <2>1. c # b /\ Target[c] \in Ids \ {Target[b]}
      BY <1>2
    <2>2. image'[Target[c]] = image[Target[c]] /\ pc'[c] = pc[c] /\ err'[c] = err[c]
      BY <2>1, StepIsLocal
    <2> QED BY <2>2 DEF Made, Formatted, ImageOK
  <1> QED BY <1>1, <1>2 DEF ImageOK

\* Whoever formatted an image last answers for it.
LEMMA StepImage ==
  ASSUME TypeOK, ErrOK, HoldsOK, ImageOK, [Next]_vars
  PROVE  ImageOK'
  <1> USE LanguageCatalogueAssumption
  <1>1. ASSUME NEW b \in Builders, cmdAdd(b) PROVE ImageOK'
    <2>0. image' = image /\ ~Disturbs(b)
      BY <1>1 DEF cmdAdd, HoldsOK, Disturbs, disk
    <2>1. Answered(Target[b])'
      BY <1>1, <2>0, StepIsLocal DEF add, ImageOK, Answered, Disturbs,
          TypeOK
    <2>2. ASSUME NEW c \in Builders, Target[c] = Target[b] PROVE Made(c)'
      BY <1>1, <2>2, StepIsLocal DEF add, cmdAdd, Goto, disk, ImageOK, Made,
          Formatted, Listing, TypeOK
    <2> QED BY <1>1, <2>1, <2>2, ImageFrame DEF add
  <1>2. ASSUME NEW b \in Builders, DockerCreate(b) PROVE ImageOK'
    <2>0. image' = image /\ ~Disturbs(b)
      BY <1>2 DEF DockerCreate, HoldsOK, Disturbs, disk
    <2>1. Answered(Target[b])'
      BY <1>2, <2>0, StepIsLocal DEF add, buildRootfs, ImageOK, Answered, Disturbs,
          TypeOK
    <2>2. ASSUME NEW c \in Builders, Target[c] = Target[b] PROVE Made(c)'
      BY <1>2, <2>2, StepIsLocal DEF add, buildRootfs, DockerCreate, Goto,
          disk, Unwind, ImageOK, Made, Formatted, Listing, TypeOK
    <2> QED BY <1>2, <2>1, <2>2, ImageFrame DEF add, buildRootfs
  <1>3. ASSUME NEW b \in Builders, DockerExport(b) PROVE ImageOK'
    <2>0. image' = image /\ ~Disturbs(b)
      BY <1>3 DEF DockerExport, HoldsOK, Disturbs, disk
    <2>1. Answered(Target[b])'
      BY <1>3, <2>0, StepIsLocal DEF add, buildRootfs, ImageOK, Answered,
          Disturbs, TypeOK
    <2>2. ASSUME NEW c \in Builders, Target[c] = Target[b] PROVE Made(c)'
      BY <1>3, <2>2, StepIsLocal DEF add, buildRootfs, DockerExport, Goto,
          disk, Unwind, ImageOK, Made, Formatted, Finished, Listing, TypeOK
    <2> QED BY <1>3, <2>1, <2>2, ImageFrame DEF add, buildRootfs
  <1>4. ASSUME NEW b \in Builders, Dd(b) PROVE ImageOK'
    <2>1. Answered(Target[b])'
      BY <1>4, StepIsLocal DEF add, buildRootfs, Dd, Goto, Format, Unwind,
          Answered, Disturbs, TypeOK
    <2>2. ASSUME NEW c \in Builders, Target[c] = Target[b] PROVE Made(c)'
      BY <1>4, <2>2, StepIsLocal DEF add, buildRootfs, Dd, Goto, Format,
          Unwind, Made, TypeOK
    <2> QED BY <1>4, <2>1, <2>2, ImageFrame DEF add, buildRootfs
  <1>5. ASSUME NEW b \in Builders, Mkfs(b) PROVE ImageOK'
    <2>1. Answered(Target[b])'
      BY <1>5, StepIsLocal DEF add, buildRootfs, Mkfs, Goto, Format, Unwind,
          ImageOK, Answered, Disturbs, TypeOK
    <2>2. ASSUME NEW c \in Builders, Target[c] = Target[b] PROVE Made(c)'
      BY <1>5, <2>2, StepIsLocal DEF add, buildRootfs, Mkfs, Goto, Format,
          Unwind, ImageOK, Made, Formatted, TypeOK
    <2> QED BY <1>5, <2>1, <2>2, ImageFrame DEF add, buildRootfs
  <1>6. ASSUME NEW b \in Builders, Mount(b) PROVE ImageOK'
    <2>1. Answered(Target[b])'
      BY <1>6, StepIsLocal DEF add, buildRootfs, Mount, Goto, disk, Unwind,
          ImageOK, Answered, Disturbs, ErrOK, TypeOK
    <2>2. ASSUME NEW c \in Builders, Target[c] = Target[b] PROVE Made(c)'
      BY <1>6, <2>2, StepIsLocal DEF add, buildRootfs, Mount, Goto, disk,
          Unwind, ImageOK, Made, Formatted, TypeOK
    <2> QED BY <1>6, <2>1, <2>2, ImageFrame DEF add, buildRootfs
  <1>7. ASSUME NEW b \in Builders, Untar(b) PROVE ImageOK'
    <2>1. Answered(Target[b])'
      BY <1>7, StepIsLocal DEF add, buildRootfs, Untar, Goto, Touch, Unwind,
          ImageOK, Answered, Disturbs, Finished, TypeOK
    <2>2. ASSUME NEW c \in Builders, Target[c] = Target[b] PROVE Made(c)'
      BY <1>7, <2>2, StepIsLocal DEF add, buildRootfs, Untar, Goto, Touch,
          Unwind, ImageOK, Made, Formatted, Finished, TypeOK
    <2> QED BY <1>7, <2>1, <2>2, ImageFrame DEF add, buildRootfs
  <1>8. ASSUME NEW b \in Builders, Install(b) PROVE ImageOK'
    <2>1. Answered(Target[b])'
      BY <1>8, StepIsLocal DEF add, buildRootfs, Install, Goto, Touch, Unwind,
          ImageOK, Answered, Disturbs, Finished, TypeOK
    <2>2. ASSUME NEW c \in Builders, Target[c] = Target[b] PROVE Made(c)'
      BY <1>8, <2>2, StepIsLocal DEF add, buildRootfs, Install, Goto, Touch,
          Unwind, ImageOK, Made, Formatted, Finished, TypeOK
    <2> QED BY <1>8, <2>1, <2>2, ImageFrame DEF add, buildRootfs
  <1>9. ASSUME NEW b \in Builders, Umount(b) PROVE ImageOK'
    <2>1. Answered(Target[b])'
      BY <1>9, StepIsLocal DEF add, buildRootfs, Umount, Goto, Touch, ImageOK,
          Answered, Disturbs, Finished, TypeOK
    <2>2. ASSUME NEW c \in Builders, Target[c] = Target[b] PROVE Made(c)'
      BY <1>9, <2>2, StepIsLocal DEF add, buildRootfs, Umount, Goto, Touch,
          ImageOK, Made, Formatted, Finished, Listing, TypeOK
    <2> QED BY <1>9, <2>1, <2>2, ImageFrame DEF add, buildRootfs
  <1>10. ASSUME NEW b \in Builders, DockerRm(b) PROVE ImageOK'
    <2>1. Answered(Target[b])'
      BY <1>10, StepIsLocal DEF add, buildRootfs, DockerRm, Goto, disk,
          ImageOK, Answered, Disturbs, TypeOK
    <2>2. ASSUME NEW c \in Builders, Target[c] = Target[b] PROVE Made(c)'
      BY <1>10, <2>2, StepIsLocal DEF add, buildRootfs, DockerRm, Goto, disk,
          ImageOK, Made, Formatted, Listing, TypeOK
    <2> QED BY <1>10, <2>1, <2>2, ImageFrame DEF add, buildRootfs
  <1>11. ASSUME NEW b \in Builders, RemoveAll(b) PROVE ImageOK'
    <2>1. Answered(Target[b])'
      BY <1>11, StepIsLocal DEF add, buildRootfs, RemoveAll, Goto, Touch,
          ImageOK, Answered, Made, Disturbs, Finished, TypeOK
    <2>2. ASSUME NEW c \in Builders, Target[c] = Target[b] PROVE Made(c)'
      BY <1>11, <2>2, StepIsLocal DEF add, buildRootfs, RemoveAll, Goto,
          Touch, ImageOK, Made, Formatted, Finished, Listing, TypeOK
    <2> QED BY <1>11, <2>1, <2>2, ImageFrame DEF add, buildRootfs
  <1>12. ASSUME NEW b \in Builders, ReadList(b) PROVE ImageOK'
    <2>1. Answered(Target[b])'
      BY <1>12, StepIsLocal DEF add, appendLanguage, ReadList, Goto, disk,
          ImageOK, Answered, Disturbs, Finished, TypeOK
    <2>2. ASSUME NEW c \in Builders, Target[c] = Target[b] PROVE Made(c)'
      BY <1>12, <2>2, StepIsLocal DEF add, appendLanguage, ReadList, Goto,
          disk, ImageOK, Made, Formatted, Listing, TypeOK
    <2> QED BY <1>12, <2>1, <2>2, ImageFrame DEF add, appendLanguage
  <1>13. ASSUME NEW b \in Builders, Truncate(b) PROVE ImageOK'
    <2>1. Answered(Target[b])'
      BY <1>13, StepIsLocal DEF add, appendLanguage, Truncate, ImageOK,
          Answered, Disturbs, Finished, TypeOK
    <2>2. ASSUME NEW c \in Builders, Target[c] = Target[b] PROVE Made(c)'
      BY <1>13, <2>2, StepIsLocal DEF add, appendLanguage, Truncate, Goto,
          ImageOK, Made, Formatted, Listing, TypeOK
    <2> QED BY <1>13, <2>1, <2>2, ImageFrame DEF add, appendLanguage
  <1>14. ASSUME NEW b \in Builders, Write(b) PROVE ImageOK'
    <2>1. Answered(Target[b])'
      BY <1>14, StepIsLocal DEF add, appendLanguage, Write, ImageOK, Answered,
          Disturbs, HoldsOK, TypeOK
    <2>2. ASSUME NEW c \in Builders, Target[c] = Target[b] PROVE Made(c)'
      BY <1>14, <2>2, StepIsLocal DEF add, appendLanguage, Write, Goto,
          ImageOK, Made, Formatted, Listing, TypeOK
    <2> QED BY <1>14, <2>1, <2>2, ImageFrame DEF add, appendLanguage
  <1>15. ASSUME NEW b \in Builders, Kill(b) PROVE ImageOK'
    <2>0. image' = image /\ res' = res /\ \A c \in Builders \ {b} : pc'[c] = pc[c]
      BY <1>15, StepIsLocal DEF Kill
    <2>1. Answered(Target[b])'
      <3>1. Answered(Target[b])
        BY DEF ImageOK
      <3>2. ASSUME NEW c \in Builders, c # b, Target[c] = Target[b], Disturbs(c)
            PROVE  Disturbs(c)'
        BY <2>0, <3>2 DEF Disturbs
      <3>3. ASSUME Disturbs(b), image[Target[b]].has \notin Finished
            PROVE  Disturbs(b)'
        <4>1. pc[b] = "write" => "mount" \in res[b]
          BY <1>15, <3>3 DEF Disturbs, Kill, Ended
        <4>2. pc[b] # "write" => pc'[b] = "killed"
          BY <1>15 DEF Kill, Goto, TypeOK
        <4> QED BY <2>0, <3>3, <4>1, <4>2 DEF Disturbs, Finished
      <3> QED BY <2>0, <3>1, <3>2, <3>3 DEF Answered
    <2>2. ASSUME NEW c \in Builders, Target[c] = Target[b] PROVE Made(c)'
      BY <1>15, <2>2, StepIsLocal DEF Kill, Goto, ImageOK, Made, Formatted,
          Listing, TypeOK
    <2> QED BY <1>15, <2>1, <2>2, ImageFrame
  <1>16. ASSUME Load \/ Stop \/ UNCHANGED vars PROVE ImageOK'
    BY <1>16 DEF Load, Stop, vars, ImageOK, Answered, Made, Formatted, Disturbs,
        disk
  <1> QED BY <1>1, <1>2, <1>3, <1>4, <1>5, <1>6, <1>7, <1>8, <1>9, <1>10,
      <1>11, <1>12, <1>13, <1>14, <1>15, <1>16 DEF Next, add, buildRootfs,
      appendLanguage

\* An image that was there or built does not become one that never was.
LEMMA KnownStays ==
  ASSUME TypeOK, NEW id \in Ids, Known(id), [Next]_vars
  PROVE  Known(id)'
  <1> USE LanguageCatalogueAssumption
  <1>1. ASSUME NEW b \in Builders, NEW has, Format(b, has)
        PROVE  Known(id)'
    BY <1>1 DEF Format, Known, TypeOK, Images
  <1>2. ASSUME NEW b \in Builders, NEW has, Touch(b, has)
        PROVE  Known(id)'
    BY <1>2 DEF Touch, Known, Finished, TypeOK, Images
  <1>3. ASSUME UNCHANGED image PROVE Known(id)'
    BY <1>3 DEF Known
  <1>4. ASSUME NEW b \in Builders, cmdAdd(b) \/ buildRootfs(b)
        PROVE  UNCHANGED image \/ \E has : Format(b, has) \/ Touch(b, has)
    BY <1>4 DEF cmdAdd, buildRootfs, DockerCreate, DockerExport, Dd, Mkfs,
        Mount, Untar, Install, Umount, DockerRm, RemoveAll, disk
  <1>5. ASSUME NEW b \in Builders, appendLanguage(b) \/ Kill(b) PROVE UNCHANGED image
    BY <1>5 DEF appendLanguage, ReadList, Truncate, Write, Kill, disk
  <1>6. ASSUME Load \/ Stop \/ UNCHANGED vars PROVE UNCHANGED image
    BY <1>6 DEF Load, Stop, vars, disk
  <1> QED BY <1>1, <1>2, <1>3, <1>4, <1>5, <1>6 DEF Next, add

\* A list gets an id only from another list, or from a run that has formatted
\* its image.
LEMMA StepShown ==
  ASSUME TypeOK, ListsOK, FlagsOK, ImageOK, NEW id \in Ids, [Next]_vars, Shown(id)'
  PROVE  Shown(id) \/ Known(id)
  <1>1. ASSUME NEW b \in Builders, cmdAdd(b) \/ buildRootfs(b)
        PROVE  UNCHANGED <<copy, file, registry>>
    BY <1>1 DEF cmdAdd, buildRootfs, DockerCreate, DockerExport, Dd, Mkfs,
        Mount, Untar, Install, Umount, DockerRm, RemoveAll, disk, hosts
  <1>2. ASSUME NEW b \in Builders, ReadList(b)
        PROVE  Shown(id)
    BY <1>2, NoListOK DEF ReadList, disk, hosts, Shown, TypeOK
  <1>3. ASSUME NEW b \in Builders, Truncate(b)
        PROVE  Shown(id)
    BY <1>3, NoListOK DEF Truncate, hosts, Shown
  <1>4. ASSUME NEW b \in Builders, Write(b) \/ Kill(b)
        PROVE  Shown(id) \/ Known(id)
    <2>1. UNCHANGED <<copy, registry>>
      BY <1>4 DEF Write, Kill, hosts
    <2>2. CASE file' = file
      BY <2>1, <2>2 DEF Shown
    <2>3. CASE pc[b] = "write" /\ file' \in Torn(b)
      <3>1. Known(Target[b])
        BY <2>3 DEF ImageOK, Made, Formatted, Listing, Known
      <3>2. IdsOf(file'.list) \subseteq
              IdsOf(file.list) \cup IdsOf(copy[b].list) \cup {Target[b]}
        BY <2>3, TornOK
      <3> QED BY <2>1, <3>1, <3>2 DEF Shown
    <2> QED BY <1>4, <2>2, <2>3, WritesTorn
  <1>5. ASSUME Load \/ Stop \/ UNCHANGED vars
        PROVE  Shown(id)
    <2>1. IdsOf(<<>>) = {}
      BY DEF IdsOf
    <2> QED BY <1>5, <2>1 DEF Load, Stop, vars, disk, Shown
  <1>6. ASSUME UNCHANGED <<copy, file, registry>> PROVE Shown(id)
    BY <1>6 DEF Shown
  <1> QED BY <1>1, <1>2, <1>3, <1>4, <1>5, <1>6 DEF Next, add, appendLanguage

LEMMA StepListed ==
  ASSUME TypeOK, ListsOK, FlagsOK, ImageOK, ListedOK, [Next]_vars
  PROVE  ListedOK'
  BY StepShown, KnownStays DEF ListedOK

\* Where the file is, or was, in a run's hands.
AtFile == {"write", "broken", "done"}

\* A step that is not about the file changes nothing for what was reported ok.
LEMMA DoneFrame ==
  ASSUME DoneOK, UNCHANGED <<file, lossy, clashed>>,
         \A c \in Builders : pc[c] \in AtFile => copy'[c] = copy[c],
         \A c \in Builders : pc[c] \in AtFile \/ pc'[c] \in AtFile => pc'[c] = pc[c]
  PROVE  DoneOK'
  <1>1. \A c \in Builders : AloneAt(c)' => AloneAt(c) /\ copy'[c] = copy[c]
    BY DEF AloneAt, AtFile
  <1>2. ASSUME NEW c \in Builders, AloneAt(c)', NEW b \in Builders, Has(copy[c].list, b)
        PROVE  Has(copy[c].list, b)'
    BY <1>1, <1>2 DEF Has
  <1>3. \A b \in Builders : Has(file.list, b)' = Has(file.list, b)
    BY DEF Has
  <1> QED BY <1>1, <1>2, <1>3 DEF DoneOK, AtFile

\* What was reported ok is not lost unnoticed.
LEMMA StepDone ==
  ASSUME TypeOK, ListsOK, DoneOK, [Next]_vars
  PROVE  DoneOK'
  <1>1. ASSUME NEW b \in Builders, cmdAdd(b) \/ buildRootfs(b)
        PROVE  DoneOK'
    <2>1. UNCHANGED <<file, copy, lossy, clashed>>
      BY <1>1 DEF cmdAdd, buildRootfs, DockerCreate, DockerExport, Dd, Mkfs,
          Mount, Untar, Install, Umount, DockerRm, RemoveAll, disk, overlaps
    <2>2. pc[b] \notin AtFile /\ pc'[b] \notin AtFile
      BY <1>1 DEF cmdAdd, buildRootfs, DockerCreate, DockerExport, Dd, Mkfs,
          Mount, Untar, Install, Umount, DockerRm, RemoveAll, Goto, Unwind,
          AtFile, TypeOK
    <2> QED BY <1>1, <2>1, <2>2, StepIsLocal, DoneFrame DEF add
  <1>2. ASSUME NEW b \in Builders, ReadList(b)
        PROVE  DoneOK'
    <2>1. UNCHANGED <<file, lossy, clashed>>
      BY <1>2 DEF ReadList, disk, overlaps
    <2>2. pc[b] \notin AtFile /\ pc'[b] \notin AtFile
      BY <1>2 DEF ReadList, Goto, AtFile, TypeOK
    <2>3. \A c \in Builders \ {b} : copy'[c] = copy[c]
      BY <1>2 DEF ReadList, TypeOK
    <2> QED BY <1>2, <2>1, <2>2, <2>3, StepIsLocal, DoneFrame DEF add, appendLanguage
  <1>3. ASSUME NEW b \in Builders, Truncate(b)
        PROVE  DoneOK'
    <2>1. CASE pc'[b] = "failed"
      <3>1. /\ UNCHANGED <<file, copy, lossy, clashed>>
            /\ pc[b] \notin AtFile /\ pc'[b] \notin AtFile
        BY <1>3, <2>1 DEF Truncate, Goto, AtFile, TypeOK
      <3> QED BY <1>3, <3>1, StepIsLocal, DoneFrame DEF add, appendLanguage
    <2>2. CASE pc'[b] = "write"
      <3>1. /\ pc[b] = "truncate" /\ UNCHANGED <<copy, clashed>>
            /\ lossy' = IF copy[b] = file THEN lossy ELSE lossy \cup {b}
        BY <1>3, <2>2 DEF Truncate, Goto, TypeOK
      <3>2. \A c \in Builders \ {b} : pc'[c] = pc[c]
        BY <1>3, StepIsLocal DEF add, appendLanguage
      <3>3. ASSUME clashed' = {}, \A c \in Builders : pc'[c] # "broken",
                   NEW d \in Builders, pc'[d] = "done", lossy' \subseteq {d},
                   NEW c \in Builders, AloneAt(c)'
            PROVE  Has(copy[c].list, d)'
        <4>1. c = b /\ \A x \in Builders : pc[x] \notin {"write", "broken"}
          BY <2>2, <3>1, <3>2, <3>3 DEF AloneAt
        <4>2. d # b /\ pc[d] = "done"
          BY <2>2, <3>2, <3>3
        <4>3. lossy \subseteq {d} /\ copy[b] = file
          BY <3>1, <3>3, <4>2
        <4>4. Has(file.list, d)
          BY <3>1, <3>3, <4>1, <4>2, <4>3 DEF DoneOK
        <4> QED BY <3>1, <4>1, <4>3, <4>4 DEF Has
      <3> QED BY <2>2, <3>3 DEF DoneOK
    <2> QED BY <1>3, <2>1, <2>2 DEF Truncate, Goto, TypeOK
  <1>4. ASSUME NEW b \in Builders, Write(b)
        PROVE  DoneOK'
    <2> DEFINE new == withEntry(copy[b].list, entry(b))
    <2>1. CASE pc'[b] = "broken"
      BY <2>1 DEF DoneOK
    <2>2. CASE pc'[b] = "done"
      <3>1. /\ pc[b] = "write" /\ UNCHANGED <<copy, lossy>> /\ file' \in Written(b)
            /\ clashed' = IF file.state = "empty" THEN clashed ELSE clashed \cup {b}
        BY <1>4, <2>2 DEF Write, Goto, TypeOK
      <3>2. \A c \in Builders \ {b} : pc'[c] = pc[c]
        BY <1>4, StepIsLocal DEF add, appendLanguage
      <3> SUFFICES ASSUME clashed' = {}, \A c \in Builders : pc'[c] # "broken",
                          NEW d \in Builders, pc'[d] = "done", lossy' \subseteq {d}
                   PROVE  /\ (\A c \in Builders : pc'[c] # "write") => Has(file.list, d)'
                          /\ \A c \in Builders : AloneAt(c)' => Has(copy[c].list, d)'
        BY DEF DoneOK
      <3>3. file.state = "empty" /\ clashed = {} /\ file' = Whole(new)
        BY <3>1 DEF Written
      <3>4. file'.state = "whole" /\ file'.list = new
        BY <3>3 DEF Whole
      <3>5. ASSUME \A c \in Builders : pc'[c] # "write"
            PROVE  Has(file.list, d)'
        <4>1. AloneAt(b) /\ \A c \in Builders : pc[c] # "broken"
          BY <3>1, <3>2, <3>3, <3>5 DEF AloneAt
        <4>2. /\ copy[b].list \in Seq(Entries) /\ entry(b) \in Entries
              /\ Distinct(copy[b].list)
          BY LanguageCatalogueAssumption DEF TypeOK, Files, entry, Entries, ListsOK, Good
        <4>3. entry(b).id = Target[b] /\ entry(b).by = b /\ b # NoBuilder
          BY LanguageCatalogueAssumption DEF entry
        <4>4. /\ \E i \in 1..Len(new) : new[i] = entry(b)
              /\ \A j \in 1..Len(copy[b].list) : copy[b].list[j].id # entry(b).id =>
                   \E i \in 1..Len(new) : new[i] = copy[b].list[j]
          BY <4>2, WithEntry, Zenon
        <4> HIDE DEF new
        <4>5. CASE Target[d] = Target[b]
          BY <3>4, <4>3, <4>4, <4>5 DEF Has
        <4>6. CASE Target[d] # Target[b]
          <5>1. d # b /\ pc[d] = "done"
            BY <3>2, <4>6
          <5>2. Has(copy[b].list, d)
            BY <3>1, <3>3, <4>1, <5>1 DEF DoneOK
          <5>3. PICK j \in 1..Len(copy[b].list) :
                  copy[b].list[j].id = Target[d] /\ copy[b].list[j].by # NoBuilder
            BY <5>2 DEF Has
          <5>4. PICK i \in 1..Len(new) : new[i] = copy[b].list[j]
            BY <4>3, <4>4, <4>6, <5>3
          <5> QED BY <3>4, <5>3, <5>4 DEF Has
        <4> QED BY <4>5, <4>6
      <3>6. \A c \in Builders : ~AloneAt(c)'
        BY <3>4 DEF AloneAt
      <3> QED BY <3>5, <3>6
    <2> QED BY <1>4, <2>1, <2>2 DEF Write, Goto, TypeOK
  <1>5. ASSUME NEW b \in Builders, Kill(b)
        PROVE  DoneOK'
    <2>1. CASE pc[b] = "write"
      <3>1. pc'[b] = "broken"
        BY <1>5, <2>1 DEF Kill, Goto, TypeOK
      <3> QED BY <3>1 DEF DoneOK
    <2>2. CASE pc[b] # "write"
      <3>1. /\ UNCHANGED <<file, copy, lossy, clashed>>
            /\ pc[b] \notin AtFile /\ pc'[b] \notin AtFile
        BY <1>5, <2>2 DEF Kill, Ended, Goto, AtFile, TypeOK, overlaps
      <3> QED BY <1>5, <3>1, StepIsLocal, DoneFrame
    <2> QED BY <2>1, <2>2
  <1>6. ASSUME Load \/ Stop \/ UNCHANGED vars PROVE DoneOK'
    <2>1. UNCHANGED <<file, copy, lossy, clashed, pc>>
      BY <1>6 DEF Load, Stop, vars, disk, overlaps
    <2> QED BY <2>1, DoneFrame
  <1> QED BY <1>1, <1>2, <1>3, <1>4, <1>5, <1>6 DEF Next, add, appendLanguage

\* Every step preserves the inductive invariant.
LEMMA StepCInv ==
  ASSUME CInv, [Next]_vars
  PROVE  CInv'
  BY StepTypeOK, StepBounds, StepLists, StepFlags, StepFile, StepErr, StepHolds,
     StepKeeps, StepImage, StepListed, StepDone DEF CInv

LEMMA InitCInv ==
  ASSUME Init
  PROVE  CInv
  <1> USE LanguageCatalogueAssumption
  <1> DEFINE old == [i \in 1..Len(Listed) |-> Old(Listed[i])]
  <1>1. /\ old \in Seq(Entries) /\ Len(old) = Len(Listed)
        /\ \A i \in 1..Len(old) : old[i].complete /\ old[i].id = Listed[i]
    BY DEF Old, Entries
  <1>2. Good(old)
    <2> HIDE DEF old
    <2> QED BY <1>1 DEF Good, Complete, Distinct
  <1>3. file = NoList("missing") \/ file = Whole(old)
    BY DEF Init
  <1>4. /\ file \in Files /\ file.state \in {"missing", "whole"}
        /\ Good(file.list) /\ (file.state # "whole" => file.list = <<>>)
    <2> HIDE DEF old
    <2> QED BY <1>1, <1>2, <1>3, NoListOK DEF Whole, Files
  <1>5. /\ pc \in [Builders -> PCs] /\ err \in [Builders -> BOOLEAN]
        /\ res \in [Builders -> SUBSET {"tmp", "container", "mount"}]
    BY DEF Init, PCs
  <1>6. copy \in [Builders -> {f \in Files : f.state # "garbled"}]
    BY NoListOK DEF Init
  <1>7. image \in [Ids -> Images]
    BY DEF Init, Images
  <1>8. /\ registry \in Seq(Entries) /\ kills \in 0..MaxKills
        /\ faults \subseteq Builders \X PCs /\ IsFiniteSet(faults)
        /\ Cardinality(faults) <= MaxFaults
    BY FS_EmptySet DEF Init
  <1>9. TypeOK
    BY <1>4, <1>5, <1>6, <1>7, <1>8 DEF Init, TypeOK
  <1>10. ListsOK
    BY <1>4, NoListOK DEF Init, ListsOK
  <1>11. FlagsOK /\ FileOK /\ ErrOK /\ HoldsOK /\ KeepsOK
    BY <1>4 DEF Init, FlagsOK, FileOK, ErrOK, HoldsOK, KeepsOK, Keeps, Forward,
        Listing
  <1>12. ImageOK
    BY DEF Init, ImageOK, Answered, Made, Formatted, Listing
  <1>13. ListedOK
    <2>1. IdsOf(old) \subseteq {Listed[i] : i \in 1..Len(Listed)}
      <3> HIDE DEF old
      <3> QED BY <1>1 DEF IdsOf
    <2>2. IdsOf(file.list) \subseteq {Listed[i] : i \in 1..Len(Listed)}
      <3> HIDE DEF old
      <3> QED BY <1>3, <2>1, NoListOK DEF Whole
    <2>3. IdsOf(registry) = {} /\ \A b \in Builders : IdsOf(copy[b].list) = {}
      BY NoListOK DEF Init, IdsOf
    <2>4. \A id \in Ids : Shown(id) => \E i \in 1..Len(Listed) : Listed[i] = id
      BY <2>2, <2>3 DEF Shown
    <2> QED BY <2>4 DEF Init, ListedOK, Known, Finished
  <1>14. DoneOK
    BY DEF Init, DoneOK
  <1> QED BY <1>8, <1>9, <1>10, <1>11, <1>12, <1>13, <1>14 DEF CInv

-----------------------------------------------------------------------------
\* The theorems.

\* The invariant holds.
LEMMA Invariant == Spec => []CInv
  <1>1. Init => CInv
    BY InitCInv
  <1>2. CInv /\ [Next]_vars => CInv'
    BY StepCInv
  <1> QED BY <1>1, <1>2, PTL DEF Spec

\* TypeOK is an invariant: in particular appendLanguage never goes on with a
\* languages file that did not parse.
THEOREM TypeCorrect == Spec => []TypeOK
  <1>1. CInv => TypeOK
    BY DEF CInv
  <1> QED BY <1>1, Invariant, PTL

\* OfferedIsBootable is an invariant: what a server offers, or would offer if
\* it were started now, has an image that boots unless a build of the same id
\* is under way, did not end well, overlapped with another or lost its unmount.
THEOREM OffersAreBootable == Spec => []OfferedIsBootable
  <1>1. ASSUME TypeOK, ImageOK, ListedOK
        PROVE  OfferedIsBootable
    <2>1. ASSUME NEW id \in Ids, Shown(id)
          PROVE  \/ image[id].has \in {"bootable", "corrupt"}
                 \/ \E b \in Builders : Target[b] = id /\ Disturbs(b)
      BY <2>1, <1>1 DEF ListedOK, Known, ImageOK, Answered, Finished
    <2>2. ASSUME NEW i \in 1..Len(registry)
          PROVE  registry[i].id \in Ids /\ Shown(registry[i].id)
      <3>1. registry[i] \in Entries
        BY <1>1 DEF TypeOK
      <3>2. registry[i].id \in IdsOf(registry)
        BY DEF IdsOf
      <3> QED BY <3>1, <3>2 DEF Entries, Shown
    <2>3. ASSUME NEW i \in 1..Len(file.list)
          PROVE  file.list[i].id \in Ids /\ Shown(file.list[i].id)
      <3>1. file.list \in Seq(Entries)
        BY <1>1 DEF TypeOK, Files
      <3>2. file.list[i] \in Entries
        BY <3>1
      <3>3. file.list[i].id \in IdsOf(file.list)
        BY DEF IdsOf
      <3> QED BY <3>2, <3>3 DEF Entries, Shown
    <2> QED BY <2>1, <2>2, <2>3 DEF OfferedIsBootable
  <1> QED BY <1>1, Invariant, PTL DEF CInv

\* DoneIsListed is an invariant: what a run of dredd-build reported ok is in the
\* file, unless another run truncated a file it had not read or ended in its
\* write, or two writes overlapped.
THEOREM ReportedIsListed == Spec => []DoneIsListed
  <1>1. CInv => DoneIsListed
    BY DEF CInv, DoneOK, Has, DoneIsListed
  <1> QED BY <1>1, Invariant, PTL

\* BuiltFileLoads holds of every step: a whole list always loads, and a server is
\* refused only before the first run, while the file is in a run's hands or
\* after the run ended there, or over the mixed text of overlapping writes.
THEOREM WhatIsWrittenLoads == Spec => BuiltFileLoads
  <1>1. ASSUME CInv, [Next]_vars
        PROVE  server' = "refused" /\ server # "refused" =>
                 \/ file.state = "missing"
                 \/ file.state = "empty" /\ \E b \in Builders : pc[b] \in {"write", "broken"}
                 \/ /\ file.state = "garbled"
                    /\ clashed # {} \/ \E b \in Builders : pc[b] = "broken"
    <2> HAVE server' = "refused" /\ server # "refused"
    <2>1. \A b \in Builders : add(b) \/ Kill(b) => server' = server
      BY DEF add, cmdAdd, buildRootfs, DockerCreate, DockerExport, Dd, Mkfs,
          Mount, Untar, Install, Umount, DockerRm, RemoveAll, appendLanguage,
          ReadList, Truncate, Write, Kill, hosts
    <2>2. Load
      BY <1>1, <2>1 DEF Next, Stop, vars
    <2>3. ~Loads(file)
      BY <2>2 DEF Load
    <2>4. Good(file.list) /\ file \in Files
      BY <1>1 DEF CInv, ListsOK, TypeOK
    <2>5. file.state # "whole"
      BY <2>3, <2>4 DEF Loads, Good, Complete, Distinct
    <2> QED BY <1>1, <2>4, <2>5 DEF CInv, FileOK, Files
  <1> QED BY <1>1, Invariant, PTL DEF Spec, BuiltFileLoads

\* CleansUp is an invariant: whatever a run that ends by itself leaves, a mount,
\* a container or a directory, its own failing command has left.
THEOREM RunsCleanUp == Spec => []CleansUp
  <1>1. CInv => CleansUp
    BY DEF CInv, KeepsOK, Keeps, Listing, CleansUp
  <1> QED BY <1>1, Invariant, PTL
=============================================================================
