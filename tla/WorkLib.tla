------------------------------- MODULE WorkLib -------------------------------
(***************************************************************************)
(* The work library shared by the staged tools: `vcmp --work` records a    *)
(* compilation unit (crates/cli/src/worklib.rs), `velab -L` builds a       *)
(* snapshot from libraries (staged.rs) and `vrun` re-checks what the       *)
(* snapshot consumed (RULE V, staged.rs and pipeline.rs).                  *)
(*                                                                         *)
(* Several vcmp processes may work on one directory, files are edited      *)
(* meanwhile, and a vcmp may stop between any two of its writes.  A digest *)
(* is the content it was taken of (no collisions), so a compilation unit   *)
(* is the texts it was compiled from, and a blob's name is that unit.      *)
(***************************************************************************)
EXTENDS Integers, Sequences, FiniteSets, SequencesExt, Keeping

CONSTANTS
    Paths,        \* source and include files
    Contents,     \* what a file may hold
    Initial,      \* Initial[f]: what file f holds at first
    Texts,        \* Texts[f]: the contents file f may be given
    Length,       \* Length[c]: the size of content c in bytes
    Defines,      \* Defines[c]: the design units c declares
    Instances,    \* Instances[c]: the units its modules instantiate
    Includes,     \* Includes[c]: the files it includes
    Dirs,         \* library directories
    Requests,     \* vcmp command lines: [dir, name, sources]
    SearchOrder,  \* velab's `-L` options, [dir, name] each, in order
    Tops,         \* velab's `--top`
    Vcmps,        \* vcmp processes
    None,
    MaxEdits,     \* bound: edits of files
    MaxRuns,      \* bound: vcmp runs
    MaxStops      \* bound: vcmp runs that stop half way

ASSUME WorkLibAssumption ==
    /\ Length \in [Contents -> Nat]
    /\ Texts \in [Paths -> SUBSET Contents]
    /\ Initial \in [Paths -> Contents] /\ \A f \in Paths : Initial[f] \in Texts[f]
    /\ Includes \in [Contents -> SUBSET Paths]
    /\ \A r \in Requests : r.dir \in Dirs /\ r.sources \in (SUBSET Paths) \ {{}}
    /\ SearchOrder # <<>> /\ SearchOrder \in Seq(Range(SearchOrder))
    /\ \A i \in DOMAIN SearchOrder : SearchOrder[i].dir \in Dirs
    /\ MaxEdits \in Nat /\ MaxRuns \in Nat /\ MaxStops \in Nat

VARIABLES
    text,        \* text[f]: the content of file f
    mtime,       \* mtime[f]: advances with every write of f
    manifest,    \* manifest[d]: lib.toml, [name, cus], or None
    written,     \* written[d]: lib.toml's mtime
    blobs,       \* blobs[d]: the units whose blob is in d
    vcmp,        \* vcmp[p]: the state of a vcmp process
    elab,        \* the velab process, and the snapshot it leaves
    edits, runs, stops,
    overlapped   \* overlapped[d]: two add_cu calls on d overlapped

files == <<text, mtime, edits>>
lib   == <<manifest, written, blobs, overlapped>>
vars  == <<text, mtime, manifest, written, blobs, vcmp, elab, edits, runs,
           stops, overlapped>>

-----------------------------------------------------------------------------
(* Compilation units and manifests.                                        *)

\* A unit: the contents it was compiled from, of its sources and its includes.
Units(cu)    == UNION {Defines[cu.src[f]] : f \in DOMAIN cu.src}
Uses(cu)     == UNION {Instances[cu.src[f]] : f \in DOMAIN cu.src}
Digests(cu)  == {<<f, cu.src[f]>> : f \in DOMAIN cu.src}
                   \cup {<<f, cu.inc[f]>> : f \in DOMAIN cu.inc}
CUs(m)       == IF m = None THEN {} ELSE Range(m.cus)

\* t with an entry for k.
Put(t, k, v) == [x \in DOMAIN t \cup {k} |-> IF x = k THEN v ELSE t[x]]

Supersedes(cu, old) == DOMAIN cu.src \cap DOMAIN old.src # {}

Retained(cus, cu) == Kept(cus, {i \in 1 .. Len(cus) : ~Supersedes(cu, cus[i])})

\* mutant: the new unit goes to the end of the manifest
Slot_End(cus, cu) == Len(Retained(cus, cu)) + 1

\* The place of the first superseded unit; everything before it is retained.
Slot(cus, cu) == Min({i \in 1 .. Len(cus) : Supersedes(cu, cus[i])}
                        \cup {Len(cus) + 1})

Recorded(cus, cu) == InsertAt(Retained(cus, cu), Slot(cus, cu), cu)

\* mutant: a unit is looked for in the units of its own sources only
Redefines_Superseded(cus, cu) ==
    \E old \in Range(cus) : Supersedes(cu, old) /\ Units(old) \cap Units(cu) # {}

\* E-DUP-UNIT: what is retained already declares one of the new unit's names.
Redefines(cus, cu) ==
    \E old \in Range(Retained(cus, cu)) : Units(old) \cap Units(cu) # {}

-----------------------------------------------------------------------------
Idle == [pc |-> "idle"]

Init ==
    /\ text = Initial
    /\ mtime = [f \in Paths |-> 0]
    /\ manifest = [d \in Dirs |-> None]
    /\ written = [d \in Dirs |-> 0]
    /\ blobs = [d \in Dirs |-> {}]
    /\ vcmp = [p \in Vcmps |-> Idle]
    /\ elab = Idle
    /\ edits = 0 /\ runs = 0 /\ stops = 0
    /\ overlapped = [d \in Dirs |-> FALSE]

\* Somebody saves a file; its modification time advances.
Edit(f) ==
    /\ edits < MaxEdits
    /\ \E c \in Texts[f] \ {text[f]} : text' = [text EXCEPT ![f] = c]
    /\ mtime' = [mtime EXCEPT ![f] = @ + 1]
    /\ edits' = edits + 1
    /\ UNCHANGED <<manifest, written, blobs, vcmp, elab, runs, stops, overlapped>>

-----------------------------------------------------------------------------
(* vcmp --work: read the sources, then add_cu.                             *)

Start(p, r) ==
    /\ vcmp[p] = Idle
    /\ runs < MaxRuns
    /\ runs' = runs + 1
    /\ vcmp' = [vcmp EXCEPT ![p] = [pc |-> "read", job |-> r, src |-> <<>>, inc |-> <<>>]]
    /\ UNCHANGED <<files, lib, elab, stops>>

\* One read gives both the digest and the text that is compiled.
ReadSource(p, f) ==
    /\ vcmp[p].pc = "read"
    /\ f \in vcmp[p].job.sources \ DOMAIN vcmp[p].src
    /\ vcmp' = [vcmp EXCEPT ![p].src = Put(@, f, text[f])]
    /\ UNCHANGED <<files, lib, elab, runs, stops>>

Included(p) == UNION {Includes[vcmp[p].src[f]] : f \in vcmp[p].job.sources}

\* The preprocessor opens the includes once every source is in.
ReadInclude(p, f) ==
    /\ vcmp[p].pc = "read"
    /\ DOMAIN vcmp[p].src = vcmp[p].job.sources
    /\ f \in Included(p) \ DOMAIN vcmp[p].inc
    /\ vcmp' = [vcmp EXCEPT ![p].inc = Put(@, f, text[f])]
    /\ UNCHANGED <<files, lib, elab, runs, stops>>

OtherLibrary(m, name) == m # None /\ m.name # name

InLibrary(p) == vcmp[p].pc \in {"blob", "commit", "list", "sweep"}

\* Read and parse the manifest, check, and compute the new one.  A directory
\* of another library or a redefined unit ends the run with nothing written.
ReadLibrary(p) ==
    /\ vcmp[p].pc = "read"
    /\ DOMAIN vcmp[p].src = vcmp[p].job.sources
    /\ DOMAIN vcmp[p].inc = Included(p)
    /\ LET d   == vcmp[p].job.dir
           old == IF manifest[d] = None THEN [name |-> vcmp[p].job.name, cus |-> <<>>]
                                        ELSE manifest[d]
           cu  == [src |-> vcmp[p].src, inc |-> vcmp[p].inc]
       IN  IF OtherLibrary(manifest[d], vcmp[p].job.name) \/ Redefines(old.cus, cu)
           THEN vcmp' = [vcmp EXCEPT ![p] = Idle] /\ UNCHANGED overlapped
           ELSE /\ vcmp' = [vcmp EXCEPT ![p] =
                      [pc |-> "blob", job |-> vcmp[p].job, cu |-> cu,
                       new |-> [old EXCEPT !.cus = Recorded(@, cu)], victims |-> {}]]
                /\ overlapped' = [overlapped EXCEPT ![d] =
                      @ \/ \E q \in Vcmps \ {p} : InLibrary(q) /\ vcmp[q].job.dir = d]
    /\ UNCHANGED <<files, manifest, written, blobs, elab, runs, stops>>

\* A blob already there is left alone: its name is its content.
WriteBlob(p) ==
    /\ vcmp[p].pc = "blob"
    /\ blobs' = [blobs EXCEPT ![vcmp[p].job.dir] = @ \cup {vcmp[p].cu}]
    /\ vcmp' = [vcmp EXCEPT ![p].pc = "commit"]
    /\ UNCHANGED <<files, manifest, written, overlapped, elab, runs, stops>>

\* The manifest is staged beside lib.toml and renamed over it.
Commit(p) ==
    /\ vcmp[p].pc = "commit"
    /\ LET d == vcmp[p].job.dir
       IN  /\ manifest' = [manifest EXCEPT ![d] = vcmp[p].new]
           /\ written' = [written EXCEPT ![d] = @ + 1]
    /\ vcmp' = [vcmp EXCEPT ![p].pc = "list"]
    /\ UNCHANGED <<files, blobs, overlapped, elab, runs, stops>>

\* mutant: only what this run superseded is collected
Victims_Superseded(p) ==
    {b \in blobs[vcmp[p].job.dir] : Supersedes(vcmp[p].cu, b)} \ CUs(vcmp[p].new)

\* mutant: everything but the blob just written is collected
Victims_AllOthers(p) == blobs[vcmp[p].job.dir] \ {vcmp[p].cu}

\* Blobs the new manifest does not name.
Victims(p) == blobs[vcmp[p].job.dir] \ CUs(vcmp[p].new)

\* The directory is read once the manifest is in place.
List(p) ==
    /\ vcmp[p].pc = "list"
    /\ vcmp' = [vcmp EXCEPT ![p] = IF Victims(p) = {} THEN Idle
                     ELSE [@ EXCEPT !.pc = "sweep", !.victims = Victims(p)]]
    /\ UNCHANGED <<files, lib, elab, runs, stops>>

\* A blob somebody else has removed meanwhile is no error.
Sweep(p) ==
    /\ vcmp[p].pc = "sweep"
    /\ \E b \in vcmp[p].victims :
          /\ blobs' = [blobs EXCEPT ![vcmp[p].job.dir] = @ \ {b}]
          /\ vcmp' = [vcmp EXCEPT ![p] = IF vcmp[p].victims = {b} THEN Idle
                          ELSE [vcmp[p] EXCEPT !.victims = @ \ {b}]]
    /\ UNCHANGED <<files, manifest, written, overlapped, elab, runs, stops>>

\* A crash, or a write that fails: nothing is undone.
Stop(p) ==
    /\ InLibrary(p)
    /\ stops < MaxStops
    /\ stops' = stops + 1
    /\ vcmp' = [vcmp EXCEPT ![p] = Idle]
    /\ UNCHANGED <<files, lib, elab, runs>>

Vcmp(p) == \/ \E r \in Requests : Start(p, r)
           \/ \E f \in Paths : ReadSource(p, f) \/ ReadInclude(p, f)
           \/ ReadLibrary(p) \/ WriteBlob(p) \/ Commit(p)
           \/ List(p) \/ Sweep(p) \/ Stop(p)

-----------------------------------------------------------------------------
(* velab -L.                                                               *)

\* The `-L` directories in which the loaded manifests declare n.
Declaring(seen, n) ==
    {i \in DOMAIN seen : \E cu \in CUs(seen[i]) : n \in Units(cu)}

\* mutant: the last `-L` wins a name
Winners_LastLib(seen, names) ==
    {key \in UNION {{i} \X CUs(seen[i]) : i \in DOMAIN seen} :
        \E n \in names \cap Units(key[2]) : key[1] = Max(Declaring(seen, n))}

\* The unit map: the first `-L` that declares a name wins it.
Winners(seen, names) ==
    {key \in UNION {{i} \X CUs(seen[i]) : i \in DOMAIN seen} :
        \E n \in names \cap Units(key[2]) : key[1] = Min(Declaring(seen, n))}

\* A manifest is read; a missing one, or another library's, ends the run.
LoadManifest ==
    /\ elab.pc \in {"idle", "libs"}
    /\ LET seen == IF elab.pc = "idle" THEN <<>> ELSE elab.seen
           l    == SearchOrder[Len(seen) + 1]
           m    == manifest[l.dir]
       IN  elab' = IF m = None \/ OtherLibrary(m, l.name) THEN Idle
                   ELSE [pc   |-> IF Len(seen) + 1 = Len(SearchOrder) THEN "tops"
                                                                      ELSE "libs",
                         seen |-> Append(seen, m)]
    /\ UNCHANGED <<files, lib, vcmp, runs, stops>>

\* A top no library declares ends the run.
ResolveTops ==
    /\ elab.pc = "tops"
    /\ elab' = IF \E t \in Tops : Declaring(elab.seen, t) = {} THEN Idle
               ELSE [pc |-> "load", seen |-> elab.seen, loaded |-> {},
                     queue |-> Winners(elab.seen, Tops)]
    /\ UNCHANGED <<files, lib, vcmp, runs, stops>>

\* One unit of the instantiation closure; a missing blob ends the run.
LoadUnit ==
    /\ elab.pc = "load"
    /\ \E key \in elab.queue :
          LET cu     == key[2]
              loaded == elab.loaded \cup {key}
          IN  elab' = IF cu \notin blobs[SearchOrder[key[1]].dir] THEN Idle
                      ELSE [elab EXCEPT !.loaded = loaded,
                              !.queue = (@ \cup Winners(elab.seen, Uses(cu))) \ loaded]
    /\ UNCHANGED <<files, lib, vcmp, runs, stops>>

\* What a snapshot records of its upstream besides the blobs.
Entries(e) == {<<"lib", i, e.seen[i]>> : i \in DOMAIN e.seen}
    \cup UNION {{<<"file", dg[1], dg[2]>> : dg \in Digests(key[2])} : key \in e.loaded}

\* What is on disk for an entry now.
Live(e) == IF e[1] = "lib" THEN manifest[SearchOrder[e[2]].dir] ELSE text[e[2]]

\* The size of an entry's content.  Digests have a fixed width, so manifests
\* that list the same paths and units in the same places have one size.
Size(e, c) == IF e[1] = "file" THEN Length[c]
              ELSE <<c.name, [i \in DOMAIN c.cus |->
                     <<DOMAIN c.cus[i].src, DOMAIN c.cus[i].inc, Units(c.cus[i])>>]>>

Mtime(e) == IF e[1] = "lib" THEN written[SearchOrder[e[2]].dir] ELSE mtime[e[2]]

Fingerprint(e) == <<Mtime(e), Size(e, Live(e))>>

\* The snapshot is elaborated; its stamps are still to be taken.
Elaborate ==
    /\ elab.pc = "load"
    /\ elab.queue = {}
    /\ elab' = [pc |-> "stamp", seen |-> elab.seen, loaded |-> elab.loaded,
                stamps |-> <<>>]
    /\ UNCHANGED <<files, lib, vcmp, runs, stops>>

Unstamped == Entries(elab) \ DOMAIN elab.stamps

\* mutant: the content is not compared before it is stamped
Verified_Blindly(e) == TRUE

\* stamp_verified reads and hashes the file again ...
Verified(e) == Live(e) = e[3]

\* ... and has no stamp for an entry that changed since it was recorded.
Rehash ==
    /\ elab.pc = "stamp"
    /\ Unstamped # {}
    /\ LET e == CHOOSE x \in Unstamped : TRUE
       IN  elab' = IF Verified(e)
                   THEN [pc |-> "stat", seen |-> elab.seen, loaded |-> elab.loaded,
                         stamps |-> elab.stamps, size |-> Size(e, Live(e))]
                   ELSE [elab EXCEPT !.stamps = Put(@, e, None)]
    /\ UNCHANGED <<files, lib, vcmp, runs, stops>>

\* Then it asks for the file's time and size: a size that differs from what it
\* read means another write came in between.
Stat ==
    /\ elab.pc = "stat"
    /\ LET e == CHOOSE x \in Unstamped : TRUE
       IN  elab' = [pc |-> "stamp", seen |-> elab.seen, loaded |-> elab.loaded,
                    stamps |-> Put(elab.stamps, e, IF Size(e, Live(e)) = elab.size
                                                   THEN Fingerprint(e) ELSE None)]
    /\ UNCHANGED <<files, lib, vcmp, runs, stops>>

WriteSnapshot ==
    /\ elab.pc = "stamp"
    /\ Unstamped = {}
    /\ elab' = [elab EXCEPT !.pc = "done"]
    /\ UNCHANGED <<files, lib, vcmp, runs, stops>>

Velab == LoadManifest \/ ResolveTops \/ LoadUnit \/ Elaborate \/ Rehash \/ Stat
            \/ WriteSnapshot

-----------------------------------------------------------------------------
(* vrun's gate only reads, so it is a predicate of the state.              *)

\* check_fresh: a stamp that fits the time and size on disk is trusted;
\* otherwise the content is hashed.
Fresh(e) ==
    \/ elab.stamps[e] # None /\ elab.stamps[e] = Fingerprint(e)
    \/ Live(e) = e[3]

Accepts ==
    /\ elab.pc = "done"
    /\ \A e \in Entries(elab) : Fresh(e)
    /\ \A key \in elab.loaded : key[2] \in blobs[SearchOrder[key[1]].dir]

Quiet == /\ \A p \in Vcmps : vcmp[p] = Idle
         /\ elab.pc \in {"idle", "done"}
         /\ UNCHANGED vars

Next == (\E f \in Paths : Edit(f)) \/ (\E p \in Vcmps : Vcmp(p)) \/ Velab \/ Quiet

Spec == Init /\ [][Next]_vars

-----------------------------------------------------------------------------
\* Two units have no name and no source file in common.
Apart(x, y) == Units(x) \cap Units(y) = {} /\ ~Supersedes(x, y)

\* The units of manifest m of directory d are of requests for its library, and apart.
ConsistentIn(d, m) ==
    /\ \A cu \in Range(m.cus) : \E r \in Requests :
          r.dir = d /\ r.name = m.name /\ r.sources = DOMAIN cu.src
    /\ \A i, j \in 1 .. Len(m.cus) : i # j => Apart(m.cus[i], m.cus[j])

\* No manifest ever lists two units that declare one name or were compiled from
\* one source file, nor a unit recorded under the name of another library, not
\* even when vcmp processes race (add_cu supersedes before it looks for
\* redefinitions, and what it writes was checked as a whole).
ManifestConsistent ==
    \A d \in Dirs : manifest[d] # None => ConsistentIn(d, manifest[d])

\* Wherever a vcmp stops, every unit of the manifest on disk still has its
\* blob: add_cu writes the blob, then the manifest, then removes blobs.  Two
\* add_cu calls that overlap on one directory can break it.
BlobsPresent ==
    \A d \in Dirs : ~overlapped[d] => CUs(manifest[d]) \subseteq blobs[d]

Without(cus, S) == Kept(cus, {i \in 1 .. Len(cus) : cus[i] \notin S})

\* A manifest changes by one unit: it drops the units that share a source with
\* the new one and keeps all others in their order, and the new one stands
\* where the first dropped one stood, so that recompiling unchanged sources
\* leaves the manifest as it was (add_cu, no overlapping call).
ReplacedInPlace ==
    [][\A d \in Dirs : manifest'[d] # manifest[d] /\ ~overlapped[d] =>
          LET old == IF manifest[d] = None THEN <<>> ELSE manifest[d].cus
              new == manifest'[d].cus
          IN  \E i \in DOMAIN new :
                 LET gone == {cu \in Range(old) : Supersedes(new[i], cu)}
                 IN  /\ Without(new, {new[i]}) = Without(old, gone)
                     /\ new[i] \notin Range(old)
                     /\ gone # {} => i <= Len(old) /\ old[i] \in gone
      ]_manifest

\* A vcmp that ran to its end leaves no blob the manifest does not name, those
\* of earlier interrupted runs included (no overlapping call).
GarbageCollected ==
    [][\A p \in Vcmps :
          LET d == vcmp[p].job.dir
          IN  vcmp[p].pc \in {"list", "sweep"} /\ vcmp'[p] = Idle /\ stops' = stops
                 /\ ~overlapped[d]
              => blobs'[d] = CUs(manifest[d])
      ]_vcmp

\* The snapshot has, of every name a loaded unit instantiates and every top,
\* exactly the unit that the first library with that name declares, whatever
\* vcmp did to the libraries while velab walked them.
ClosureFollowsSearchOrder ==
    elab.pc \in {"stamp", "stat", "done"} =>
        LET names  == Tops \cup UNION {Uses(key[2]) : key \in elab.loaded}
            first(n, i) == /\ i \in Declaring(elab.seen, n)
                           /\ \A j \in Declaring(elab.seen, n) : i <= j
        IN  /\ \A n \in names, i \in DOMAIN elab.seen : first(n, i) =>
                  \E key \in elab.loaded : key[1] = i /\ n \in Units(key[2])
            /\ \A key \in elab.loaded : \E n \in names \cap Units(key[2]) : first(n, key[1])

\* A snapshot vrun accepts is of the files as they are: no source or include of
\* a consumed unit differs from what was compiled, and the consumed blobs are
\* there (RULE V), as long as an edit changes a file's size.
AcceptedIsCurrent ==
    Accepts => \A key \in elab.loaded :
                  /\ \A dg \in Digests(key[2]) : text[dg[1]] = dg[2]
                  /\ key[2] \in blobs[SearchOrder[key[1]].dir]

\* The documented authority of the gate (docs/preview/14-staged-artifacts.md:759-760,
\* lib.rs WorkStamps): an entry that is trusted by its stamp has the content
\* whose digest was recorded.
StampIsContent ==
    elab.pc = "done" => \A e \in Entries(elab) : Fresh(e) => Live(e) = e[3]
=============================================================================
