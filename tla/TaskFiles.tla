----------------------------- MODULE TaskFiles -----------------------------
(***************************************************************************)
(* Which files a task gets and leaves behind: an input is listed,          *)
(* downloaded and copied to the scratch directory; an output is copied     *)
(* from it, listed and uploaded (worker/storage.go, worker/file_mapper.go  *)
(* and the List and Get of the storage backends).                          *)
(*                                                                         *)
(* A key of the store, and a path, is a sequence of names.  A place is     *)
(* relative to the path the input declares, or to the URL of the output;   *)
(* next to it is <<"..">>, and <<"url">> begins the path a whole URL makes.*)
(***************************************************************************)
EXTENDS FileMapper, FiniteSets

(* A name has no slash, which ends the key of a directory marker.          *)
ASSUME FilesAssumption == "/" \notin Name

VARIABLES
  way,       \* "in" or "out"
  medium,    \* the storage backend
  scratch,   \* ScratchPath is set
  keys,      \* the objects in the store, or the files the executors left
  marker,    \* the directory of the input is an object as well, "dir/"
  decl,      \* what the task declares
  step,      \* the next function of Run
  flat,      \* <<key, place>>: the transfers to make
  got,       \* <<key, place>>: the files made
  uncopied   \* the files of a directory that were not copied, which nobody reports

filesVars == <<way, medium, scratch, keys, marker, decl, step, flat, got, uncopied>>

Prefixed == {"amazonS3", "genericS3", "googleStorage", "swift"}  \* no directories
Media == Prefixed \cup {"local", "mounted", "httpStorage", "ftpStorage", "ftpDots"}

Below(p, dir) == IsPrefix(dir, p) /\ p # dir
Rest(p, dir) == SubSeq(p, Len(dir) + 1, Len(p))
AllBelow(dir) == {k \in keys : Below(k, dir)}
IsDir(p) == AllBelow(p) # {}
Tree == \A k \in keys : ~IsDir(k)

FilesInit ==
  /\ way \in {"in", "out"} /\ medium \in Media
  /\ scratch \in BOOLEAN /\ keys \in SUBSET Path /\ marker \in BOOLEAN
  /\ way = "out" \/ medium \notin Prefixed => Tree
  /\ marker => way = "in" /\ medium \in Prefixed
  /\ decl \in [type : {"file", "directory", "content", "wildcard"}, path : Path,
               slash : BOOLEAN,   \* the URL of the input ends with a slash
               prefix : BOOLEAN]  \* the wildcard output has a path_prefix
  /\ decl.type = "content" => way = "in"
  /\ decl.type = "wildcard" => way = "out"
  /\ decl.slash => decl.type = "directory" /\ way = "in"
  /\ decl.prefix => decl.type = "wildcard"
  /\ step = IF way = "in" THEN "FlattenInputs" ELSE "resolveWildcards"
  /\ flat = {} /\ got = {} /\ uncopied = {}

(* A task without files.                                                   *)
FilesOver ==
  /\ way = "in" /\ medium = "local" /\ scratch = FALSE /\ keys = {} /\ marker = FALSE
  /\ decl = [type |-> "content", path |-> <<>>, slash |-> FALSE, prefix |-> FALSE]
  /\ step = "ok" /\ flat = {} /\ got = {<<"content", <<>>>>} /\ uncopied = {}

Return(s) == step' = s /\ UNCHANGED <<flat, got, uncopied>>
-----------------------------------------------------------------------------
(* List of each backend: the URLs, as keys, of the files of a directory.   *)

(* The object stores list by prefix, with what begins alike.               *)
ByPrefix(dir, slash) == IF slash THEN AllBelow(dir) ELSE {k \in keys : IsSubpath(k, dir)}

S3List(dir, slash) == ByPrefix(dir, slash)
GenericS3List(dir, slash) == ByPrefix(dir, slash)
GoogleList(dir, slash) == ByPrefix(dir, slash)
SwiftList(dir, slash) == ByPrefix(dir, slash) \cup (IF marker THEN {dir \o <<"/">>} ELSE {})

(* WalkFiles, or an error when there is no such directory.                 *)
LocalList(dir) == AllBelow(dir)

(* A directory that holds one file is taken for a file, unless the server  *)
(* lists the directory and its parent as well.                             *)
FTPList(dir) ==
  LET Entries(d) == {k[Len(d) + 1] : k \in AllBelow(d)}
  IN  {IF medium = "ftpStorage" /\ Cardinality(Entries(Dir(k))) = 1 THEN Dir(k) ELSE k :
         k \in AllBelow(dir)}

List(dir, slash) ==
  CASE medium = "amazonS3" -> S3List(dir, slash)
    [] medium = "genericS3" -> GenericS3List(dir, slash)
    [] medium = "googleStorage" -> GoogleList(dir, slash)
    [] medium = "swift" -> SwiftList(dir, slash)
    [] medium \in {"local", "mounted"} -> LocalList(dir)
    [] medium \in {"ftpStorage", "ftpDots"} -> FTPList(dir)

CannotList(dir) == medium = "httpStorage" \/ (medium \in {"local", "mounted"} /\ ~IsDir(dir))

(* Mutant: a mounted bucket lists its files below its mount point, and the *)
(* prefix to cut is that of the URL.                                       *)
PlaceOfURL(k, dir) == IF Below(k, dir) /\ medium # "mounted" THEN Rest(k, dir) ELSE <<"url">> \o k

(* The path of a listed file: its URL without that of the directory.  One  *)
(* that does not begin with it stays whole.                                *)
PlaceOf(k, dir) == CASE k = dir \o <<"/">> -> <<>>
                     [] k # dir \o <<"/">> /\ Below(k, dir) -> Rest(k, dir)
                     [] OTHER -> <<"url">> \o k

FlattenInputs ==
  /\ step = "FlattenInputs"
  /\ \/ decl.type = "content" /\ step' = "CopyInputs"
        /\ got' = {<<"content", <<>>>>} /\ UNCHANGED <<flat, uncopied>>
     \/ decl.type = "file" /\ flat' = {<<decl.path, <<>>>>}
        /\ step' = "Download" /\ UNCHANGED <<got, uncopied>>
     \/ decl.type = "directory" /\ CannotList(decl.path) /\ Return("error")
     \/ /\ decl.type = "directory" /\ ~CannotList(decl.path)
        /\ flat' = {<<k, PlaceOf(k, decl.path)>> : k \in List(decl.path, decl.slash)}
        /\ step' = "Download" /\ UNCHANGED <<got, uncopied>>
-----------------------------------------------------------------------------
(* GenericS3.isDir: some other key begins like this one.                   *)
GenericIsDir(p) == \E k \in keys : IsSubpath(k, p) /\ k # p

(* filepath.Rel, joined to the place of the directory.                     *)
RelTo(k, dir, place) ==
  CASE IsPrefix(dir, k) -> place \o Rest(k, dir)
    [] ~IsPrefix(dir, k) /\ place = <<>> -> <<"..">> \o Rest(k, Dir(dir))
    [] OTHER -> Dir(place) \o Rest(k, Dir(dir))

Whole(p, place) == IF p \in keys \/ p[Len(p)] = "/" THEN {<<p, place>>} ELSE {}

(* Get of each backend: the files it makes; none is an error.              *)
LocalGet1(p, place) ==
  IF IsDir(p) THEN {<<k, place \o Rest(k, p)>> : k \in AllBelow(p)} ELSE Whole(p, place)
GenericS3Get(p, place) ==
  IF GenericIsDir(p) THEN {<<k, RelTo(k, p, place)>> : k \in GenericS3List(p, FALSE)}
  ELSE Whole(p, place)
FTPGet1(p, place) == Whole(p, place)   \* a directory with one file passes Stat, not RETR

Get(x) ==
  CASE medium = "local" -> LocalGet1(x[1], x[2])
    [] medium = "genericS3" -> GenericS3Get(x[1], x[2])
    [] medium \in {"ftpStorage", "ftpDots"} -> FTPGet1(x[1], x[2])
    [] OTHER -> Whole(x[1], x[2])

(* DownloadInputs.  A transfer fails; those from a mounted bucket do when  *)
(* local storage does not allow its directory.  A file cannot be made      *)
(* where a directory is needed.                                            *)
Download1 ==
  /\ step = "Download"
  /\ LET files == UNION {Get(x) : x \in flat}
     IN  \/ flat # {} /\ Return("error")
         \/ /\ \A x \in flat : Get(x) # {}
            /\ \A f, g \in files : ~Below(f[2], g[2])
            /\ got' = files /\ step' = "CopyInputs" /\ UNCHANGED <<flat, uncopied>>

(* CopyInputsToScratch: the executors see the copies.  A file that cannot  *)
(* be copied is an error; one of a directory is not, and copyDir leaves    *)
(* out what comes after it; an input with its contents in the task is not  *)
(* among mapper.Inputs; an input that is not there is a panic.             *)
CopyInputs ==
  /\ step = "CopyInputs"
  /\ \/ ~scratch /\ Return("ok")
     \/ /\ scratch /\ decl.type = "content"
        /\ got' = {} /\ step' = "ok" /\ UNCHANGED <<flat, uncopied>>
     \/ /\ scratch /\ decl.type # "content"
        /\ \/ got # {} /\ Return("ok")
           \/ Return("error")
           \/ /\ \E some \in SUBSET {f \in got : f[2] # <<>>} :
                   some # {} /\ got' = got \ some /\ uncopied' = {f[1] : f \in some}
              /\ step' = "ok" /\ UNCHANGED flat
-----------------------------------------------------------------------------
(* The files and directories a wildcard matches, here all of a directory,  *)
(* each with its URL: the path behind the prefix is joined to that of the  *)
(* output.                                                                 *)
Matched(p) ==
  {<<p \o <<n>>, IF decl.prefix THEN <<n>> ELSE p \o <<n>>>> : n \in {k[Len(p) + 1] : k \in AllBelow(p)}}

(* resolveWildcards comes before the outputs are copied from the scratch   *)
(* directory, where the executors left them: there nothing matches.        *)
resolveWildcards ==
  /\ step = "resolveWildcards"
  /\ flat' = IF decl.type # "wildcard" THEN {<<decl.path, <<>>>>}
             ELSE IF scratch THEN {} ELSE Matched(decl.path)
  /\ step' = "CopyOutputs"
  /\ UNCHANGED <<got, uncopied>>

(* CopyOutputsToWorkDir: an output that is not there is an error, a file   *)
(* of a directory that cannot be copied is not, and ends copyDir.          *)
CopyOutputs ==
  /\ step = "CopyOutputs"
  /\ \/ ~scratch /\ Return("FlattenOutputs")
     \/ scratch /\ (\E x \in flat : x[1] \notin keys /\ ~IsDir(x[1])) /\ Return("error")
     \/ scratch /\ (\A x \in flat : x[1] \in keys \/ IsDir(x[1])) /\ Return("FlattenOutputs")
     \/ /\ scratch /\ \E x \in flat : uncopied' \in SUBSET AllBelow(x[1]) \ {{}}
        /\ step' = "FlattenOutputs" /\ UNCHANGED <<flat, got>>

(* A directory is listed, each file with its URL joined.                   *)
FlattenOutputs ==
  /\ step = "FlattenOutputs"
  /\ IF decl.type # "directory" THEN Return("Upload")
     ELSE IF ~IsDir(decl.path) THEN Return("error")
     ELSE /\ flat' = {<<k, Rest(k, decl.path)>> : k \in AllBelow(decl.path) \ uncopied}
          /\ step' = "Upload" /\ UNCHANGED <<got, uncopied>>

(* Put of a directory: two backends upload what it holds.                  *)
CanPut(x) ==
  /\ medium # "httpStorage"
  /\ x[1] \in keys \/ (medium \in {"local", "genericS3", "mounted"} /\ IsDir(x[1]))

Put1(x) ==
  IF x[1] \in keys THEN {x} ELSE {<<k, x[2] \o Rest(k, x[1])>> : k \in AllBelow(x[1]) \ uncopied}

(* UploadOutputs; HTTP has no Put.                                         *)
Upload1 ==
  /\ step = "Upload"
  /\ \/ flat # {} /\ Return("error")
     \/ /\ \A x \in flat : CanPut(x)
        /\ got' = UNION {Put1(x) : x \in flat} /\ step' = "ok" /\ UNCHANGED <<flat, uncopied>>

FilesNext ==
  /\ \/ FlattenInputs \/ Download1 \/ CopyInputs
     \/ resolveWildcards \/ CopyOutputs \/ FlattenOutputs \/ Upload1
  /\ UNCHANGED <<way, medium, scratch, keys, marker, decl>>

FilesSpec == FilesInit /\ [][FilesNext]_filesVars
-----------------------------------------------------------------------------
(* The directory is an object, or some object begins like the input, or    *)
(* like one below it, without being it or below it.                        *)
Misled ==
  /\ medium \in Prefixed /\ ~decl.slash
  /\ \/ decl.type = "directory" /\ decl.path \in keys
     \/ \E k, l \in keys \cup {decl.path} : IsSubpath(k, l) /\ ~IsPrefix(l, k)

Wanted ==
  IF decl.path \in keys /\ decl.type = "file" THEN {<<decl.path, <<>>>>}
  ELSE {<<k, Rest(k, decl.path)>> : k \in AllBelow(decl.path)}

(* When the inputs were staged without an error, the executors see exactly *)
(* the files the input names, each in its place below the path it declares *)
(* (FlattenInputs, Download, CopyInputs).  The code makes exceptions:      *)
(* stores that list by prefix take what begins alike for part of the input *)
(* (GenericS3.isDir, List); Swift lists the directory itself; an input     *)
(* with contents is not copied to the scratch directory, nor is the rest   *)
(* of a directory after a file that cannot be copied.  When the outputs    *)
(* were staged without an error, every file the output names is stored,    *)
(* each at a URL of its own (resolveWildcards, FlattenOutputs, Put).  With *)
(* a scratch directory a wildcard names none, and a file that cannot be    *)
(* copied from it is left out.                                             *)
FilesExact ==
  step = "ok" /\ uncopied = {} =>
    /\ (way = "in" /\ ~Misled /\ ~(medium = "swift" /\ marker)
          /\ ~(scratch /\ decl.type = "content"))
       => got = IF decl.type = "content" THEN {<<"content", <<>>>>} ELSE Wanted
    /\ way = "out" /\ ~(scratch /\ decl.type = "wildcard")
       => got = IF decl.type = "wildcard"
                THEN {<<k, IF decl.prefix THEN Rest(k, decl.path) ELSE k>> :
                        k \in AllBelow(decl.path)}
                ELSE Wanted
=============================================================================
