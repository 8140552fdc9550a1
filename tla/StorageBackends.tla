-------------------------- MODULE StorageBackends --------------------------
(***************************************************************************)
(* Get and Put of the storage backends (storage/): one file of the host    *)
(* and one URL, and up to two calls that copy the one to the other at the  *)
(* same time, as a task does that names a file twice.                      *)
(*                                                                         *)
(* A call is the sequence of the requests it makes, any of which fails.    *)
(* Of the contents only this is kept: whether the file or object copied to *)
(* is absent, has the contents of before, a part of the new ones or all of *)
(* them, and whether it is one and the same file with the source of the    *)
(* copy, by a hard link.                                                   *)
(***************************************************************************)
EXTENDS Integers, Sequences, FiniteSets

CONSTANT MaxTries   \* Swift.MaxRetries; at least 2, one means no limit

Call == 1..2

VARIABLES
  scheme,    \* of the URL
  backend,   \* the backend FindBackend returned
  op,        \* "get" or "put"
  options,   \* a customer key (Amazon S3), a mounted bucket (generic S3), and
             \* whether the file system can link the files (local)
  source,    \* the file copied from: "whole" or "partial"
  target,    \* the file or object copied to
  linked,    \* source and target are one file
  todo,      \* the requests each call still makes
  tries,     \* of the Retrier, per call
  ctxEnded,  \* the context of the transfers is done
  answer     \* what each call returned: "none", "ok" or "error"

storageVars == <<scheme, backend, op, options, source, target, linked, todo, tries, ctxEnded, answer>>

-----------------------------------------------------------------------------
(* The requests of each backend.                                           *)
LocalStat == <<"stat">>
copyFile == <<"same", "open", "mkdir", "create", "copy", "close">>
linkFile == <<"stat", "same", "link">> \o copyFile
LocalGet == linkFile \o LocalStat
LocalPut == <<"mkdir">> \o linkFile \o LocalStat

AmazonParse == <<"region">>
AmazonStat == AmazonParse \o <<"stat">>
AmazonGet == AmazonStat \o AmazonParse \o <<"create", "download", "close">>
AmazonPut == AmazonParse \o <<"open", "upload">> \o AmazonStat

(* A mounted bucket is a directory: the file is copied.                    *)
GenericStat == IF options.mounted THEN LocalStat ELSE <<"open", "isDir", "stat">>
GenericDownload == <<"open", "mkdir", "create", "copy", "close", "ready">>
GenericGet ==
  GenericStat \o <<"isDir">> \o IF options.mounted THEN copyFile ELSE GenericDownload
GenericPut ==
  <<"ready">> \o (IF options.mounted THEN copyFile ELSE <<"upload">>) \o GenericStat

GoogleStat == <<"stat">>
GoogleGet == GoogleStat \o <<"open", "create", "copy", "close">>
GooglePut == <<"open", "upload">> \o GoogleStat

HTTPGet == <<"open", "create", "copy", "close">>

FTPConnect == <<"dial", "login">>
FTPStat == <<"list">>
FTPGet == FTPConnect \o FTPStat \o <<"open", "create", "copy", "close">>
FTPPut == FTPConnect \o <<"open", "chdir", "store">> \o FTPStat

SwiftStat == <<"stat">>
SwiftGet == SwiftStat \o <<"open", "create", "copy", "close">>
SwiftPut == <<"open", "new", "send">> \o SwiftStat

Requests(b) ==
  CASE b = "local"         -> IF op = "get" THEN LocalGet ELSE LocalPut
    [] b = "amazonS3"      -> IF op = "get" THEN AmazonGet ELSE AmazonPut
    [] b = "genericS3"     -> IF op = "get" THEN GenericGet ELSE GenericPut
    [] b = "googleStorage" -> IF op = "get" THEN GoogleGet ELSE GooglePut
    [] b = "httpStorage"   -> HTTPGet
    [] b = "ftpStorage"    -> IF op = "get" THEN FTPGet ELSE FTPPut
    [] b = "swift"         -> IF op = "get" THEN SwiftGet ELSE SwiftPut

(* UnsupportedOperations: what a backend may answer for the URL, whether   *)
(* it supports the operation.  Most look for the bucket or the directory.  *)
LocalSupports == IF scheme = "file" THEN BOOLEAN ELSE {FALSE}
AmazonSupports == IF scheme = "s3" THEN BOOLEAN ELSE {FALSE}
GenericSupports == IF scheme = "s3" THEN IF options.mounted THEN {TRUE} ELSE BOOLEAN ELSE {FALSE}
GoogleSupports == IF scheme = "gs" THEN BOOLEAN ELSE {FALSE}
HTTPSupports == {scheme = "http" /\ op = "get"}
FTPSupports == {scheme = "ftp"}
SwiftSupports == IF scheme = "swift" THEN BOOLEAN ELSE {FALSE}

Supports(b) ==
  CASE b = "local"         -> LocalSupports
    [] b = "amazonS3"      -> AmazonSupports
    [] b = "genericS3"     -> GenericSupports
    [] b = "googleStorage" -> GoogleSupports
    [] b = "httpStorage"   -> HTTPSupports
    [] b = "ftpStorage"    -> FTPSupports
    [] b = "swift"         -> SwiftSupports

Backends == {"local", "amazonS3", "genericS3", "googleStorage", "httpStorage", "ftpStorage", "swift"}

(* NewMux configures all backends here; the URL is of some scheme.         *)
StorageInit ==
  /\ scheme \in {"file", "s3", "gs", "http", "ftp", "swift"} /\ op \in {"get", "put"}
  /\ options \in [customerKey : BOOLEAN, mounted : BOOLEAN, linkable : BOOLEAN]
  /\ options.customerKey \/ options.mounted => scheme = "s3"
  /\ options.linkable => scheme = "file"
  /\ backend = "none"
  /\ source = "whole"
  /\ linked \in BOOLEAN /\ (linked => options.linkable)
  /\ target \in {"absent", "old", "whole"} /\ (linked <=> target = "whole")
  /\ todo = [c \in Call |-> <<>>]
  /\ answer \in {[c \in Call |-> IF c \in calls THEN "none" ELSE "idle"] : calls \in {{1}, Call}}
  /\ tries = [c \in Call |-> 1]
  /\ ctxEnded = FALSE

(* No transfer.                                                            *)
StorageOver ==
  /\ scheme = "file" /\ backend = "local" /\ op = "get"
  /\ options = [customerKey |-> FALSE, mounted |-> FALSE, linkable |-> TRUE]
  /\ source = "whole" /\ target = "whole" /\ linked = TRUE
  /\ todo = [c \in Call |-> <<>>] /\ tries = [c \in Call |-> 1]
  /\ ctxEnded = FALSE /\ answer = [c \in Call |-> "idle"]
-----------------------------------------------------------------------------
(* Mux.FindBackend: the one backend that supports the operation for the    *)
(* URL; none, or two that read s3:// URLs, is an error and the end of the  *)
(* calls.                                                                  *)
FindBackend ==
  /\ backend = "none" /\ \E c \in Call : answer[c] = "none"
  /\ \E supports \in [Backends -> BOOLEAN] :
       /\ \A b \in Backends : supports[b] \in Supports(b)
       /\ LET found == {b \in Backends : supports[b]}
          IN  IF Cardinality(found) = 1
              THEN /\ backend' \in found
                   /\ todo' = [c \in Call |-> IF answer[c] = "none" THEN Requests(backend') ELSE <<>>]
                   /\ UNCHANGED answer
              ELSE /\ answer' = [c \in Call |-> IF answer[c] = "none" THEN "error" ELSE answer[c]]
                   /\ UNCHANGED <<backend, todo>>
  /\ UNCHANGED <<source, target, linked, tries>>

(* A call goes on with the requests left, and returns after the last one.  *)
Go(c, left) ==
  /\ todo' = [todo EXCEPT ![c] = left]
  /\ answer' = IF left = <<>> THEN [answer EXCEPT ![c] = "ok"] ELSE answer
  /\ UNCHANGED tries

Done(c) == Go(c, Tail(todo[c]))

(* What copyFile and linkFile leave of a call once they return.            *)
Copied(c) ==
  LET close == CHOOSE k \in 1..Len(todo[c]) : todo[c][k] = "close"
  IN  Go(c, SubSeq(todo[c], close + 1, Len(todo[c])))

(* The Retrier, around Swift only.  shouldRetry: what Swift calls          *)
(* transient is tried again, from the start, unless the context is done.   *)
Retried(c) ==
  /\ backend = "swift"
  /\ Head(todo[c]) \in IF op = "get" THEN {"stat", "open", "copy"} ELSE {"new", "send", "stat"}
  /\ tries[c] < MaxTries /\ ~ctxEnded
  /\ tries' = [tries EXCEPT ![c] = @ + 1]
  /\ todo' = [todo EXCEPT ![c] = Requests(backend)]
  /\ UNCHANGED answer

Fail(c) ==
  \/ todo' = [todo EXCEPT ![c] = <<>>] /\ answer' = [answer EXCEPT ![c] = "error"] /\ UNCHANGED tries
  \/ Retried(c)

Next1(c, request) == todo[c] # <<>> /\ Head(todo[c]) = request

files == <<source, target, linked>>

(* Requests that change neither file, among them the look at directories   *)
(* and the wait for a file to be readable.                                 *)
Request(c) ==
  /\ todo[c] # <<>>
  /\ Head(todo[c]) \in {"stat", "region", "isDir", "list", "dial", "login", "open", "mkdir",
                        "chdir", "ready", "new", "close"}
  /\ Done(c) \/ Fail(c)
  /\ UNCHANGED files

(* Mutant: copyFile does not look whether its files are one.               *)
SameOnce(c) ==
  /\ Next1(c, "same")
  /\ IF linked /\ Len(todo[c]) > 7 THEN Copied(c) ELSE Done(c)
  /\ UNCHANGED files

(* sameFile: nothing is copied onto itself.                                *)
SameFile(c) ==
  /\ Next1(c, "same")
  /\ IF linked THEN Copied(c) ELSE Done(c)
  /\ UNCHANGED files

(* os.Link, within a file system and never over another file; copyFile     *)
(* when it fails.                                                          *)
Link(c) ==
  /\ Next1(c, "link")
  /\ IF options.linkable /\ target = "absent"
     THEN linked' = TRUE /\ target' = source /\ Copied(c) /\ UNCHANGED source
     ELSE Done(c) /\ UNCHANGED files

(* os.Create and O_TRUNC, of the source as well if it is the same file.    *)
Create(c) ==
  /\ Next1(c, "create")
  /\ \/ /\ target' = "partial"
        /\ source' = IF linked THEN "partial" ELSE source
        /\ Done(c) /\ UNCHANGED linked
     \/ Fail(c) /\ UNCHANGED files

(* io.Copy from a Reader that fails once the context is done.              *)
Copy(c) ==
  /\ Next1(c, "copy")
  /\ \/ ~ctxEnded /\ target' = source /\ Done(c) /\ UNCHANGED <<source, linked>>
     \/ Fail(c) /\ UNCHANGED files

(* DownloadWithContext of Amazon S3, twice with a customer key.  The call  *)
(* fails if both downloads did, and without a key there is no second one:  *)
(* retryErr is nil.                                                        *)
Download(c) ==
  /\ Next1(c, "download")
  /\ \/ target' = source /\ Done(c) /\ UNCHANGED <<source, linked>>
     \/ options.customerKey /\ Fail(c) /\ UNCHANGED files
     \/ ~options.customerKey /\ Done(c) /\ UNCHANGED files

(* An object appears when all of it is there.                              *)
UploadObject(c) ==
  /\ Next1(c, "upload")
  /\ \/ target' = source /\ Done(c) /\ UNCHANGED <<source, linked>>
     \/ Fail(c) /\ UNCHANGED files

(* FTP's STOR fails half way.                                              *)
Store(c) ==
  /\ Next1(c, "store")
  /\ \/ target' = source /\ Done(c)
     \/ target' \in {target, "partial"} /\ Fail(c)
  /\ UNCHANGED <<source, linked>>

(* Swift's writer is closed after a failed copy as well, which makes an    *)
(* object of what was sent.                                                *)
Send(c) ==
  /\ Next1(c, "send")
  /\ \/ ~ctxEnded /\ target' = source /\ Done(c)
     \/ target' \in {target, "partial"} /\ Fail(c)
  /\ UNCHANGED <<source, linked>>

(* External: the task is canceled, or another download failed.             *)
EndContext ==
  /\ ~ctxEnded /\ \E c \in Call : todo[c] # <<>>
  /\ ctxEnded' = TRUE
  /\ UNCHANGED <<files, todo, tries, answer>>

StorageNext ==
  /\ \/ /\ \E c \in Call : \/ Request(c) \/ SameFile(c) \/ Link(c) \/ Create(c) \/ Copy(c)
                           \/ Download(c) \/ UploadObject(c) \/ Store(c) \/ Send(c)
        /\ UNCHANGED <<backend, ctxEnded>>
     \/ FindBackend /\ UNCHANGED ctxEnded
     \/ EndContext /\ UNCHANGED backend
  /\ UNCHANGED <<scheme, op, options>>

StorageSpec == StorageInit /\ [][StorageNext]_storageVars
-----------------------------------------------------------------------------
(* A call that returned no error has copied everything, whatever failed    *)
(* and was tried again before, unless another call writes to the same file *)
(* (Get and Put of each backend).  Not so Amazon S3 without a customer     *)
(* key, whose Get hides a failed download.  And no file is destroyed by    *)
(* being copied onto itself: uploading an input to where it was linked     *)
(* from, or one file twice at a time, leaves its contents alone (sameFile, *)
(* asked again by copyFile after os.Link failed).                          *)
CopiesWhole ==
  /\ answer[1] = "ok" /\ answer[2] = "idle" =>
       target = "whole" \/ (backend = "amazonS3" /\ op = "get" /\ ~options.customerKey)
  /\ source = "whole"
=============================================================================
