------------------------------ MODULE Mounter ------------------------------
(***************************************************************************)
(* mount of src/bin/ios/cmd/mounter.rs: the developer disk image from the  *)
(* cache, from Xcode's files or from the network, its ticket from the      *)
(* device or from Apple, the upload and the mount.  Processes share the    *)
(* cache directory and the device, and may be killed anywhere.             *)
(*                                                                         *)
(* A file is the build it belongs to and whether it is whole: std::fs::write*)
(* truncates and then fills, and a file that exists may be short.          *)
(***************************************************************************)
EXTENDS Integers, Sequences

CONSTANTS Mounters   \* processes

Parts == {"image", "manifest", "trustcache"}
Builds == {"xcode", "github"}
NoFile == [build |-> "none", whole |-> FALSE]
\* The order in which a source's files are written.
Order == [xcode |-> <<"image", "manifest", "trustcache">>, github |-> <<"manifest", "image", "trustcache">>]

VARIABLES
  cache,     \* the cache directory: a file for each part
  mp,        \* where each process is
  files,     \* what each process has in memory
  src,       \* the source each process fetches from
  step,      \* files each process has written, or read
  ticket,    \* the build each process' ticket is for
  asks,      \* requests the device has not answered, on the connection of each process
  says,      \* answers the process has not read; "closed" is the end of the connection
  mounted,   \* the device has the image
  orphan,    \* device: it has a good MountImage of a process that is gone
  torn,      \* history: two fetched at a time, or one was killed inside the write of the last file
  told       \* history: the device has said the image is there ("yes"), and rebooted since ("stale")

talkVars == <<ticket, asks, says, mounted, orphan, told>>
mtVars == <<cache, mp, files, src, step, torn, talkVars>>

MtInit ==
  /\ cache = [p \in Parts |-> NoFile] /\ mp = [m \in Mounters |-> "start"]
  /\ files = [m \in Mounters |-> [p \in Parts |-> NoFile]] /\ src = [m \in Mounters |-> "xcode"]
  /\ step = [m \in Mounters |-> 0] /\ ticket = [m \in Mounters |-> "none"]
  /\ asks = [m \in Mounters |-> <<>>] /\ says = [m \in Mounters |-> <<>>]
  /\ mounted = FALSE /\ orphan = FALSE /\ torn = FALSE /\ told = [m \in Mounters |-> "no"]

At(m, from, to) == mp[m] = from /\ mp' = [mp EXCEPT ![m] = to]
Fetching == {m \in Mounters : mp[m] \in {"read", "create", "fill"}}
Writing == {m \in Mounters : mp[m] \in {"create", "fill"}}

\* A fault: the image alone makes the cache complete.
CachedImage == cache["image"] # NoFile

\* fetch_ddi_files uses the cache when all three files exist.
Cached == \A p \in Parts : cache[p] # NoFile

\* Otherwise Xcode's files if they are there and can be extracted, or else
\* the ones of the repository.
FetchStart(m) ==
  /\ \/ Cached /\ At(m, "start", "read") /\ UNCHANGED src
     \/ ~Cached /\ At(m, "start", "create") /\ \E b \in Builds : src' = [src EXCEPT ![m] = b]
  /\ step' = [step EXCEPT ![m] = 0]
  /\ torn' = (torn \/ Writing # {} \/ (~Cached /\ Fetching # {}))
  /\ UNCHANGED <<cache, files, talkVars>>

ReadCached(m) ==
  LET part == Order["xcode"][step[m] + 1] IN
  /\ At(m, "read", IF step[m] = 2 THEN "connect" ELSE "read")
  /\ step' = [step EXCEPT ![m] = @ + 1] /\ files' = [files EXCEPT ![m][part] = cache[part]]
  /\ UNCHANGED <<cache, src, torn, talkVars>>

\* A download, or all three files of Xcode at once, then std::fs::write.
CreateFile(m) ==
  LET part == Order[src[m]][step[m] + 1] IN
  /\ At(m, "create", "fill")
  /\ cache' = [cache EXCEPT ![part] = [build |-> src[m], whole |-> FALSE]]
  /\ UNCHANGED <<files, src, step, torn, talkVars>>

FillFile(m) ==
  LET part == Order[src[m]][step[m] + 1] IN
  /\ At(m, "fill", IF step[m] = 2 THEN "connect" ELSE "create")
  /\ cache' = [cache EXCEPT ![part] = [build |-> src[m], whole |-> TRUE]]
  /\ files' = [files EXCEPT ![m][part] = [build |-> src[m], whole |-> TRUE]]
  /\ step' = [step EXCEPT ![m] = @ + 1]
  /\ UNCHANGED <<src, torn, talkVars>>

-----------------------------------------------------------------------------
(* The conversation with the image mounter of the device.                  *)

Talking == {"lookup", "query", "receive", "upload", "mount"}
fileVars == <<cache, files, src, step, torn>>
Connects(m, req) == asks' = [asks EXCEPT ![m] = <<req>>] /\ says' = [says EXCEPT ![m] = <<>>]
MtAsks(m, req) == asks' = [asks EXCEPT ![m] = Append(@, req)]
Hears(m, from) == mp[m] = from /\ says[m] # <<>> /\ says' = [says EXCEPT ![m] = Tail(@)]
MtGoes(m, to) == mp' = [mp EXCEPT ![m] = to]
Heard(m) == Head(says[m])

\* The process ends, and with it what it has in memory and its connection.
Leaves(m, to) ==
  /\ MtGoes(m, to) /\ files' = [files EXCEPT ![m] = [p \in Parts |-> NoFile]] /\ step' = [step EXCEPT ![m] = 0]
  /\ src' = [src EXCEPT ![m] = "xcode"] /\ ticket' = [ticket EXCEPT ![m] = "none"]
  /\ asks' = [asks EXCEPT ![m] = <<>>] /\ says' = [says EXCEPT ![m] = <<>>]

\* connect_rsd_shim and LookupImage.
Lookup(m) ==
  /\ At(m, "connect", "lookup") /\ Connects(m, "lookup")
  /\ UNCHANGED <<ticket, mounted, orphan, told, fileVars>>

\* resp_image_present: mount is done if it is, and asks for a ticket whatever
\* else the answer is.
LookedUp(m) ==
  /\ mp[m] = "lookup" /\ says[m] # <<>>
  /\ \/ Heard(m) = "present" /\ Leaves(m, "mounted") /\ UNCHANGED <<cache, torn>>
     \/ /\ Heard(m) \notin {"present", "closed"} /\ Hears(m, "lookup") /\ MtGoes(m, "query") /\ MtAsks(m, "query")
        /\ UNCHANGED <<ticket, fileVars>>
  /\ UNCHANGED <<mounted, orphan, told>>

\* QueryPersonalizationManifest: the device has a ticket for this image; or it
\* answers with an error, or closes.
Queried(m) ==
  /\ Hears(m, "query")
  /\ \/ /\ Heard(m) = "ticket" /\ MtGoes(m, "receive") /\ MtAsks(m, "receive")
        /\ ticket' = [ticket EXCEPT ![m] = files[m]["image"].build]
     \/ Heard(m) # "ticket" /\ MtGoes(m, "tss") /\ UNCHANGED <<asks, ticket>>
  /\ UNCHANGED <<mounted, orphan, told, fileVars>>

\* Then the identifiers and the nonce over a new connection, the ticket from
\* Apple, for the build of the manifest, and another connection.
TssFlow(m) ==
  /\ At(m, "tss", "receive") /\ Connects(m, "receive") /\ files[m]["manifest"].whole
  /\ ticket' = [ticket EXCEPT ![m] = files[m]["manifest"].build]
  /\ UNCHANGED <<mounted, orphan, told, fileVars>>

\* The device mounts an image that fits its ticket and trust cache.
Acceptable(m) ==
  /\ \A p \in Parts : files[m][p].whole
  /\ files[m]["image"].build = ticket[m] /\ files[m]["trustcache"].build = ticket[m]
MountRequest(m) == IF Acceptable(m) THEN "mount" ELSE "misfit"

\* A fault: MountImage follows the bytes at once, before their Complete.
ReceivedNoWait(m) ==
  /\ Hears(m, "receive") /\ Heard(m) = "ack" /\ MtGoes(m, "mount")
  /\ asks' = [asks EXCEPT ![m] = @ \o <<"bytes", MountRequest(m)>>]
  /\ UNCHANGED <<ticket, mounted, orphan, told, fileVars>>

\* ReceiveBytes is acknowledged: the bytes.
Received(m) ==
  /\ Hears(m, "receive") /\ Heard(m) = "ack" /\ MtGoes(m, "upload") /\ MtAsks(m, "bytes")
  /\ UNCHANGED <<ticket, mounted, orphan, told, fileVars>>

\* The upload is complete: MountImage.
Uploaded(m) ==
  /\ Hears(m, "upload") /\ Heard(m) = "Complete" /\ MtGoes(m, "mount") /\ MtAsks(m, MountRequest(m))
  /\ UNCHANGED <<ticket, mounted, orphan, told, fileVars>>

\* The answer to MountImage is Complete: mount is done.
MountImage(m) ==
  /\ mp[m] = "mount" /\ says[m] # <<>> /\ Heard(m) = "Complete" /\ Leaves(m, "mounted")
  /\ UNCHANGED <<cache, torn, mounted, orphan, told>>

\* Any other answer, the end of the connection, an error of the network or of
\* the disk, or the process is killed; someone tries again.  The device may
\* have its last request.
Fails(m) ==
  /\ mp[m] \notin {"start", "mounted"} /\ Leaves(m, "start")
  /\ torn' = (torn \/ (mp[m] = "fill" /\ step[m] = 2))
  /\ orphan' = (orphan \/ (\E i \in DOMAIN asks[m] : asks[m][i] = "mount"))
  /\ told' = [told EXCEPT ![m] = "no"]
  /\ UNCHANGED <<cache, mounted>>

-----------------------------------------------------------------------------
(* The device.                                                             *)

Connected(m) == mp[m] \in Talking /\ \A i \in DOMAIN says[m] : says[m][i] # "closed"
Listens(m) == asks[m] # <<>> /\ Connected(m)
Wanted(m) == Head(asks[m])
MtSays(m, what) == asks' = [asks EXCEPT ![m] = Tail(@)] /\ says' = [says EXCEPT ![m] = Append(@, what)]

MtLooks(m) ==
  /\ Listens(m) /\ Wanted(m) = "lookup" /\ MtSays(m, IF mounted THEN "present" ELSE "absent")
  /\ told' = IF mounted THEN [told EXCEPT ![m] = "yes"] ELSE told
  /\ UNCHANGED <<mp, ticket, mounted, orphan, fileVars>>

\* A ticket for an image it knows; the other acknowledgements.
MtAgrees(m) ==
  /\ Listens(m)
  /\ \/ Wanted(m) = "query" /\ files[m]["image"].whole /\ MtSays(m, "ticket")
     \/ Wanted(m) = "receive" /\ MtSays(m, "ack")
     \/ Wanted(m) = "bytes" /\ MtSays(m, "Complete")
  /\ UNCHANGED <<mp, ticket, mounted, orphan, told, fileVars>>

MtMounts(m) ==
  /\ Listens(m) /\ Wanted(m) = "mount" /\ ~mounted /\ mounted' = TRUE /\ MtSays(m, "Complete")
  /\ told' = [told EXCEPT ![m] = "yes"]
  /\ UNCHANGED <<mp, ticket, orphan, fileVars>>

\* It may refuse anything, and refuses to mount what does not fit, or twice.
MtRefuses(m) ==
  /\ Listens(m) /\ MtSays(m, "error")
  /\ UNCHANGED <<mp, ticket, mounted, orphan, told, fileVars>>

MtCloses(m) ==
  /\ Listens(m) /\ MtSays(m, "closed")
  /\ UNCHANGED <<mp, ticket, mounted, orphan, told, fileVars>>

\* The request of a process that is gone.
MtOrphan ==
  /\ orphan /\ orphan' = FALSE /\ mounted' \in {mounted, TRUE}
  /\ UNCHANGED <<mp, ticket, asks, says, told, fileVars>>

\* Every connection ends with a reboot, behind what was said on it.
DeviceReboots ==
  /\ mounted /\ mounted' = FALSE /\ orphan' = FALSE
  /\ asks' = [m \in Mounters |-> <<>>]
  /\ says' = [m \in Mounters |-> IF Connected(m) THEN Append(says[m], "closed") ELSE says[m]]
  /\ told' = [m \in Mounters |-> IF told[m] = "yes" THEN "stale" ELSE told[m]]
  /\ UNCHANGED <<mp, ticket, fileVars>>

MtNext ==
  \/ \E m \in Mounters :
       \/ FetchStart(m) \/ ReadCached(m) \/ CreateFile(m) \/ FillFile(m)
       \/ Lookup(m) \/ LookedUp(m) \/ Queried(m) \/ TssFlow(m) \/ Received(m) \/ Uploaded(m) \/ MountImage(m)
       \/ Fails(m)
       \/ MtLooks(m) \/ MtAgrees(m) \/ MtMounts(m) \/ MtRefuses(m) \/ MtCloses(m)
  \/ MtOrphan \/ DeviceReboots

MtSpec == MtInit /\ [][MtNext]_mtVars

-----------------------------------------------------------------------------
Fetched(m) == mp[m] \in Talking \cup {"connect", "tss"}

\* Whatever a process that was killed left in the cache, the next one gets
\* whole files of one build, or fetches them again - unless it was killed
\* inside the write of the last file, or two fetched at a time: the files are
\* written in place and a short trust cache is as good as a whole one to
\* fetch_ddi_files (mounter.rs 245-299).
CacheRecovers ==
  ~torn =>
    \A m \in Mounters : Fetched(m) =>
      \E b \in Builds : \A p \in Parts : files[m][p] = [build |-> b, whole |-> TRUE]

\* mount reports success only when the device has said to this very run that the
\* image is there, in answer to LookupImage or to MountImage and to nothing that
\* was sent before them; and then it is there, whoever mounted it and whatever
\* other processes ask for meanwhile, unless the device has rebooted since it
\* said so: nothing between the answer and the report looks again
\* (mounter.rs 70-75, 162-179).
MountedMeansMounted ==
  \A m \in Mounters : mp[m] = "mounted" => told[m] # "no" /\ (told[m] = "yes" => mounted)
=============================================================================
