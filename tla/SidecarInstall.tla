---------------------------- MODULE SidecarInstall ----------------------------
(***************************************************************************)
(* The download of the prebuilt sidecar binary (asr/sidecar_install.py,    *)
(* ensure_sidecar_binary, called by FluidAudioBackend.ensure_downloaded).  *)
(* Requests of the dashboard and the command line run it on threads of     *)
(* their own, in processes of their own, with no lock: the two parakeet    *)
(* models use one binary, and the page disables the button of one model.   *)
(* All of them write the same temporary file and rename it over the        *)
(* binary.                                                                 *)
(*                                                                         *)
(* A path names an inode, and an open file goes on with its inode when the *)
(* path is unlinked, renamed or opened again.  The binary is a few blocks, *)
(* each as the release has it, other, or missing.  Origin and codesign are *)
(* external; the platform is the one the release is for.                   *)
(***************************************************************************)
EXTENDS Naturals

CONSTANTS
  Installer,  \* calls of ensure_sidecar_binary; a later call is a retry
  Blocks,     \* blocks of the binary (read 64 KiB at a time)
  MaxFiles    \* bound: inodes made

ASSUME InstallAssumption == Blocks \in Nat \ {0} /\ MaxFiles \in Nat

VARIABLES
  ipc,         \* ipc[i]: the step call i is at
  returned,    \* returned[i]: "none" yet, the "path", or "None" for the fallback
  fd,          \* fd[i]: the inode that call i writes, 0 for none
  next,        \* next[i]: the next block i writes; those before were received
  whole,       \* whole[i]: what i received has the digest of the release
  tmp, dest,   \* the inodes that g2-asr-sidecar.tmp and the binary name, or 0
  made,        \* inodes made so far
  content,     \* content[n][b]: block b of inode n
  executable,  \* inodes with the x bits
  pinned,      \* EVENHUB_ASR_SIDECAR_TEAM_ID is not empty
  official,    \* the release is signed by that team
  overlap,     \* history: two calls have had the temporary file open at once
  abandoned    \* history: a call died with the temporary file

settings == <<pinned, official>>
files    == <<tmp, dest, made, content, executable>>
calls    == <<ipc, returned, fd, next, whole>>
installVars == <<calls, files, settings, overlap, abandoned>>

File  == 1..MaxFiles
Block == 1..Blocks
Steps ==
  {"new", "asked", "stream", "write", "chmod", "verify", "replace", "end"}

InstallTypeOK ==
  /\ ipc \in [Installer -> Steps]
  /\ returned \in [Installer -> {"none", "path", "None"}]
  /\ made \in 0..MaxFiles
  /\ fd \in [Installer -> 0..made]
  /\ next \in [Installer -> 1..(Blocks + 1)]
  /\ whole \in [Installer -> BOOLEAN]
  /\ tmp \in 0..made /\ dest \in 0..made
  /\ content \in [File -> [Block -> {"release", "other", "missing"}]]
  /\ executable \subseteq File
  /\ {pinned, official, overlap, abandoned} \subseteq BOOLEAN

InstallInit ==
  /\ ipc = [i \in Installer |-> "new"]
  /\ returned = [i \in Installer |-> "none"]
  /\ fd = [i \in Installer |-> 0]
  /\ next = [i \in Installer |-> 1]
  /\ whole = [i \in Installer |-> TRUE]
  /\ tmp = 0 /\ dest = 0 /\ made = 0
  /\ content = [n \in File |-> [b \in Block |-> "missing"]]
  /\ executable = {}
  /\ pinned \in BOOLEAN /\ official \in BOOLEAN
  /\ overlap = FALSE /\ abandoned = FALSE

(* i has the temporary file, or relies on what it wrote there.             *)
Open(i) == ipc[i] \in {"write", "chmod", "verify", "replace"}

Intact(n) == \A b \in Block : content[n][b] = "release"
-----------------------------------------------------------------------------
StepTo(i, s) == ipc' = [ipc EXCEPT ![i] = s]

End(i, r) ==
  /\ StepTo(i, "end")
  /\ returned' = [returned EXCEPT ![i] = r]

GiveUpKeepsTemp(i) ==                 \* no unlink on the error paths
  /\ End(i, "None")
  /\ UNCHANGED <<fd, next, whole, files, settings, overlap, abandoned>>

GiveUpRemovesAll(i) ==                \* the binary is unlinked as well
  /\ End(i, "None")
  /\ tmp' = 0 /\ dest' = 0
  /\ UNCHANGED <<fd, next, whole, made, content, executable, settings, overlap,
                 abandoned>>

(* The paths that give up after the temporary path may exist unlink it,    *)
(* whosever it is.                                                         *)
GiveUp(i) ==
  /\ End(i, "None")
  /\ tmp' = 0
  /\ UNCHANGED <<fd, next, whole, dest, made, content, executable, settings,
                 overlap, abandoned>>

(* ensure_downloaded asks for a binary only if there is none, whatever its *)
(* mode.                                                                   *)
Ask(i) ==
  /\ ipc[i] = "new"
  /\ IF dest # 0 THEN End(i, "path") ELSE StepTo(i, "asked") /\ UNCHANGED returned
  /\ UNCHANGED <<fd, next, whole, files, settings, overlap, abandoned>>

Runnable == dest # 0 /\ dest \in executable

(* By now another call may have installed it.                              *)
Present(i) ==
  /\ ipc[i] = "asked" /\ Runnable
  /\ End(i, "path")
  /\ UNCHANGED <<fd, next, whole, files, settings, overlap, abandoned>>

(* The published checksum was fetched.                                     *)
FetchChecksum(i) ==
  /\ ipc[i] = "asked" /\ ~Runnable
  /\ StepTo(i, "stream")
  /\ UNCHANGED <<returned, fd, next, whole, files, settings, overlap, abandoned>>

NoChecksum(i) ==
  /\ ipc[i] = "asked" /\ ~Runnable
  /\ End(i, "None")
  /\ UNCHANGED <<fd, next, whole, files, settings, overlap, abandoned>>

(* open(dest_tmp, "wb") empties the file that is there or makes one.       *)
OpenTemp(i) ==
  /\ ipc[i] = "stream"
  /\ StepTo(i, "write")
  /\ LET n == IF tmp = 0 THEN made + 1 ELSE tmp IN
       /\ n <= MaxFiles
       /\ made' = IF tmp = 0 THEN n ELSE made
       /\ tmp' = n
       /\ fd' = [fd EXCEPT ![i] = n]
       /\ next' = [next EXCEPT ![i] = 1]
       /\ whole' = [whole EXCEPT ![i] = TRUE]
       /\ content' = [content EXCEPT ![n] = [b \in Block |-> "missing"]]
  /\ overlap' = (overlap \/ \E j \in Installer : Open(j))
  /\ UNCHANGED <<returned, dest, executable, settings, abandoned>>

WritePastEnd(i) ==                    \* the end of the stream is not noticed
  /\ ipc[i] = "write"
  /\ next' = [next EXCEPT ![i] = @ + 1]
  /\ UNCHANGED <<ipc, returned, fd, whole, files, settings, overlap, abandoned>>

(* A block arrives, as the release has it or not, and goes where this      *)
(* writer's offset is.                                                     *)
WriteBlock(i) ==
  /\ ipc[i] = "write" /\ next[i] <= Blocks
  /\ next' = [next EXCEPT ![i] = @ + 1]
  /\ \E b \in {"release", "other"} :
       /\ whole' = [whole EXCEPT ![i] = @ /\ b = "release"]
       /\ content' = [content EXCEPT ![fd[i]][next[i]] = b]
  /\ UNCHANGED <<ipc, returned, fd, tmp, dest, made, executable, settings,
                 overlap, abandoned>>

LengthOnly(i) == next[i] = Blocks + 1 \* the size is compared

(* The stream is at its end, all of it or cut short; what was received has *)
(* the published digest.                                                   *)
DigestOk(i) == whole[i] /\ next[i] = Blocks + 1

Matches(i) ==
  /\ ipc[i] = "write" /\ DigestOk(i)
  /\ StepTo(i, "chmod")
  /\ UNCHANGED <<returned, fd, next, whole, files, settings, overlap, abandoned>>

Mismatch(i) == ipc[i] = "write" /\ ~DigestOk(i) /\ GiveUp(i)

(* The file modes are set on whatever the path names now.                  *)
Chmod(i) ==
  /\ ipc[i] = "chmod" /\ tmp # 0
  /\ StepTo(i, "verify")
  /\ executable' = executable \cup {tmp}
  /\ UNCHANGED <<returned, fd, next, whole, tmp, dest, made, content, settings,
                 overlap, abandoned>>

(* codesign reads the file at the path; without a team nothing is read.    *)
SignatureOk == pinned => tmp # 0 /\ Intact(tmp) /\ official

Verified(i) ==
  /\ ipc[i] = "verify" /\ SignatureOk
  /\ StepTo(i, "replace")
  /\ UNCHANGED <<returned, fd, next, whole, files, settings, overlap, abandoned>>

(* codesign can also fail by itself.                                       *)
Rejected(i) == ipc[i] = "verify" /\ pinned /\ GiveUp(i)

Replace(i) ==
  /\ ipc[i] = "replace" /\ tmp # 0
  /\ End(i, "path")
  /\ dest' = tmp
  /\ tmp' = 0
  /\ UNCHANGED <<fd, next, whole, made, content, executable, settings, overlap,
                 abandoned>>

(* An error anywhere after the checksum: no connection, a read that times  *)
(* out, a full disk, a path that somebody else has unlinked.               *)
Raises(i) ==
  /\ \/ ipc[i] \in {"stream", "write"}
     \/ ipc[i] \in {"chmod", "replace"} /\ tmp = 0
  /\ GiveUp(i)

(* The process dies and leaves the temporary file behind.                  *)
CallDies(i) ==
  /\ ipc[i] # "end"
  /\ StepTo(i, "end")
  /\ abandoned' = (abandoned \/ Open(i))
  /\ UNCHANGED <<returned, fd, next, whole, files, settings, overlap>>

CallStep(i) ==
  \/ Ask(i) \/ Present(i) \/ FetchChecksum(i) \/ NoChecksum(i)
  \/ OpenTemp(i) \/ WriteBlock(i) \/ Matches(i) \/ Mismatch(i)
  \/ Chmod(i) \/ Verified(i) \/ Rejected(i) \/ Replace(i) \/ Raises(i)

InstallNext == \E i \in Installer : CallStep(i) \/ CallDies(i)

InstallSpec == InstallInit /\ [][InstallNext]_installVars
-----------------------------------------------------------------------------
(* Properties.                                                             *)

(* What is at the binary's path is what the release has, executable, and   *)
(* signed by the pinned team: no crash, failed download or retry puts part *)
(* of a binary there, where X_OK would keep it for good.  It holds as long *)
(* as no two calls have the temporary file open at the same time.          *)
InstalledIsVerified ==
  dest # 0 /\ ~overlap =>
    dest \in executable /\ Intact(dest) /\ (pinned => official)

(* Even when calls overlap and unlink each other's file, the last one to   *)
(* end leaves no temporary file, unless a process died with it.            *)
NoTempLeft ==
  tmp # 0 /\ ~abandoned => \E i \in Installer : Open(i)

(* An installed binary is never taken away or spoilt by a call that began  *)
(* before it was there, fails, and cleans up after itself.                 *)
BinaryStays ==
  [][dest # 0 /\ ~overlap' => dest' # 0 /\ Intact(dest)']_installVars
=============================================================================
