----------------------------- MODULE FrameHistory -----------------------------
(***************************************************************************)
(* FramePipeline with a record of the frames each consumer was handed, to  *)
(* say of a frame that it is older than the one before.                    *)
(***************************************************************************)
EXTENDS FramePipeline

VARIABLE handed   \* consumer -> the last frame of its session, 0 if none

HistoryInit == Init /\ handed = [c \in Consumers |-> 0]

(* A frame counts when its ConsumeLock goes out of scope, unless it is the *)
(* one that is ignored.                                                    *)
HandedTo(c) ==
  IF at[c] = "reading" /\ at'[c] = "packet" THEN content[bufRcv]
  ELSE IF at'[c] = "idle" THEN 0 ELSE handed[c]

HistoryNext == Next /\ handed' = [c \in Consumers |-> HandedTo(c)]

HistorySpec == HistoryInit /\ [][HistoryNext]_<<vars, handed>>

(* hiddevreader.h:21 says the reader "provides most recent frame": no      *)
(* frame is handed to a consumer after a newer one.  (0 is the content of  *)
(* a buffer nothing was read into: no frame.)                              *)
MostRecentFrame ==
  \A c \in Consumers :
    at[c] = "reading" /\ ~ignoreFirst[c] /\ content[bufRcv] > 0 =>
      content[bufRcv] >= handed[c]

=============================================================================
