---------------------------- MODULE VideoPlugin -----------------------------
(***************************************************************************)
(* The ffmpeg plugin for one window and one key: load(), stop(), play()    *)
(* and pause() on the script thread, the decode worker of each stream, the *)
(* render thread, which looks for frames to upload between the tasks it is *)
(* sent, and the cleanup hook.  Decoding and pacing are abstracted to the  *)
(* points at which the worker may stand; the playback clock is kept.       *)
(*                                                                         *)
(* A stream is named by the number of the load() that made it.  The script *)
(* thread holds g_mutex over several steps only where it joins a worker in *)
(* load() and stop().  All names carry the prefix Video.                   *)
(***************************************************************************)
EXTENDS Integers, Sequences

CONSTANTS VideoMaxLoads,  \* streams the script loads
          VideoMaxTime    \* ticks of the clock

ASSUME VideoBoundsAssumption == VideoMaxLoads \in Nat /\ VideoMaxTime \in Nat

VARIABLES
    videoJs,       \* script thread: [pc, op]
    videoLoads,    \* load() calls that made a stream
    videoMap,      \* g_streams: the stream of the key, 0 for none
    videoRunning,  \* videoRunning[k]: running
    videoPlaying,  \* videoPlaying[k]: playing
    videoClock,    \* videoClock[k]: [start, paused, lost]: startTp, pauseTp (0: none),
                   \*   pausedAccumSec
    videoWorker,   \* videoWorker[k]: where the worker of stream k stands
    videoFresh,    \* videoFresh[k]: latestVersion # lastConsumedVersion
    videoTasks,    \* texture requests the render thread has not executed
    videoRender,   \* render thread: [pc, stream]
    videoTexture,  \* the stream the texture was last made for
    videoNow       \* steady_clock

videoVars == <<videoJs, videoLoads, videoMap, videoRunning, videoPlaying, videoClock,
               videoWorker, videoFresh, videoTasks, videoRender, videoTexture, videoNow>>

videoFlags  == <<videoRunning, videoPlaying>>
videoScreen == <<videoTasks, videoRender, videoTexture>>

Streams == 1..VideoMaxLoads

VideoIn(pc, op) == [pc |-> pc, op |-> op]
VideoScript == VideoIn("script", "none")

VideoNoClock == [start |-> 0, paused |-> 0, lost |-> 0]

VideoIdle == [pc |-> "idle", stream |-> 0]

VideoInit ==
    /\ videoJs = VideoScript
    /\ videoLoads = 0
    /\ videoMap = 0
    /\ videoRunning = [k \in Streams |-> FALSE]
    /\ videoPlaying = [k \in Streams |-> FALSE]
    /\ videoClock = [k \in Streams |-> VideoNoClock]
    /\ videoWorker = [k \in Streams |-> "none"]
    /\ videoFresh = [k \in Streams |-> FALSE]
    /\ videoTasks = <<>>
    /\ videoRender = VideoIdle
    /\ videoTexture = 0
    /\ videoNow = 1

\* g_mutex is held by the script thread from one step to the next.
VideoMutexHeld == videoJs.pc = "join" /\ videoJs.op # "cleanup"

\* nowRel in the worker: how far playback has come.
VideoMediaTime(k) == videoNow - videoClock[k].start - videoClock[k].lost

-----------------------------------------------------------------------------
(* The functions of the script                                             *)

\* teardown_stream begins.  The worker reads running first, so that the two stores
\* may be one step.
VideoTeardown(op) ==
    /\ videoRunning' = [videoRunning EXCEPT ![videoMap] = FALSE]
    /\ videoPlaying' = [videoPlaying EXCEPT ![videoMap] = FALSE]
    /\ videoJs' = VideoIn("join", op)

\* Variant: the stream the key had lives until the new one takes its place.
VideoLoadOver ==
    /\ videoJs.pc = "script" /\ videoLoads < VideoMaxLoads
    /\ videoJs' = VideoIn("open", "load")
    /\ UNCHANGED <<videoLoads, videoMap, videoFlags, videoClock, videoWorker, videoFresh,
                   videoScreen, videoNow>>

\* load() ends the stream the key had, and only then opens the new one.
VideoLoad ==
    /\ videoJs.pc = "script" /\ videoLoads < VideoMaxLoads
    /\ IF videoMap # 0 THEN VideoTeardown("load")
                       ELSE videoJs' = VideoIn("open", "load") /\ UNCHANGED videoFlags
    /\ UNCHANGED <<videoLoads, videoMap, videoClock, videoWorker, videoFresh, videoScreen, videoNow>>

VideoStop ==
    /\ videoJs.pc = "script" /\ videoMap # 0
    /\ VideoTeardown("stop")
    /\ UNCHANGED <<videoLoads, videoMap, videoClock, videoWorker, videoFresh, videoScreen, videoNow>>

\* The join in teardown_stream: the stream is freed, with its clock.
VideoJoin ==
    /\ videoJs.pc = "join" /\ videoWorker[videoMap] \in {"none", "done"}
    /\ videoMap' = 0
    /\ videoClock' = [videoClock EXCEPT ![videoMap] = VideoNoClock]
    /\ videoJs' = CASE videoJs.op = "load"    -> VideoIn("open", "load")
                    [] videoJs.op = "stop"    -> VideoScript
                    [] videoJs.op = "cleanup" -> VideoIn("over", "none")
    /\ UNCHANGED <<videoLoads, videoFlags, videoWorker, videoFresh, videoScreen, videoNow>>

\* The file is opened, the texture requested, the worker started: every failure before
\* the request is accepted throws, and the key is left without a stream.
VideoOpenFails ==
    /\ videoJs.pc = "open"
    /\ videoJs' = VideoScript
    /\ UNCHANGED <<videoLoads, videoMap, videoFlags, videoClock, videoWorker, videoFresh,
                   videoScreen, videoNow>>

VideoRequestsTexture ==
    /\ videoJs.pc = "open"
    /\ videoLoads' = videoLoads + 1
    /\ videoTasks' = Append(videoTasks, videoLoads')
    /\ videoJs' = VideoIn("start", "load")
    /\ UNCHANGED <<videoMap, videoFlags, videoClock, videoWorker, videoFresh, videoRender,
                   videoTexture, videoNow>>

VideoStarts ==
    /\ videoJs.pc = "start"
    /\ videoRunning' = [videoRunning EXCEPT ![videoLoads] = TRUE]
    /\ videoPlaying' = [videoPlaying EXCEPT ![videoLoads] = TRUE]
    /\ videoClock' = [videoClock EXCEPT ![videoLoads].start = videoNow]
    /\ videoWorker' = [videoWorker EXCEPT ![videoLoads] = "top"]
    /\ videoJs' = VideoIn("store", "load")
    /\ UNCHANGED <<videoLoads, videoMap, videoFresh, videoScreen, videoNow>>

VideoStores ==
    /\ videoJs.pc = "store"
    /\ videoMap' = videoLoads
    /\ videoJs' = VideoScript
    /\ UNCHANGED <<videoLoads, videoFlags, videoClock, videoWorker, videoFresh, videoScreen,
                   videoNow>>

\* play() adds the time since pauseTp, and leaves pauseTp as it is.
VideoPlay ==
    /\ videoJs.pc = "script" /\ videoMap # 0
    /\ LET clock == videoClock[videoMap]
       IN videoClock' = IF ~videoPlaying[videoMap] /\ clock.paused # 0
                        THEN [videoClock EXCEPT ![videoMap].lost = @ + videoNow - clock.paused]
                        ELSE videoClock
    /\ videoPlaying' = [videoPlaying EXCEPT ![videoMap] = TRUE]
    /\ UNCHANGED <<videoJs, videoLoads, videoMap, videoRunning, videoWorker, videoFresh,
                   videoScreen, videoNow>>

VideoPause ==
    /\ videoJs.pc = "script" /\ videoMap # 0
    /\ videoPlaying' = [videoPlaying EXCEPT ![videoMap] = FALSE]
    /\ videoClock' = [videoClock EXCEPT ![videoMap].paused = videoNow]
    /\ UNCHANGED <<videoJs, videoLoads, videoMap, videoRunning, videoWorker, videoFresh,
                   videoScreen, videoNow>>

\* ffmpeg_cleanup: the map is taken under the mutex, the worker joined without it.
VideoCleanup ==
    /\ videoJs.pc = "script"
    /\ IF videoMap # 0 THEN VideoTeardown("cleanup")
                       ELSE videoJs' = VideoIn("over", "none") /\ UNCHANGED videoFlags
    /\ UNCHANGED <<videoLoads, videoMap, videoClock, videoWorker, videoFresh, videoScreen, videoNow>>

-----------------------------------------------------------------------------
(* The decode worker of stream k                                           *)

VideoWorkerGoes(k, pc) == videoWorker' = [videoWorker EXCEPT ![k] = pc]

VideoWorkerTests(k) ==
    /\ videoWorker[k] = "top"
    /\ VideoWorkerGoes(k, IF videoRunning[k] THEN "look" ELSE "done")
    /\ UNCHANGED <<videoJs, videoLoads, videoMap, videoFlags, videoClock, videoFresh, videoScreen,
                   videoNow>>

\* A paused worker sleeps and tests again.
VideoWorkerLooks(k) ==
    /\ videoWorker[k] = "look"
    /\ VideoWorkerGoes(k, IF videoPlaying[k] THEN "read" ELSE "top")
    /\ UNCHANGED <<videoJs, videoLoads, videoMap, videoFlags, videoClock, videoFresh, videoScreen,
                   videoNow>>

\* A packet of another stream, one that gives no frame, or one that does.
VideoWorkerReads(k) ==
    /\ videoWorker[k] = "read"
    /\ \E pc \in {"top", "pace"} : VideoWorkerGoes(k, pc)
    /\ UNCHANGED <<videoJs, videoLoads, videoMap, videoFlags, videoClock, videoFresh, videoScreen,
                   videoNow>>

\* Variant: pauseTp survives the end of the file.
VideoWorkerRewindsOnly(k) ==
    /\ videoWorker[k] = "read"
    /\ videoClock' = [videoClock EXCEPT ![k].start = videoNow, ![k].lost = 0]
    /\ VideoWorkerGoes(k, "top")
    /\ UNCHANGED <<videoJs, videoLoads, videoMap, videoFlags, videoFresh, videoScreen, videoNow>>

\* The end of the file: the clock starts again.
VideoWorkerRewinds(k) ==
    /\ videoWorker[k] = "read"
    /\ videoClock' = [videoClock EXCEPT ![k] = [start |-> videoNow, paused |-> 0, lost |-> 0]]
    /\ VideoWorkerGoes(k, "top")
    /\ UNCHANGED <<videoJs, videoLoads, videoMap, videoFlags, videoFresh, videoScreen, videoNow>>

\* The frame is due, or the stream no longer runs: it is copied with qmutex held.
VideoWorkerLocks(k) ==
    /\ videoWorker[k] = "pace"
    /\ videoRender.pc # "upload" \/ videoRender.stream # k
    /\ VideoWorkerGoes(k, "copy")
    /\ UNCHANGED <<videoJs, videoLoads, videoMap, videoFlags, videoClock, videoFresh, videoScreen,
                   videoNow>>

VideoWorkerPublishes(k) ==
    /\ videoWorker[k] = "copy"
    /\ videoFresh' = [videoFresh EXCEPT ![k] = TRUE]
    /\ VideoWorkerGoes(k, "request")
    /\ UNCHANGED <<videoJs, videoLoads, videoMap, videoFlags, videoClock, videoScreen, videoNow>>

\* A render pass is requested; more frames of the packet follow while the stream runs.
\* A request that is refused ends the stream.
VideoWorkerRequests(k) ==
    /\ videoWorker[k] = "request"
    /\ \/ /\ \E pc \in {"top"} \cup (IF videoRunning[k] THEN {"pace"} ELSE {}) :
                VideoWorkerGoes(k, pc)
          /\ UNCHANGED videoRunning
       \/ /\ VideoWorkerGoes(k, "top")
          /\ videoRunning' = [videoRunning EXCEPT ![k] = FALSE]
    /\ UNCHANGED <<videoJs, videoLoads, videoMap, videoPlaying, videoClock, videoFresh,
                   videoScreen, videoNow>>

-----------------------------------------------------------------------------
(* The render thread                                                       *)

\* on_render_begin: without g_mutex it leaves the pass alone; else it keeps the
\* running stream.
VideoRenderBegins ==
    /\ videoRender.pc = "idle" /\ ~VideoMutexHeld
    /\ videoMap # 0 /\ videoJs # VideoIn("join", "cleanup")
    /\ videoRunning[videoMap]
    /\ videoRender' = [pc |-> "look", stream |-> videoMap]
    /\ UNCHANGED <<videoJs, videoLoads, videoMap, videoFlags, videoClock, videoWorker, videoFresh,
                   videoTasks, videoTexture, videoNow>>

\* Skips a paused stream, one whose worker holds qmutex, and a frame seen before.
VideoRenderLooks ==
    /\ videoRender.pc = "look"
    /\ LET k == videoRender.stream
       IN videoRender' = IF videoPlaying[k] /\ videoWorker[k] # "copy" /\ videoFresh[k]
                         THEN [videoRender EXCEPT !.pc = "upload"] ELSE VideoIdle
    /\ UNCHANGED <<videoJs, videoLoads, videoMap, videoFlags, videoClock, videoWorker, videoFresh,
                   videoTasks, videoTexture, videoNow>>

VideoRenderUploads ==
    /\ videoRender.pc = "upload"
    /\ videoFresh' = [videoFresh EXCEPT ![videoRender.stream] = FALSE]
    /\ videoRender' = VideoIdle
    /\ UNCHANGED <<videoJs, videoLoads, videoMap, videoFlags, videoClock, videoWorker, videoTasks,
                   videoTexture, videoNow>>

\* create_texture_rgba under the key the streams share, in the order requested.
VideoRenderTask ==
    /\ videoRender.pc = "idle" /\ videoTasks # <<>>
    /\ videoTexture' = Head(videoTasks)
    /\ videoTasks' = Tail(videoTasks)
    /\ UNCHANGED <<videoJs, videoLoads, videoMap, videoFlags, videoClock, videoWorker, videoFresh,
                   videoRender, videoNow>>

VideoTick ==
    /\ videoNow < VideoMaxTime
    /\ videoNow' = videoNow + 1
    /\ UNCHANGED <<videoJs, videoLoads, videoMap, videoFlags, videoClock, videoWorker, videoFresh,
                   videoScreen>>

-----------------------------------------------------------------------------

VideoWorkerSteps(k) ==
    \/ VideoWorkerTests(k)
    \/ VideoWorkerLooks(k)
    \/ VideoWorkerReads(k)
    \/ VideoWorkerRewinds(k)
    \/ VideoWorkerLocks(k)
    \/ VideoWorkerPublishes(k)
    \/ VideoWorkerRequests(k)

VideoRenderSteps ==
    \/ VideoRenderBegins
    \/ VideoRenderLooks
    \/ VideoRenderUploads
    \/ VideoRenderTask

VideoHostSteps ==
    \/ VideoJoin
    \/ VideoOpenFails
    \/ VideoRequestsTexture
    \/ VideoStarts
    \/ VideoStores

VideoScriptSteps == VideoLoad \/ VideoStop \/ VideoPlay \/ VideoPause \/ VideoCleanup

VideoNext ==
    \/ VideoScriptSteps
    \/ VideoHostSteps
    \/ \E k \in Streams : VideoWorkerSteps(k)
    \/ VideoRenderSteps
    \/ VideoTick

VideoSpec == VideoInit /\ [][VideoNext]_videoVars

\* Threads run; a frame comes due because the clock goes on.
VideoFairness ==
    /\ WF_videoVars(VideoHostSteps)
    /\ \A k \in Streams : WF_videoVars(VideoWorkerSteps(k))
    /\ WF_videoVars(VideoRenderSteps)

VideoFairSpec == VideoSpec /\ VideoFairness

-----------------------------------------------------------------------------

VideoTypeOK ==
    /\ videoJs \in [pc : {"script", "join", "open", "start", "store", "over"},
                    op : {"none", "load", "stop", "cleanup"}]
    /\ videoLoads \in 0..VideoMaxLoads /\ videoMap \in 0..VideoMaxLoads
    /\ videoRunning \in [Streams -> BOOLEAN] /\ videoPlaying \in [Streams -> BOOLEAN]
    /\ videoClock \in [Streams -> [start : Nat, paused : Nat, lost : Int]]
    /\ videoWorker \in [Streams -> {"none", "top", "look", "read", "pace", "copy", "request",
                                    "done"}]
    /\ videoFresh \in [Streams -> BOOLEAN]
    /\ videoTasks \in Seq(Streams)
    /\ videoRender \in [pc : {"idle", "look", "upload"}, stream : 0..VideoMaxLoads]
    /\ videoTexture \in 0..VideoMaxLoads
    /\ videoNow \in Nat

\* Playback never stands before its beginning, where the worker would hold the next
\* frame back for as long as the clock is behind, whatever pauses, resumptions and ends
\* of the file come together (js_play, js_pause, the worker's rewind).
VideoClockNeverNegative ==
    \A k \in Streams : videoWorker[k] \notin {"none", "done"} => VideoMediaTime(k) >= 0

\* No frame of a replaced stream is uploaded into the texture made for its successor,
\* whose size may differ (js_load, on_render_begin).
VideoNoOldFrame ==
    videoRender.pc = "upload" => videoTexture <= videoRender.stream

\* load(), stop() or cleanup joins the worker of a stream.
VideoJoining == videoJs.pc = "join"

=============================================================================
