---------------------------- MODULE ImageBuffer ----------------------------
(***************************************************************************)
(* The ring of images of one camera (modules/nao/camera/image_buffer.cpp)  *)
(* between ImageThread, the grabber, which fills it, and Vision, which     *)
(* reads the image published last, in threads of their own. Nothing but    *)
(* the order of steps and the flags of each image (framework/image) keeps  *)
(* the two apart: the flags are atomic, but to set or to clear one is a    *)
(* load and a store, and Vision sets its flag some steps after it has      *)
(* chosen the image. The two cameras have a ring each and do not meet.     *)
(*                                                                         *)
(* The camera and its driver are external: a frame arrives or an error.    *)
(***************************************************************************)
EXTENDS Naturals, FiniteSets

CONSTANTS
  Size,      \* images in the ring (150)
  MaxTries,  \* attempts to get a frame from the camera (3)
  MaxFrame   \* bound: frames in one run

ASSUME ImageBufferAssumption ==
  Size \in Nat \ {0} /\ MaxTries \in Nat \ {0} /\ MaxFrame \in Nat

VARIABLES
  flags,    \* of each image: the ImgLocks that are set
  content,  \* of each image: the frame in its memory, also while it is copied
  curImg,   \* the image published last
  lastImg,  \* the image Vision has asked for last
  frame,    \* the last frame the camera has delivered
  grabber,  \* ImageThread: where it is, its image, the flags it has loaded, failures
  vision    \* Vision: where it is, its image, the flags, its frame;
            \* not in the code: the frame it has asked for, and whether its flag came late

vars == <<flags, content, curImg, lastImg, frame, grabber, vision>>

Images == 0 .. Size - 1
Frames == 0 .. MaxFrame
ImgLock == {"CAPTURE", "VISION"}

Choosing == {"first", "idle", "search"}
Writing == {"setting", "set", "grab", "filling", "publish"}
Clearing == {"clearing", "clear"}
Dead == {"full", "no camera", "assertion"}
Looking == {"wait", "note", "index"}
Taking == {"copy", "setting", "set"}
Reading == {"process", "clear"}

TypeOK ==
  /\ flags \in [Images -> SUBSET ImgLock]
  /\ content \in [Images -> Frames]
  /\ curImg \in Images /\ lastImg \in Nat /\ frame \in Frames
  /\ grabber \in [at : Choosing \cup Writing \cup Clearing \cup Dead, img : Images,
                  seen : SUBSET ImgLock, failures : 0 .. MaxTries]
  /\ vision \in [at : Looking \cup Taking \cup Reading, img : Images,
                 seen : SUBSET ImgLock, frame : Frames, asked : Frames, late : BOOLEAN]

\* lastImg starts at 1, so that image 0 counts as new before there is a frame.
Init ==
  /\ flags = [i \in Images |-> {}]
  /\ content = [i \in Images |-> 0]
  /\ curImg = 0 /\ lastImg = 1 /\ frame = 0
  /\ grabber = [at |-> "first", img |-> 0, seen |-> {}, failures |-> 0]
  /\ vision = [at |-> "wait", img |-> 0, seen |-> {}, frame |-> 0,
              asked |-> 0, late |-> FALSE]

Alive == grabber.at \notin Dead

After(i) == (i + 1) % Size

----------------------------------------------------------------------------
(* Faults: what some of the definitions would be if the code were wrong,   *)
(* kept to show that the properties below notice.                          *)

\* The search starts with the current image.
SearchFromCurrent ==
  /\ grabber.at = "idle"
  /\ frame < MaxFrame
  /\ grabber' = [grabber EXCEPT !.at = "search", !.img = curImg, !.failures = 0]
  /\ UNCHANGED <<flags, content, curImg, lastImg, frame, vision>>

\* It does not look at Vision's flag.
ProbeOwnFlag ==
  /\ grabber.at = "search"
  /\ grabber' = IF grabber.img = curImg THEN [grabber EXCEPT !.at = "full"]
                ELSE IF "CAPTURE" \notin flags[grabber.img] THEN [grabber EXCEPT !.at = "setting"]
                ELSE [grabber EXCEPT !.img = After(grabber.img)]
  /\ UNCHANGED <<flags, content, curImg, lastImg, frame, vision>>

\* The image is published before it is filled.
PublishEarly ==
  /\ grabber.at = "set"
  /\ flags' = [flags EXCEPT ![grabber.img] = grabber.seen \cup {"CAPTURE"}]
  /\ curImg' = grabber.img
  /\ grabber' = [grabber EXCEPT !.at = "grab", !.seen = {}]
  /\ UNCHANGED <<content, lastImg, frame, vision>>

\* getImage() waits for another image without a limit.
KeepWaiting ==
  /\ Alive /\ vision.at = "wait"
  /\ lastImg = curImg
  /\ UNCHANGED vars

----------------------------------------------------------------------------
(* ImageThread::process *)

\* It opens the cameras and returns, at first and after a reset.
FirstRun ==
  /\ grabber.at = "first"
  /\ grabber' = [grabber EXCEPT !.at = "idle"]
  /\ UNCHANGED <<flags, content, curImg, lastImg, frame, vision>>

\* getCaptureBuffer() looks for an image without flags behind the current one ...
GetCaptureBuffer ==
  /\ grabber.at = "idle"
  /\ frame < MaxFrame
  /\ grabber' = [grabber EXCEPT !.at = "search", !.img = After(curImg), !.failures = 0]
  /\ UNCHANGED <<flags, content, curImg, lastImg, frame, vision>>

\* ... one after the other, and throws when it is back at the current one.
Probe ==
  /\ grabber.at = "search"
  /\ grabber' = IF grabber.img = curImg THEN [grabber EXCEPT !.at = "full"]
                ELSE IF flags[grabber.img] = {} THEN [grabber EXCEPT !.at = "setting"]
                ELSE [grabber EXCEPT !.img = After(grabber.img)]
  /\ UNCHANGED <<flags, content, curImg, lastImg, frame, vision>>

\* lock(CAPTURE): a load and a store.
LoadToSet ==
  /\ grabber.at = "setting"
  /\ grabber' = [grabber EXCEPT !.at = "set", !.seen = flags[grabber.img]]
  /\ UNCHANGED <<flags, content, curImg, lastImg, frame, vision>>

SetCapture ==
  /\ grabber.at = "set"
  /\ flags' = [flags EXCEPT ![grabber.img] = grabber.seen \cup {"CAPTURE"}]
  /\ grabber' = [grabber EXCEPT !.at = "grab", !.seen = {}]
  /\ UNCHANGED <<content, curImg, lastImg, frame, vision>>

\* The frame is copied into the image, which is neither old nor new meanwhile ...
\* If the other camera then fails, it is fetched again, under the same flag.
FetchImage ==
  /\ grabber.at = "grab"
  /\ frame' = frame + 1
  /\ content' = [content EXCEPT ![grabber.img] = frame + 1]
  /\ grabber' = [grabber EXCEPT !.at = "filling"]
  /\ UNCHANGED <<flags, curImg, lastImg, vision>>

\* ... and gets its time and its pose.
SetPose ==
  /\ grabber.at = "filling"
  /\ grabber' = [grabber EXCEPT !.at = "publish"]
  /\ UNCHANGED <<flags, content, curImg, lastImg, frame, vision>>

\* After an error of either camera both are reset; after MaxTries process() throws.
ResetCameras ==
  /\ grabber.at = "grab"
  /\ grabber' = [grabber EXCEPT !.failures = @ + 1,
                                !.at = IF grabber.failures + 1 = MaxTries THEN "no camera" ELSE @]
  /\ UNCHANGED <<flags, content, curImg, lastImg, frame, vision>>

\* releaseCaptureBuffer() asserts its flag and publishes the image first ...
Publish ==
  /\ grabber.at = "publish"
  /\ IF "CAPTURE" \in flags[grabber.img]
       THEN /\ curImg' = grabber.img
            /\ grabber' = [grabber EXCEPT !.at = "clearing"]
       ELSE /\ grabber' = [grabber EXCEPT !.at = "assertion"]
            /\ UNCHANGED curImg
  /\ UNCHANGED <<flags, content, lastImg, frame, vision>>

\* ... and clears its flag then, again in two steps.
LoadToClear ==
  /\ grabber.at = "clearing"
  /\ grabber' = [grabber EXCEPT !.at = "clear", !.seen = flags[grabber.img]]
  /\ UNCHANGED <<flags, content, curImg, lastImg, frame, vision>>

ClearCapture ==
  /\ grabber.at = "clear"
  /\ flags' = [flags EXCEPT ![grabber.img] = grabber.seen \ {"CAPTURE"}]
  /\ grabber' = [grabber EXCEPT !.at = IF grabber.failures = 0 THEN "idle" ELSE "first", !.seen = {}]
  /\ UNCHANGED <<content, curImg, lastImg, frame, vision>>

Grab ==
  \/ FirstRun \/ GetCaptureBuffer \/ Probe \/ LoadToSet \/ SetCapture \/ FetchImage
  \/ SetPose \/ ResetCameras \/ Publish \/ LoadToClear \/ ClearCapture

----------------------------------------------------------------------------
(* Vision::process, for this camera *)

\* getImage() polls until there is another image ...
NewImage ==
  /\ Alive /\ vision.at = "wait"
  /\ lastImg # curImg
  /\ vision' = [vision EXCEPT !.at = "note"]
  /\ UNCHANGED <<flags, content, curImg, lastImg, frame, grabber>>

\* ... or 100 ms are over: then it returns the one it has. (In the simulator,
\* which is not modelled, it waits for practically ever.)
GiveUp ==
  /\ Alive /\ vision.at = "wait"
  /\ lastImg = curImg
  /\ vision' = [vision EXCEPT !.at = "note"]
  /\ UNCHANGED <<flags, content, curImg, lastImg, frame, grabber>>

\* It reads curImg twice, for lastImg and for the image ...
NoteLast ==
  /\ Alive /\ vision.at = "note"
  /\ lastImg' = curImg
  /\ vision' = [vision EXCEPT !.at = "index"]
  /\ UNCHANGED <<flags, content, curImg, frame, grabber>>

TakeCurrent ==
  /\ Alive /\ vision.at = "index"
  /\ vision' = [vision EXCEPT !.at = "copy", !.img = curImg,
                               !.asked = content[curImg]]
  /\ UNCHANGED <<flags, content, curImg, lastImg, frame, grabber>>

\* ... and ImageProvider copies the header: time, pose and a pointer to the pixels.
CopyHeader ==
  /\ Alive /\ vision.at = "copy"
  /\ vision' = [vision EXCEPT !.at = "setting", !.frame = content[vision.img]]
  /\ UNCHANGED <<flags, content, curImg, lastImg, frame, grabber>>

LoadToSetVision ==
  /\ Alive /\ vision.at = "setting"
  /\ vision' = [vision EXCEPT !.at = "set", !.seen = flags[vision.img]]
  /\ UNCHANGED <<flags, content, curImg, lastImg, frame, grabber>>

\* The grabber is at, or has overwritten, the image Vision has chosen.
Overtaken ==
  \/ content[vision.img] # vision.frame
  \/ grabber.at \in Writing /\ grabber.img = vision.img

SetVision ==
  /\ Alive /\ vision.at = "set"
  /\ flags' = [flags EXCEPT ![vision.img] = vision.seen \cup {"VISION"}]
  /\ vision' = [vision EXCEPT !.at = "process", !.seen = {}, !.late = Overtaken]
  /\ UNCHANGED <<content, curImg, lastImg, frame, grabber>>

\* detect() reads the pixels, up to the JPEG it emits ...
LoadToClearVision ==
  /\ Alive /\ vision.at = "process"
  /\ vision' = [vision EXCEPT !.at = "clear", !.seen = flags[vision.img]]
  /\ UNCHANGED <<flags, content, curImg, lastImg, frame, grabber>>

\* ... and clears the flag.
ClearVision ==
  /\ Alive /\ vision.at = "clear"
  /\ flags' = [flags EXCEPT ![vision.img] = vision.seen \ {"VISION"}]
  /\ vision' = [vision EXCEPT !.at = "wait", !.seen = {}, !.late = FALSE]
  /\ UNCHANGED <<content, curImg, lastImg, frame, grabber>>

See ==
  \/ NewImage \/ GiveUp \/ NoteLast \/ TakeCurrent \/ CopyHeader \/ LoadToSetVision
  \/ SetVision \/ LoadToClearVision \/ ClearVision

Next == Grab \/ See

Spec == Init /\ [][Next]_vars

\* Each thread runs on; the 100 ms are over at some time.
FairSpec == Spec /\ WF_vars(Grab) /\ WF_vars(See)

----------------------------------------------------------------------------
(* Properties *)

Held(thread, states, i) == thread.img = i /\ thread.at \in states

\* Images that keep a flag whose thread is done with them.
Leaked ==
  {i \in Images :
     \/ "CAPTURE" \in flags[i] /\ ~Held(grabber, (Writing \cup Clearing) \ {"setting", "set"}, i)
     \/ "VISION" \in flags[i] /\ ~Held(vision, Reading, i)}

\* The grabber is round the ring again: it has skipped what has leaked, and the
\* image Vision held before.
Lapped == frame + 2 + Cardinality(Leaked) >= vision.asked + Size

Torn == vision.at \in Reading /\ Overtaken

\* An image that has Vision's flag in time is not taken while the flag is set.
FlagProtects == Torn => vision.late \/ "VISION" \notin flags[vision.img]

(* Vision's pixels are those of the frame whose time and pose it has, unless *)
(* the grabber has gone round the whole ring since; and then only if Vision  *)
(* set its flag too late, or the flag was lost in a race of the stores.      *)
NoTearing == (Torn => Lapped) /\ FlagProtects

(* getCaptureBuffer() finds no image, which ends the program, only after all *)
(* but two of them have leaked: the current one and the one Vision holds.    *)
FullOnlyByLeaks == grabber.at = "full" => Cardinality(Leaked) + 2 >= Size

(* Vision never asks for an image older than the one before, and gets the    *)
(* one it asks for or, when it was lapped, a newer one.                      *)
NeverOlder ==
  [][ /\ vision'.asked >= vision.asked
      /\ vision'.frame # vision.frame => vision'.frame >= vision'.asked ]_vars

(* A published image, or a later one, gets to Vision, also if the camera     *)
(* stalls while the numbers have gone round the ring.                        *)
NewestIsTaken ==
  \A n \in 1 .. MaxFrame : content[curImg] = n ~> vision.frame >= n \/ ~Alive

(* The inductive invariant behind them (ImageBufferProofs). A frame is in    *)
(* one image only, and no image has one the camera has not delivered.        *)
Numbered ==
  /\ \A i \in Images : content[i] <= frame
  /\ \A i, j \in Images : content[i] = content[j] => i = j \/ content[i] = 0

\* Vision's frame is between what it has asked for and what is in its image; the
\* current image is the newest, but for the one the grabber fills.
Recent ==
  /\ vision.asked <= content[curImg]
  /\ vision.at \in Taking \cup Reading /\ vision.img # curImg => vision.asked < content[curImg]
  /\ vision.at = "copy" => vision.asked <= content[vision.img]
  /\ vision.at \in {"setting", "set"} \cup Reading =>
       vision.asked <= vision.frame /\ vision.frame <= content[vision.img]
  /\ grabber.at \in {"filling", "publish"} =>
       content[grabber.img] = frame /\ content[curImg] < frame
  /\ grabber.at \in Writing => grabber.img # curImg
  /\ grabber.at \in Clearing \cup {"full"} => grabber.img = curImg
  /\ grabber.at \in {"search", "setting", "set", "grab"} =>
       frame < MaxFrame /\ grabber.failures < MaxTries

Loaded == grabber.at \in {"set", "clear"} /\ grabber.img = vision.img

\* Neither an image nor the grabber's copy of its flags has Vision's flag when
\* the image has been taken again, unless Vision came late.
Guarded ==
  vision.at \in Reading /\ Overtaken /\ ~vision.late =>
    /\ "VISION" \notin flags[vision.img]
    /\ Loaded => "VISION" \notin grabber.seen

\* How far j is ahead of i in the ring; an image is a whole round ahead of itself.
Ahead(i, j) == IF j > i THEN j - i ELSE (j + Size) - i

\* The images the grabber has found taken since it published the current one.
Skipped ==
  IF grabber.at \in {"search", "full"} \cup Writing
    THEN {i \in Images : Ahead(curImg, i) < Ahead(curImg, grabber.img)}
    ELSE {}

\* Those that have leaked for as long as Vision stays where it is.
Stuck ==
  Leaked \ ({vision.img} \cup (IF grabber.at \in {"setting", "set"} THEN {grabber.img} ELSE {}))

\* It skips what has leaked, but for one image that Vision has, or had, in hand.
Spare ==
  \E x \in Images : /\ vision.img # curImg => x = vision.img
                    /\ Skipped \subseteq Stuck \cup {x}

\* The images the grabber has come past since Vision asked for its own.
Reached ==
  \/ vision.asked < content[vision.img]
  \/ grabber.at \in Writing /\ grabber.img = vision.img

Passed ==
  {i \in Images : \/ Reached \/ i \in Skipped
                  \/ vision.img # curImg /\ Ahead(vision.img, i) <= Ahead(vision.img, curImg)}

\* All but one of them have leaked or hold a frame that came later.
Rounds ==
  vision.at \in Taking \cup Reading =>
    \E x \in Images : \A i \in Passed \ {x, vision.img} :
       i \in Stuck \/ vision.asked < content[i]

IInv == TypeOK /\ Numbered /\ Recent /\ Guarded /\ Spare /\ Rounds

(* image_buffer.h:40: releaseCaptureBuffer() "unlocks CamImage previously    *)
(* obtained by getCaptureBuffer()".                                          *)
ReleasedIsUnlocked ==
  \A i \in Images :
     "CAPTURE" \in flags[i] => Held(grabber, (Writing \cup Clearing \cup Dead) \ {"setting", "set"}, i)

=============================================================================
