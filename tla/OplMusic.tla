------------------------------ MODULE OplMusic ------------------------------
(***************************************************************************)
(* Music on the emulated OPL chip.  The audio thread fills sound buffers   *)
(* (opl_sdl.c) and, at the right sample, invokes the callbacks of a heap   *)
(* ordered by time (opl_queue.c); each callback plays one MIDI event of a  *)
(* track and schedules the next one (i_oplmusic.c).  The control thread    *)
(* (the game) starts, pauses and stops songs meanwhile.                    *)
(*                                                                         *)
(* One unit of time stands for one sample, and a time in the heap is kept  *)
(* relative to the clock of the song, current_time - pause_offset.  One    *)
(* step is one critical section of callback_queue_mutex, or one callback   *)
(* (callback_mutex is held around it, and I_OPL_StopSong holds it too).    *)
(***************************************************************************)
EXTENDS Integers, Sequences, FiniteSets

CONSTANTS Songs,          \* sequences of tracks, of events [delta, tempo, end]
          Slice,          \* samples of a sound buffer
          MAX_OPL_QUEUE,
          FirstTempo,     \* us_per_beat of a song that has not set it yet
          RestartDelay,   \* 5 ms, between the end of a song and its restart
          MaxPause        \* bound: a longer pause_offset is taken for this one

(* A track is read up to its first end-of-track event (midifile.c).        *)
Events == [delta : Nat, tempo : Nat, end : BOOLEAN]

ASSUME SongsAssumption ==
  \A s \in Songs :
    /\ s \in Seq(Seq(Events)) /\ Len(s) \in 1..MAX_OPL_QUEUE
    /\ \A t \in DOMAIN s : /\ s[t] # <<>>
                           /\ \A i \in DOMAIN s[t] : s[t][i].end <=> i = Len(s[t])
ASSUME QueueAssumption == MAX_OPL_QUEUE \in Nat \ {0} /\ MaxPause \in Nat
ASSUME SliceAssumption == Slice \in Nat \ {0}
ASSUME RestartAssumption == RestartDelay \in Nat /\ FirstTempo \in Nat \ {0}

VARIABLES callback_queue,   \* the heap: entries [cb, due]; 2i and 2i+1 below i
          opl_sdl_paused,
          pause_offset,
          audio,            \* what the audio thread does next
          filled,           \* samples in its buffer so far
          nsamples,         \* samples until the next callback, read under the mutex
          popped,           \* the callback it is about to invoke
          control,          \* [pc, track, us]: what the control thread does
          song,             \* <<>> when none is playing
          song_looping,
          event,            \* position of each track's iterator
          running_tracks,
          us_per_beat

oplVars == <<callback_queue, opl_sdl_paused, pause_offset, audio, filled, nsamples,
             popped, control, song, song_looping, event, running_tracks, us_per_beat>>

chip    == <<opl_sdl_paused, pause_offset>>
mixer   == <<audio, filled, nsamples, popped>>
playing == <<song, song_looping, event, running_tracks, us_per_beat>>

(* A callback: the index of a track, RestartSong, or that of OPL_Delay.    *)
RestartSong   == 0
DelayCallback == -1
Idle == [pc |-> "idle", track |-> 0, us |-> 0]

Tracks == DOMAIN song
Ended(t) == event[t] > Len(song[t])

Least(x, y) == IF x < y THEN x ELSE y
-----------------------------------------------------------------------------
(* The heap of opl_queue.c, from index 1.                                  *)

(* OPL_Queue_Push: the later ancestors of the new place move down one by   *)
(* one, and e takes the place of the last of them.                         *)
Push(q, cb, us) ==
  LET n == Len(q) + 1
      above[i \in 0..n] == IF i = 0 THEN {} ELSE {i} \cup above[i \div 2]
      hole[i \in 1..n]  == IF i = 1 \/ us >= q[i \div 2].due
                           THEN i ELSE hole[i \div 2]
  IN IF Len(q) >= MAX_OPL_QUEUE THEN q
     ELSE [i \in 1..n |-> IF i = hole[n] THEN [cb |-> cb, due |-> us]
                          ELSE IF i \in above[n] /\ i > hole[n] THEN q[i \div 2]
                          ELSE q[i]]

(* The child that takes the place of i when the entry last percolates      *)
(* down in a heap of n entries; 0 when last belongs at i.  The first       *)
(* definition forgets to compare the children with each other.             *)
LeftChild(q, n, last, i) ==
  LET l == 2 * i   r == 2 * i + 1
  IN IF l <= n /\ q[l].due < last.due THEN l
     ELSE IF r <= n /\ q[r].due < last.due THEN r
     ELSE 0

SmallerChild(q, n, last, i) ==
  LET l == 2 * i   r == 2 * i + 1
  IN IF l <= n /\ q[l].due < last.due
     THEN IF r <= n /\ q[r].due < q[l].due THEN r ELSE l
     ELSE IF r <= n /\ q[r].due < last.due THEN r
     ELSE 0

(* OPL_Queue_Pop: what is left without the first entry.                    *)
Pop(q) ==
  LET n        == Len(q) - 1
      last     == q[n + 1]
      child(i) == SmallerChild(q, n, last, i)
      path[i \in 1..n] == i = 1 \/ (path[i \div 2] /\ child(i \div 2) = i)
  IN [i \in 1..n |-> IF ~path[i] THEN q[i]
                     ELSE IF child(i) = 0 THEN last
                     ELSE q[child(i)]]

(* OPL_Queue_AdjustCallbacks, around current_time, which is pause_offset   *)
(* ahead of the song's clock.  A remaining time below zero is divided as   *)
(* a float and converted to uint64_t, which C leaves undefined: it comes   *)
(* out as the quotient (x86) or as 0 (PowerPC).                            *)
Scaled(x, old, new, negative) ==
  IF x >= 0 THEN (x * new) \div old
  ELSE IF negative = "zero" THEN 0
  ELSE -((-x * new) \div old)

AdjustCallbacks(q, old, new, negative) ==
  [i \in DOMAIN q |->
     [q[i] EXCEPT !.due = pause_offset + Scaled(@ - pause_offset, old, new, negative)]]
-----------------------------------------------------------------------------
(* The callbacks.  q is the heap they find; they leave callback_queue',    *)
(* the positions, running_tracks', us_per_beat' and control'.              *)

Delta(t) == song[t][event'[t]].delta * us_per_beat'

(* TrackTimerCallback: the song starts again after its last track, 5 ms    *)
(* later.  The first two definitions are slips of the other two.           *)
NeverRestarts == song_looping /\ running_tracks - 1 < 0
AtOnce        == 0

Restarts       == song_looping /\ running_tracks - 1 <= 0
FiveMillisLate == RestartDelay

TrackTimerCallback(t) ==
  LET e == song[t][event[t]]
  IN /\ event' = [event EXCEPT ![t] = @ + 1]
     /\ us_per_beat' = IF e.tempo > 0 THEN e.tempo ELSE us_per_beat
     /\ IF e.end
        THEN /\ running_tracks' = running_tracks - 1
             /\ callback_queue' = IF Restarts
                                  THEN Push(callback_queue, RestartSong, FiveMillisLate)
                                  ELSE callback_queue
        ELSE /\ UNCHANGED running_tracks
             /\ \E negative \in {"quotient", "zero"} :
                  callback_queue' =
                    Push(IF e.tempo > 0
                         THEN AdjustCallbacks(callback_queue, us_per_beat, e.tempo, negative)
                         ELSE callback_queue,
                         t, Delta(t))
     /\ UNCHANGED control

(* RestartSong (its own name above stands for the callback).               *)
Restarted(q) ==
  LET after[t \in 0..Len(song)] ==
        IF t = 0 THEN q ELSE Push(after[t - 1], t, song[t][1].delta * us_per_beat)
  IN after[Len(song)]

RestartCallback ==
  /\ running_tracks' = Len(song)
  /\ event' = [t \in Tracks |-> 1]
  /\ callback_queue' = Restarted(callback_queue)
  /\ UNCHANGED <<us_per_beat, control>>

(* DelayCallback: the control thread leaves OPL_Delay.                     *)
DelayEnds ==
  /\ control' = Idle
  /\ UNCHANGED <<callback_queue, event, running_tracks, us_per_beat>>
-----------------------------------------------------------------------------
(* The audio thread.                                                       *)

(* AdvanceTime, its loop: pop the next callback that is due, or go back to *)
(* OPL_Mix_Callback (which is called again when its buffer is full).       *)
NextCallback(q) ==
  IF q # <<>> /\ q[1].due <= 0
  THEN /\ popped' = [cb |-> q[1].cb, stale |-> FALSE]
       /\ callback_queue' = Pop(q)
       /\ audio' = "call"
  ELSE /\ callback_queue' = q
       /\ audio' = "mix"
       /\ UNCHANGED popped

(* OPL_Mix_Callback up to FillBuffer: samples until the next callback.  A  *)
(* callback overdue here makes the subtraction wrap to a huge number.      *)
Mix ==
  /\ audio = "mix"
  /\ audio' = "advance"
  /\ nsamples' = IF opl_sdl_paused \/ callback_queue = <<>> \/ callback_queue[1].due < 0
                 THEN Slice - filled
                 ELSE Least(callback_queue[1].due, Slice - filled)
  /\ UNCHANGED <<callback_queue, chip, filled, popped, control, playing>>

(* AdvanceTime.  A pause moves pause_offset with the clock.                *)
AdvanceTime ==
  /\ audio = "advance"
  /\ filled' = (filled + nsamples) % Slice
  /\ IF opl_sdl_paused
     THEN /\ pause_offset' = Least(pause_offset + nsamples, MaxPause)
          /\ NextCallback(callback_queue)
     ELSE /\ UNCHANGED pause_offset
          /\ NextCallback([i \in DOMAIN callback_queue |->
                             [callback_queue[i] EXCEPT !.due = @ - nsamples]])
  /\ UNCHANGED <<opl_sdl_paused, nsamples, control, playing>>

(* The callback, outside callback_queue_mutex and inside callback_mutex.   *)
(* One that I_OPL_StopSong meant to clear works on freed tracks: there the *)
(* model stops.                                                            *)
Call ==
  /\ audio = "call"
  /\ IF popped.stale
     THEN /\ audio' = "late"
          /\ UNCHANGED <<callback_queue, control, event, running_tracks, us_per_beat>>
     ELSE /\ audio' = "called"
          /\ CASE popped.cb = DelayCallback -> DelayEnds
               [] popped.cb = RestartSong   -> RestartCallback
               [] OTHER                     -> TrackTimerCallback(popped.cb)
  /\ UNCHANGED <<chip, filled, nsamples, popped, song, song_looping>>

Called ==
  /\ audio = "called"
  /\ NextCallback(callback_queue)
  /\ UNCHANGED <<chip, filled, nsamples, control, playing>>

Audio == Mix \/ AdvanceTime \/ Call \/ Called
-----------------------------------------------------------------------------
(* The control thread.                                                     *)

Controls == control = Idle /\ audio # "late"

(* I_OPL_PlaySong up to the first StartTrack.                              *)
PlaySong(s, looping) ==
  /\ Controls /\ song = <<>>
  /\ song' = s
  /\ song_looping' = looping
  /\ event' = [t \in DOMAIN s |-> 1]
  /\ running_tracks' = Len(s)
  /\ us_per_beat' = FirstTempo
  /\ control' = [pc |-> "start", track |-> 1, us |-> 0]
  /\ UNCHANGED <<callback_queue, chip, mixer>>

(* StartTrack, ScheduleTrack: the time until the first event ...           *)
StartTrack ==
  /\ control.pc = "start" /\ audio # "late"
  /\ control' = [pc |-> "schedule", track |-> control.track,
                 us |-> song[control.track][1].delta * us_per_beat]
  /\ UNCHANGED <<callback_queue, chip, mixer, playing>>

(* ... and OPL_SetCallback, without OPL_Lock.                              *)
Schedule ==
  /\ control.pc = "schedule" /\ audio # "late"
  /\ callback_queue' = Push(callback_queue, control.track, control.us)
  /\ control' = IF control.track = Len(song) THEN Idle
                ELSE [pc |-> "start", track |-> control.track + 1, us |-> 0]
  /\ UNCHANGED <<chip, mixer, playing>>

(* I_OPL_PauseSong, I_OPL_ResumeSong: OPL_SDL_SetPaused takes no mutex.    *)
PauseSong ==
  /\ Controls /\ song # <<>> /\ ~opl_sdl_paused
  /\ opl_sdl_paused' = TRUE
  /\ UNCHANGED <<callback_queue, pause_offset, mixer, control, playing>>

ResumeSong ==
  /\ Controls /\ opl_sdl_paused
  /\ opl_sdl_paused' = FALSE
  /\ UNCHANGED <<callback_queue, pause_offset, mixer, control, playing>>

(* I_OPL_StopSong, under OPL_Lock; S_StopMusic resumes a paused song       *)
(* before it.  running_tracks and the rest keep their values.  The first   *)
(* definition forgets OPL_ClearCallbacks.                                  *)
Uncleared == callback_queue

Cleared == <<>>

StopSong ==
  /\ Controls /\ song # <<>> /\ ~opl_sdl_paused
  /\ callback_queue' = Cleared
  /\ song' = <<>>
  /\ popped' = [popped EXCEPT !.stale = (audio = "call")]
  /\ UNCHANGED <<chip, audio, filled, nsamples, control,
                 song_looping, event, running_tracks, us_per_beat>>

Starting == StartTrack \/ Schedule

Control == \/ \E s \in Songs, looping \in BOOLEAN : PlaySong(s, looping)
           \/ Starting
           \/ PauseSong \/ ResumeSong \/ StopSong
-----------------------------------------------------------------------------
(* The program starts while OPL_Detect waits in OPL_Delay.                 *)
OplInit ==
  /\ callback_queue = <<[cb |-> DelayCallback, due |-> RestartDelay]>>
  /\ control = [pc |-> "delay", track |-> 0, us |-> 0]
  /\ opl_sdl_paused = FALSE /\ pause_offset = 0
  /\ audio = "mix" /\ filled = 0 /\ nsamples = 0
  /\ popped = [cb |-> DelayCallback, stale |-> FALSE]
  /\ song = <<>> /\ song_looping = FALSE /\ event = <<>>
  /\ running_tracks = 0 /\ us_per_beat = 0

OplNext == Audio \/ Control

OplSpec == OplInit /\ [][OplNext]_oplVars
-----------------------------------------------------------------------------
OplTypeOK ==
  /\ \A i \in DOMAIN callback_queue :
       callback_queue[i].cb \in {DelayCallback, RestartSong} \cup Tracks
  /\ Len(callback_queue) <= MAX_OPL_QUEUE
  /\ pause_offset \in 0..MaxPause /\ opl_sdl_paused \in BOOLEAN
  /\ audio \in {"mix", "advance", "call", "called", "late"}
  /\ filled \in 0..(Slice - 1) /\ nsamples \in 0..Slice
  /\ control.pc \in {"delay", "idle", "start", "schedule"}
  /\ song \in Songs \cup {<<>>}
  /\ running_tracks \in Nat /\ us_per_beat \in Nat

(* OPL_Mix_Callback asks the first entry only: it is the earliest at every *)
(* moment (the sifting of OPL_Queue_Push and OPL_Queue_Pop, and            *)
(* OPL_Queue_AdjustCallbacks, which rescales in place).                    *)
FirstIsEarliest ==
  \A i \in DOMAIN callback_queue : callback_queue[1].due <= callback_queue[i].due

(* A callback of a playing song is waiting in the heap, or popped and not  *)
(* cleared since.                                                          *)
Pending(cb) ==
  Cardinality({i \in DOMAIN callback_queue : callback_queue[i].cb = cb})
    + (IF audio = "call" /\ ~popped.stale /\ popped.cb = cb THEN 1 ELSE 0)

Started(t) == control.pc \in {"start", "schedule"} => t < control.track

(* Every track is driven by exactly one callback: a started track that has *)
(* not ended has one, an ended or stopped one has none, running_tracks     *)
(* counts those that have not ended, and a looping song whose tracks have  *)
(* all ended has one restart coming (TrackTimerCallback, RestartSong and   *)
(* I_OPL_PlaySong, which schedules while callbacks already run).           *)
EveryTrackOnce ==
  audio # "late" =>
    /\ \A t \in Tracks : Pending(t) = IF Started(t) /\ ~Ended(t) THEN 1 ELSE 0
    /\ song # <<>> => running_tracks = Cardinality({t \in Tracks : ~Ended(t)})
    /\ Pending(RestartSong) =
         IF song # <<>> /\ song_looping /\ running_tracks = 0 THEN 1 ELSE 0
    /\ song = <<>> => \A i \in DOMAIN callback_queue : callback_queue[i].cb = DelayCallback

(* OPL_ClearCallbacks: once it returned, no callback set before it is      *)
(* invoked.                                                                *)
ClearedForGood == audio # "late"

(* The audio thread goes on as long as the sound device asks for samples,  *)
(* and I_OPL_PlaySong is straight-line code.                               *)
OplFairness == WF_oplVars(Audio) /\ WF_oplVars(Starting)

(* OPL_Mix_Callback returns: its loop over the samples and AdvanceTime's   *)
(* loop over the callbacks end, whatever is in the song that plays (the    *)
(* 5 ms of TrackTimerCallback are there for that).                         *)
BufferFilled ==
  <>[](song # <<>> /\ audio # "late") => []<>(audio = "advance" /\ nsamples > 0)

(* A looping song comes back to its beginning, unless it is stopped or     *)
(* paused (RestartSong).                                                   *)
Undisturbed == song # <<>> /\ song_looping /\ ~opl_sdl_paused /\ audio # "late"

MusicGoesOn ==
  (Undisturbed /\ control = Idle) ~> (~Undisturbed \/ \A t \in Tracks : event[t] = 1)
=============================================================================
