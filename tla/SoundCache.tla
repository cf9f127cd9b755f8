----------------------------- MODULE SoundCache -----------------------------
(***************************************************************************)
(* The sound effects (i_sdlsound.c): a list of expanded sounds, the last   *)
(* used at its head, kept below snd_cachesize by freeing sounds that no    *)
(* channel uses from its tail.  The mixer of SDL plays from the same       *)
(* memory in a thread of its own, and ends a sound when it likes.          *)
(*                                                                         *)
(* A sound is <<sfx, pitch>>: there is at most one of each in the list     *)
(* (CacheSound says so).                                                   *)
(***************************************************************************)
EXTENDS Integers, Sequences, FiniteSetsExt, Lists

CONSTANTS Sfx, InvalidSfx,    \* the effects, and those whose lump is no sound
          Pitches, NORM_PITCH,
          SoundSize,          \* bytes of a sound at a pitch
          snd_cachesize, snd_pitchshift,
          Channels,
          NoSound,
          MaxUses             \* bound: locks of a sound

ASSUME SoundAssumption ==
  /\ NORM_PITCH \in Pitches /\ InvalidSfx \subseteq Sfx
  /\ SoundSize \in [Sfx \X Pitches -> Nat \ {0}]
  /\ snd_cachesize \in Nat /\ snd_pitchshift \in BOOLEAN
  /\ NoSound \notin Sfx \X Pitches
  /\ IsFiniteSet(Channels) /\ MaxUses \in Nat

VARIABLES allocated_sounds,   \* the list, from its head
          use_count,
          channels_playing,
          sounding            \* channels the mixer is playing (Mix_Playing)

soundVars == <<allocated_sounds, use_count, channels_playing, sounding>>

Sounds == Sfx \X Pitches
NormalPitch(sfx) == <<sfx, NORM_PITCH>>

-----------------------------------------------------------------------------
(* A state of the cache within a call is [list, uses].                     *)

AllocatedSize(list) == Total(list, SoundSize)

Without(list, S) == Only(list, Sounds \ S)

(* FindAndFreeSound frees a sound that nobody uses.  The first definition  *)
(* does not ask.                                                           *)
AnySound(c) == Entries(c.list)

Unused(c) == {s \in Entries(c.list) : c.uses[s] = 0}

After(list, s) == {list[i] : i \in {j \in DOMAIN list : \E k \in 1..(j - 1) : list[k] = s}}

(* It takes the last one: the n last of them are those with fewer than n   *)
(* behind them.                                                            *)
LastUnused(c, n) ==
  {s \in Unused(c) : Cardinality(Unused(c) \cap After(c.list, s)) < n}

FreeLast(c, n) == [c EXCEPT !.list = Without(@, LastUnused(c, n))]

(* ReserveCacheSpace frees until len more bytes fit, or all that it can.   *)
Fitting(c, len) == AllocatedSize(c.list) + len <= snd_cachesize

ReserveCacheSpace(c, len) ==
  LET all    == Cardinality(Unused(c))
      enough == {n \in 0..all : Fitting(FreeLast(c, n), len)}
  IN IF snd_cachesize = 0 THEN c
     ELSE FreeLast(c, IF enough = {} THEN all ELSE Min(enough))

(* AllocateSound: malloc may fail as well, and then takes some more of     *)
(* them away; it gives up when there are none.  What it can lead to:       *)
AllocateSound(c, s) ==
  LET reserved == ReserveCacheSpace(c, SoundSize[s])
      left     == Cardinality(Unused(reserved))
      fresh(n) == LET f == FreeLast(reserved, n)
                  IN [list |-> <<s>> \o f.list, uses |-> [f.uses EXCEPT ![s] = 0]]
  IN [made |-> {fresh(n) : n \in 0..left}, failed |-> {FreeLast(reserved, left)}]

(* LockAllocatedSound moves the sound to the head.                         *)
Locked(c, s) ==
  [list |-> <<s>> \o Without(c.list, {s}), uses |-> [c.uses EXCEPT ![s] = @ + 1]]

Unlocked(c, s) == [c EXCEPT !.uses[s] = @ - 1]
-----------------------------------------------------------------------------
Cache == [list |-> allocated_sounds, uses |-> use_count]

Becomes(c) ==
  /\ \A s \in Sounds : c.uses[s] <= MaxUses
  /\ allocated_sounds' = c.list /\ use_count' = c.uses

(* ReleaseSoundOnChannel.  A pitch-shifted sound goes with its last user.  *)
Released(c, channel) ==
  LET s == channels_playing[channel]
      u == Unlocked(c, s)
  IN IF s = NoSound THEN c
     ELSE IF s[2] # NORM_PITCH /\ u.uses[s] <= 0 THEN [u EXCEPT !.list = Without(@, {s})]
     ELSE u

(* The first part of LockSound: a sound that is not there at its normal    *)
(* pitch is loaded by CacheSFX, unless its lump is no sound (which is then *)
(* left PU_STATIC in the zone) or there is no memory.                      *)
LoadSound(c, sfx) ==
  IF NormalPitch(sfx) \in Entries(c.list) THEN [made |-> {c}, failed |-> {}]
  ELSE IF sfx \in InvalidSfx THEN [made |-> {}, failed |-> {c}]
  ELSE AllocateSound(c, NormalPitch(sfx))

Plays(channel, s, c) ==
  /\ Becomes(c)
  /\ channels_playing' = [channels_playing EXCEPT ![channel] = s]
  /\ sounding' = IF s = NoSound THEN sounding \ {channel} ELSE sounding \cup {channel}

(* I_SDL_StartSound.  The normal pitch is locked first (LockSound), and a  *)
(* sound that is there at the pitch asked for is locked then, even if it   *)
(* is the same; a new one takes over the lock of the one it is made from.  *)
I_SDL_StartSound(sfx, channel, pitch) ==
  LET loaded == LoadSound(Released(Cache, channel), sfx)
      normal == NormalPitch(sfx)
      asked  == <<sfx, pitch>>
  IN \/ \E c \in loaded.failed :
          /\ Becomes(c)
          /\ channels_playing' = [channels_playing EXCEPT ![channel] = NoSound]
          /\ sounding' = sounding \ {channel}
     \/ \E loadedCache \in loaded.made :
          LET c     == Locked(loadedCache, normal)
              there == asked \in Entries(c.list)
              shift == AllocateSound(c, asked)
          IN \/ there /\ Plays(channel, asked, Locked(c, asked))
             \/ ~there /\ ~snd_pitchshift /\ Plays(channel, normal, c)
             \/ /\ ~there /\ snd_pitchshift
                /\ \/ \E made \in shift.made :
                        Plays(channel, asked, Unlocked(Locked(made, asked), normal))
                   \/ \E failed \in shift.failed : Plays(channel, normal, failed)

Stop(channel) ==
  /\ Becomes(Released(Cache, channel))
  /\ channels_playing' = [channels_playing EXCEPT ![channel] = NoSound]
  /\ sounding' = sounding \ {channel}

I_SDL_StopSound(channel) == Stop(channel)

(* The mixer's thread comes to the end of a sound; I_SDL_UpdateSound finds *)
(* out later (it looks at all the channels; one at a time here).           *)
SoundEnds(channel) ==
  /\ channel \in sounding
  /\ sounding' = sounding \ {channel}
  /\ UNCHANGED <<allocated_sounds, use_count, channels_playing>>

I_SDL_UpdateSound(channel) ==
  /\ channels_playing[channel] # NoSound /\ channel \notin sounding
  /\ Stop(channel)
-----------------------------------------------------------------------------
SoundInit ==
  /\ allocated_sounds = <<>>
  /\ use_count = [s \in Sounds |-> 0]
  /\ channels_playing = [c \in Channels |-> NoSound]
  /\ sounding = {}

SoundNext ==
  \E channel \in Channels :
    \/ \E sfx \in Sfx, pitch \in Pitches : I_SDL_StartSound(sfx, channel, pitch)
    \/ I_SDL_StopSound(channel)
    \/ SoundEnds(channel)
    \/ I_SDL_UpdateSound(channel)

SoundSpec == SoundInit /\ [][SoundNext]_soundVars
-----------------------------------------------------------------------------
SoundTypeOK ==
  /\ allocated_sounds \in Seq(Sounds)
  /\ use_count \in [Sounds -> 0..MaxUses]
  /\ channels_playing \in [Channels -> Sounds \cup {NoSound}]
  /\ sounding \subseteq Channels

(* What a channel plays, and the mixer's thread reads, is in memory and in *)
(* the list once, and is locked for every channel that plays it, so that   *)
(* no ReserveCacheSpace frees it and no release finds nothing to unlock    *)
(* (UnlockAllocatedSound's I_Error).                                       *)
Playing(s) == {c \in Channels : channels_playing[c] = s}

PlayingIsAllocated ==
  /\ NoDuplicates(allocated_sounds)
  /\ \A s \in Sounds : /\ use_count[s] >= Cardinality(Playing(s))
                       /\ Playing(s) # {} => s \in Entries(allocated_sounds)
  /\ \A c \in sounding : channels_playing[c] # NoSound

(* A sound is allocated within snd_cachesize (0 is no limit), or everything *)
(* else is in use.  For ReserveCacheSpace that is what has a lock.         *)
New   == Entries(allocated_sounds') \ Entries(allocated_sounds)
OtherSounds == {s \in Entries(allocated_sounds') : \A n \in New : s[1] # n[1]}

OnlyLockedLeft ==
  [][snd_cachesize # 0 /\ New # {} =>
       AllocatedSize(allocated_sounds') <= snd_cachesize \/ \A s \in OtherSounds : use_count'[s] > 0
    ]_soundVars

(* "Keep freeing sound effects that aren't currently being played, until   *)
(* there is enough space" (i_sdlsound.c:184): what is left then is played  *)
(* by a channel.  Not so: a sound that is found at the pitch asked for has *)
(* been locked twice and is unlocked once, and stays for good.             *)
CacheBounded ==
  [][snd_cachesize # 0 /\ New # {} =>
       AllocatedSize(allocated_sounds') <= snd_cachesize \/ \A s \in OtherSounds : Playing(s)' # {}
    ]_soundVars
=============================================================================
