CONSTANTS
  Sfx = {"pistol", "door", "broken"}
  InvalidSfx = {"broken"}
  Pitches = {1, 2}
  NORM_PITCH = 1
  SoundSize <- PitchBytes
  snd_cachesize = 3
  snd_pitchshift = TRUE
  Channels = {1, 2}
  NoSound = NoSound
  MaxUses = 3
SPECIFICATION SoundSpec
PROPERTIES CacheBounded
CHECK_DEADLOCK FALSE
