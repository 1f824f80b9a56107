SPECIFICATION DriveFairSpec
CONSTANTS
  Burst = 1
  LastTrack = 4
  Gap = 1
  MaxTicks = 3
  Tracks <- MCTracks
  Duration <- MCDuration
  List <- MCList
INVARIANT DriveAgrees
INVARIANT RangePlayedOut
PROPERTY NotCutShort
PROPERTY MusicGoesOn
