SPECIFICATION RoomSpec
CONSTANTS
  N = 9
  Kind <- MCKind
INVARIANTS RoomTypeOK LockedUntilSolved StoppedRoomIsOpen DoorAheadIsShut OnlyCurrentListens HeardOnce
 
