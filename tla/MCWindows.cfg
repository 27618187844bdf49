SPECIFICATION Spec
CONSTANT Root = "desktop"
CONSTANT Windows <- MCWindows
CONSTANT Plain <- MCPlain
CONSTANT Parent <- MCParent
CONSTANT Place <- MCPlace
CONSTANT Draggable <- MCDraggable
CONSTANT Capacity = 2
CONSTANT Moves <- MCMoves
INVARIANT TypeOK
INVARIANT ClickGoesToShown
INVARIANT KeysFollowClicks
PROPERTY DraggedFollowsPointer
PROPERTY ReleaseEndsDrag
