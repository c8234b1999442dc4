\* Four events in pages of two, two broken connections.
CONSTANTS
    MaxEvents = 4
    PageLimit = 2
    MaxDisconnects = 2
SPECIFICATION FairStreamSpec
INVARIANTS InOrderWithoutGaps RepeatsOnlyAfterDisconnect
PROPERTIES TerminalIsDelivered
