SPECIFICATION FairSpec
CONSTANTS
    c1 = c1
    c2 = c2
    Files <- MCFiles
    Includes <- MCIncludes
    Stem <- MCStem
    Urls <- MCUrls
    PageOf <- MCPageOf
    NameOf <- MCNameOf
    IndexOf <- MCIndexOf
    Clients = {c1, c2}
    Visits <- MCVisits
    MaxWrites = 1
INVARIANTS
    StaleHasAReason
    ConnectedFollows
PROPERTIES
    PagesFollow
