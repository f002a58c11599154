SPECIFICATION Spec
CONSTANTS
    page = page
    curl = curl
    Conns = {page, curl}
    PageConns = {page}
    Sent <- SentRequests
    MaxAhead = 1
    MaxUnread = 1
INVARIANTS
    TypeOK
    OwnAnswer
PROPERTIES
    PageAnswered
