SPECIFICATION Spec
CONSTANTS
    None = None
    GamePayloads <- MCGamePayloads
    OwnPayloads <- MCOwnPayloads
INVARIANTS
    TypeOK
    IntactPayloadComesBack
    AcceptedIsPrefix
    RewriteIsStable
