SPECIFICATION Spec
CONSTANTS
    Slots <- MCSlots
    Drafts <- MCDrafts
    Health <- MCHealth
    Layers <- MCLayers
    Domains <- MCDomains
    Queries <- MCQueries
INVARIANTS
    ViewIsClosed
    FocusIsBall
    DataFlowsRight
PROPERTY
    PromotionKeepsPublished
