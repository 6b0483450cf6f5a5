\* Two panes, two drafts, two dispatches, two versions of a draft.
CONSTANTS
    Panes = {p1, p2}
    Nil = Nil
    MaxDrafts = 2
    MaxSends = 2
    MaxVersion = 2
SPECIFICATION Spec
SYMMETRY Symmetry
INVARIANTS TypeOK OffersCurrentText ClaimsAreSound TypedOnce
