SPECIFICATION Spec
CONSTANTS
  Payments <- PaymentPayloads
  Purchases <- PurchasePayloads
  OwnConstraints <- ClientConstraints
  NoConstraints = NoConstraints
  None = None
INVARIANTS TicketWithinPolicy TicketNarrowsPayment
