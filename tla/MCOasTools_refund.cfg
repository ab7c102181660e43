\* Was refunded what the page says was refunded?
CONSTANTS
    Users <- MCUsers
    Entitlements <- MCEntitlements
    Documents <- MCDocuments
    CustTexts <- MCCustTexts
    None = None
SPECIFICATION Spec
INVARIANTS
    RefundsWhatItSays
