\* Every order of registration, restarts of the tool server, any text in the fields.
CONSTANTS
    Users <- MCUsers
    Entitlements <- MCEntitlements
    Documents <- MCDocuments
    CustTexts <- MCCustTexts
    None = None
SPECIFICATION Spec
INVARIANTS
    TypeOK
    ToolsAsThePluginKnowsThem
    EveryOperationItsTool
    ArgumentsFitTheSchema
    ScopeFitsWhateverIsTyped
    ClickDoesWhatItSays
    SaysWhatItDidUnlessEdited
