SPECIFICATION WebsiteSpec
CONSTANTS
    None = None
    Text <- MCText
    Sample <- MCSample
    Length <- MCLength
    NoText <- MCNoText
    Id = {1, 2, 3}
    LinkRow <- MCLinkRow
    CategoryRow <- MCCategoryRow
    Vector = {v}
    MaxRows = 2
    IdsMax = 2
    ListsOfIds <- MCListsOfIds
    NameIndex <- MCNameIndex
    LinkQuery <- MCLinkQuery
    Bare <- MCBare
    Assigned <- MCAssigned
    HostLenMax = 4
    QueryWordsMax = 8
    NameLenMax = 8
    NameMatchesMax = 3
    FoldedNameLenMax = 9
    BulkItemsMax = 5
    VectorsMax = 5
    EntityWritesMax = 5
    FactsLenMax = 22
    Query <- MCQueries
    Noise = "-"
    Operator <- MCOperator
    WordLength <- MCWordLength
    Stopword = {"in", "the"}
    The = "the"
    CueBefore = {"in"}
    CueAfter = {"x"}
    Common = {"arts", "uk", "in", "the"}
    Domain = {"a.uk"}
    CountryOf <- MCCountryOf
    ReligionOf <- MCReligionOf
    Religions <- MCReligions
    NamesMax = 3
    NameMaxBytes = 9
    MaxEntityNameBytes = 8
    ApiQuery <- MCApiQuery
    Offset = {0, 50, 5050}
    OffsetCap = 5000
    Token <- MCToken
    Lookup <- MCLookup
    EntryLimit = 100
    AdjacentLimit = 3
    LinkText <- MCLinkText
    NerLabel <- MCNerLabel
    Between <- MCBetween
    Root = 1
    Attached = {".", ",", "-", "##o"}
    Piece = {"##o"}
    Mark = {".", ",", "-"}
    Lost = {"&"}
    Letters <- MCLetters
    Bytes <- MCBytes
    Lower <- MCLower
    Capital = {"St", "Irish", "Kim", "Koran", "Paris", "TX", "Jesus"}
    Short = {"St", "TX", "Kim"}
    Stop <- MCStop
    Plain <- MCPlain
    Connector = {}
    Gazetteer <- MCGazetteer
    LoneWeight = 5
    NameWeight = 9
    StateOf <- MCStateOf
    Demonym <- MCDemonym
    LanguageBefore <- MCLanguageBefore
    LanguageAfter <- MCLanguageAfter
    Term <- MCTerm
    Figure <- MCFigure
    CodeOrder <- MCCodeOrder
    CountryCodes = {"fr", "gb", "ie", "us"}
    NerMax = 4
    CountriesMax = 1
    EntityNamesMax = 1
    EntityNameBytes = 6
    ReligionBits = 3
    RootList <- MCRootList
    Below <- MCBelow
    Blank = " "
    TypedUrl <- MCTypedUrl
    TypedTitle <- MCTypedTitle
    TypedDescription <- MCTypedDescription
    HttpUrl <- MCHttpUrl
    UrlMax = 3
    TitleMax = 2
    DescriptionMin = 2
    DescriptionMax = 3
    TypedName <- MCTypedName
    Label <- MCLabel
    Findable = {4, 5}
    Searches = 2
    Rows = {1, 2, 3}
INVARIANTS
    RequestUnderstood
    ReplyUnderstood
    WordsAreAccountedFor
    QueryAsksForTargets
    LabelsAreOwn
    FactsAreAccepted
    SubcategoryIsOfTop
    SubmittedIsShown
