SPECIFICATION Spec
CONSTANTS
    main = main
    other = other
    class = class
    event = event
    keyword = keyword
    struct = struct
    static = static
    async = async
    readonly = readonly
    sealed = sealed
    Docs <- MCDocs
    Texts <- MCTexts
    Encodings = {"utf-8", "utf-16", "utf-32"}
    Conventions = {FALSE, TRUE}
    Names <- MCNames
    Legends <- MCLegends
    Meanings <- MCMeanings
    Navigable = {class}
    MaxTypes = 3
    MaxModifiers = 3
    MaxTokens <- MCMaxTokens
    NoLegend = NoLegend
    NoRow = NoRow
    Unasked = Unasked
INVARIANTS HighlightingTrue RefusesExactly NavigationFinds
